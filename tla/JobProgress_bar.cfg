SPECIFICATION Spec
CONSTANTS
    Kinds = {"prompt", "spec"}
    SparkTasks <- MCSparkTasks
    MaxRuns = 2
    JoinTimesOut = TRUE
INVARIANT TypeOK
INVARIANT BarWithinStage
INVARIANT RowFollowsTracker
INVARIANT NobodyWaitsForEver
PROPERTY BarOnlyGrows
PROPERTY FinishedBarStays
\* The job ends: the system may come to rest.
CHECK_DEADLOCK FALSE

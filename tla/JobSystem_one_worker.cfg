SPECIFICATION FairSpec
CONSTANTS
    j1 = j1
    w1 = w1
    a1 = a1
    a2 = a2
    Jobs = {j1}
    Workers = {w1}
    Answers = {a1, a2}
    NoAnswer = NoAnswer
    NoJob = NoJob
    Kinds = {"pattern", "prompt", "spec"}
    MaxRetries = 2
    Faults = {"crash", "redeliver"}
    MaxFaults = 2
INVARIANT TypeOK
INVARIANT OutputMatchesRow
INVARIANT AsksOnlyWithoutAnswer
INVARIANT NoOrphanWork
INVARIANT NoJobStranded
PROPERTY ImplementsContract
PROPERTY EventuallyFinished
\* Jobs finish: the system may come to rest.
CHECK_DEADLOCK FALSE

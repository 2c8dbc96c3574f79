SPECIFICATION Spec
CONSTANTS
    j1 = j1
    w1 = w1
    a1 = a1
    Jobs = {j1}
    Workers = {w1}
    Answers = {a1}
    NoAnswer = NoAnswer
    NoJob = NoJob
    Kinds = {"spec"}
    MaxRetries = 0
    Faults = {}
    MaxFaults = 0
INVARIANT CancelledRunLaunchesNothing
\* Jobs finish: the system may come to rest.
CHECK_DEADLOCK FALSE

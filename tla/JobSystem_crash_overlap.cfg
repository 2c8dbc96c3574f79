SPECIFICATION Spec
CONSTANTS
    j1 = j1
    w1 = w1
    w2 = w2
    a1 = a1
    Jobs = {j1}
    Workers = {w1, w2}
    Answers = {a1}
    NoAnswer = NoAnswer
    NoJob = NoJob
    Kinds = {"prompt"}
    MaxRetries = 1
    Faults = {"crash"}
    MaxFaults = 1
SYMMETRY WorkerSymmetry
INVARIANT OutputMatchesRow
\* Jobs finish: the system may come to rest.
CHECK_DEADLOCK FALSE

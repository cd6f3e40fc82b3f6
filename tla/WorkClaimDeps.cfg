CONSTANTS
    Procs = {p1}
    Executors = {e1}
    Attempts = {a1, a2}
    NoAttempt = NoAttempt
    NoExecutor = NoExecutor
    Graph <- MCGraph
    Leases = {1}
    CloseTerminals = {"succeeded", "failed"}
    MaxTime = 3
    MaxSeq = 4
SPECIFICATION Spec
CHECK_DEADLOCK FALSE
INVARIANT DepsSucceeded
SYMMETRY Symmetry

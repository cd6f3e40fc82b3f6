CONSTANTS
    Procs = {p1}
    Executors = {e1, e2}
    Attempts = {a1, a2}
    NoAttempt = NoAttempt
    NoExecutor = NoExecutor
    Graph <- MCOneItem
    Leases = {0, 1}
    CloseTerminals = {"succeeded", "failed"}
    MaxTime = 3
    MaxSeq = 6
SPECIFICATION Spec
CHECK_DEADLOCK FALSE
INVARIANT TypeOK
INVARIANT ExclusiveLease
INVARIANT GrantDurable
INVARIANT Reopens
INVARIANT GenerationFence
PROPERTY HistoryImmutable
SYMMETRY Symmetry

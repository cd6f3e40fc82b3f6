CONSTANTS
    ParentDeathSignal = TRUE
    MaxRuns = 2
    MaxKids = 1
    MaxForeign = 0
SPECIFICATION Spec
CHECK_DEADLOCK FALSE
INVARIANT NoFalseSuccess

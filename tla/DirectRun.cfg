CONSTANTS
    ParentDeathSignal = TRUE
    MaxRuns = 3
    MaxKids = 3
    MaxForeign = 1
SPECIFICATION FairSpec
CHECK_DEADLOCK FALSE
INVARIANT TypeOK
INVARIANT OneProvider
 
INVARIANT GateEvidence
PROPERTY NoSecondLaunch
PROPERTY ProductKept
PROPERTY NoRewrite
 

SPECIFICATION FairSpec
CONSTANTS
    a = a
    b = b
    NoItem = NoItem
    MaxGen = 2
    Graph <- Chain
    Integrates = TRUE
    Resumes = FALSE
    Faults <- AllFaults
INVARIANT TypeOK
INVARIANT StoresAgree
INVARIANT SingleProvider
INVARIANT GenerationsSerial
INVARIANT DepsFirst
INVARIANT PidAttemptRecovers
INVARIANT HumanGateBacked
PROPERTY NoRelaunch
PROPERTY Terminates

CONSTANTS
    Attempts = {a1, a2}
    Routes = {r1, r2}
    NoRoute = NoRoute
    Windows = {w1}
    WindowOf <- OneWindow
    Demands = {1, 2}
    Remaining = {3}
    Headroom = 1
    SoftTTL = 2
    Actuals = {u1, u2}
    NoActual = NoActual
    SaveFails = TRUE
    MaxTime = 4
    MaxSeq = 4
SPECIFICATION Spec
SYMMETRY Symmetry
INVARIANT TypeOK
INVARIANT PressureBacked
INVARIANT Reopens
INVARIANT FileWithinCapacity
PROPERTY OutcomeKept

CONSTANTS
    root = root
    first = first
    second = second
    third = third
    Root = root
    Plan <- TreePlan
    Deps <- TreeDeps
    MaxConcurrency <- TreeLimits
    Ceiling = 2
    Calls = {k1, k2}
    NoCall = NoCall
    Lease = 2
    Outcomes = {"succeeded", "failed"}
    Faults = {"stop", "busy", "gate", "contract"}
    MaxGen = 2
    MaxTime = 2
SPECIFICATION Spec
CHECK_DEADLOCK FALSE
INVARIANT TypeOK
 
INVARIANT BudgetSettled
PROPERTY ImplementsLife
SYMMETRY Symmetry

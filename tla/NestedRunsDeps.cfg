CONSTANTS
    root = root
    first = first
    second = second
    third = third
    Root = root
    Plan <- ChainPlan
    Deps <- ChainDeps
    MaxConcurrency <- ChainLimits
    Ceiling = 3
    Calls = {k1}
    NoCall = NoCall
    Lease = 1
    Outcomes = {"succeeded", "failed"}
    Faults = {}
    MaxGen = 1
    MaxTime = 0
SPECIFICATION Spec
CHECK_DEADLOCK FALSE
INVARIANT DependenciesFirst

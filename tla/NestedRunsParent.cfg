CONSTANTS
    root = root
    first = first
    second = second
    third = third
    Root = root
    Plan <- OnePlan
    Deps <- OneDeps
    MaxConcurrency <- ChainLimits
    Ceiling = 3
    Calls = {k1}
    NoCall = NoCall
    Lease = 1
    Outcomes = {"succeeded", "failed"}
    Faults = {"busy"}
    MaxGen = 1
    MaxTime = 0
SPECIFICATION Spec
CHECK_DEADLOCK FALSE
INVARIANT ParentAfterChildren

SPECIFICATION Spec
CONSTANTS
    a = a
    b = b
    NoItem = NoItem
    MaxGen = 1
    Graph <- OneItem
    Integrates = TRUE
    Resumes = TRUE
    Faults = {"crash"}
INVARIANT StreamPossible

SPECIFICATION Spec
CONSTANTS
    a = a
    b = b
    NoItem = NoItem
    MaxGen = 1
    Graph <- Chain
    Integrates = TRUE
    Resumes = TRUE
    Faults <- AllFaults
PROPERTY ImplementsLife

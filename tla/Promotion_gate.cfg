SPECIFICATION Spec
CONSTANTS
    p1 = p1
    p2 = p2
    Operators = {p1}
    Phases = {"Succeeded", "Failed"}
    MaxCommits = 1
    MaxRuns = 3
    MaxInterrupts = 1
INVARIANTS
    ProdWaitsForGate
PROPERTIES
    StagingLands
CHECK_DEADLOCK FALSE

SPECIFICATION Spec
CONSTANTS
    p1 = p1
    p2 = p2
    Operators = {p1, p2}
    Phases = {"Succeeded", "Failed"}
    MaxCommits = 2
    MaxRuns = 2
    MaxInterrupts = 0
SYMMETRY Symmetry
INVARIANTS
    TypeOK
    NoUnstagedRelease
PROPERTIES
    PushesUndoNothing
CHECK_DEADLOCK FALSE

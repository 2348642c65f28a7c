SPECIFICATION Spec
CONSTANTS
    p1 = p1
    p2 = p2
    Operators = {p1}
    Phases = {"Succeeded", "Failed"}
    MaxCommits = 1
    MaxRuns = 2
    MaxInterrupts = 0
PROPERTIES
    CompleteMeansPromoted
CHECK_DEADLOCK FALSE

SPECIFICATION Spec
CONSTANTS
    p1 = p1
    p2 = p2
    Operators = {p1, p2}
    GateChoices = {TRUE, FALSE}
    MaxRuns = 3
    MaxStuck = 1
INVARIANTS
    TypeOK
    VerdictIsFresh
    OneBatchPod
    GreenMeansHealthy
PROPERTIES
    EveryRunEnds
CHECK_DEADLOCK FALSE

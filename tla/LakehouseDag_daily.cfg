SPECIFICATION Spec
CONSTANTS
    Gates = {"dag", "job"}
    Edges = {1, 2, 3}
    MaxWrites = 2
    MaxFaults = 2
INVARIANTS
    TypeOK
    GreenMeansGood
    MetricsAgree
    GreenRunIsEarned
    NoEndWithoutStart
PROPERTIES
    BadTablesAlarm
    AlertClears
    LineageIsRegistered

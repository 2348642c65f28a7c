SPECIFICATION Spec
CONSTANTS
    d1 = d1
    d2 = d2
    Currencies = {1, 2}
    Drivers = {d1}
    MaxLoads = 2
    MaxExpiries = 1
    MaxFaults = 1
INVARIANTS
    TypeOK
    ExitZeroDelivers
    BatchLandsTheTopic
PROPERTIES
    LoaderEnds
    RecordsLand

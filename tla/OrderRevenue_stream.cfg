SPECIFICATION Spec
CONSTANTS
    o1 = o1
    o2 = o2
    q1 = q1
    q2 = q2
    Orders = {o1, o2}
    Partitions = {q1, q2}
    PartitionOf <- TwoPartitions
    Busy = {q1}
    Width = 2
    Delay = 1
    Skew = 1
    MaxTime = 4
    MaxRecords = 4
    MaxCheckpoints = 0
    MaxRestarts = 0
    MaxSnapshots = 0
    MaxRemovals = 0
INVARIANTS
    CountsVersionsOnce
    OneRecordPerWindow
PROPERTIES
    IdleSourceDoesNotStall
CHECK_DEADLOCK FALSE

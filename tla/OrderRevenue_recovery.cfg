SPECIFICATION Spec
CONSTANTS
    o1 = o1
    o2 = o2
    q1 = q1
    q2 = q2
    Orders = {o1, o2}
    Partitions = {q1}
    PartitionOf <- OnePartition
    Busy = {q1}
    Width = 2
    Delay = 1
    Skew = 1
    MaxTime = 3
    MaxRecords = 3
    MaxCheckpoints = 1
    MaxRestarts = 1
    MaxSnapshots = 1
    MaxRemovals = 1
INVARIANTS
    TypeOK
    InOrderWithinALife
    NoOrderLost
CHECK_DEADLOCK FALSE

SPECIFICATION Spec
CONSTANTS
    c1 = c1
    c2 = c2
    o1 = o1
    o2 = o2
    i1 = i1
    i2 = i2
    jan = jan
    job = job
    dag = dag
    Customers = {c1}
    Orders = {o1}
    Items = {i1}
    Quantities = {1}
    SeedCustomers = {c1}
    Deletable = {o1}
    TsGaps = {1}
    OrderedPublish = TRUE
    NoRow = NoRow
    MaxLsn = 7
    MaxRestarts = 0
    MaxRemovals = 0
    Drivers = {job}
    DbtDrivers = {}
    NoDay = NoDay
    MaxCrashes = 0
    OrderOf <- MCOrderOf
    Days <- MCDays
    DayOf <- MCDayOf
    MonthOf <- MCMonthOf
    BucketOf <- MCBucketOf
INVARIANTS
    DeletedOrdersLeaveSilver

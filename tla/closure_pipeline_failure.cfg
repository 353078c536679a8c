SPECIFICATION Spec
CONSTANTS
    MaxTid = 3
    Stored <- StoredBytes
    Logical <- LogicalBytes
    Budget = 2
    RamBudget = 1
    MaxWorkers = 2
    MaxCached = 0
    Faults = TRUE
PROPERTIES
    RunComesBack
CHECK_DEADLOCK FALSE

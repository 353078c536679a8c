SPECIFICATION Spec
CONSTANTS
    MaxTid = 3
    Stored <- StoredBytes
    Logical <- LogicalBytes
    Budget = 2
    RamBudget = 1
    MaxWorkers = 2
    MaxCached = 3
    Faults = TRUE
INVARIANTS
    TypeOK
    OnlyHeadExceedsBudget
    KeptExactlyWhileNeeded
    LiveSetIsOnePath
    PlanIsExact
PROPERTIES
    Rebuilds
    RunEnds
CHECK_DEADLOCK FALSE

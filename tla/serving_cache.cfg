SPECIFICATION Spec
CONSTANTS
    r1 = r1
    r2 = r2
    Requests = {r1, r2}
    MaxTid = 4
    Wants <- SharedWants
    Models <- PairModels
    Base <- TwoPairs
    Size <- PairSizes
    Stored <- PairBlobs
    BigThreshold = 2
    DecodeSlots = 1
    DemandInflight = 2
    WarmInflight = 4
    High = 6
    Low = 2
    Policy = "dag_value"
    S3Fails = TRUE
    MaxRequests = 1
    MaxPasses = 2
INVARIANTS
    TypeOK
    ErrorsNeedEvictions
PROPERTIES
    PinsProtect
    DagKeepsBases
    RequestsAnswered
CHECK_DEADLOCK FALSE

SPECIFICATION OfflineSpec
CONSTANTS
    ByteBits = 3
    ParThreshold = 2
    SubChunk = 5
    WordBits = 2
    SketchDepth = 2
    Width = 2
    Hash <- MCHash
    SketchParallel = 3
    HammingParallel = 4
    WordsPerLong = 2
    LongsPerChunk = 2
    VectorLength = 2
    Full = 4
    MaxDistance = 4
    Ratio <- RatioAt
    Threshold = 2
    NoFp <- MCNoFp
    ChunkRows = 2
    MaxHops = 64
    RawRatio = 4
    Big <- MCBig
    MaxMoves = 6
    Problems <- MCProblems
    ShardPlan <- MCShards
    Dtype <- MCDtype
    MaxStops = 2
    MaxErrors = 2
    Models <- MCModels
    Size <- MCCacheSize
    DeltaSize <- MCDeltaSize
    BaseOf <- MCBaseOf
    Capacities = {3, 5}
    Policies = {"lru", "gdsf", "basebias", "recon"}
    MaxPulls = 3
    CodecInputs <- MCCodecs
    SketchInputs <- MCSketches
    StoreInputs <- MCStores
    ArenaInputs <- MCArenas
    PlanInputs <- MCPlans
    SeriesInputs <- MCSeries
    BatchInputs <- MCBatches
    BundleInputs <- MCBundles
    CutInputs <- MCCuts
    BlobInputs <- MCBlobs
    LoadInputs <- MCLoads
    ObjectInputs <- MCObjects
    PullInputs <- MCPulls
    ItemSize <- MCItem
    OtherItemSize <- MCOtherItem
    XorWord = 3
    XorChunk = 2
    AdoptInputs <- MCAdopts
    SolveInputs <- MCSolves
    SplitInputs <- MCSplits
    MaxTid = 3
    Jobs <- MCJobs
    Stored <- MCStored
    Logical <- MCLogical
    InflightBudget = 2
    MaxShardBytes = 3
    PoolWorkers = 2
    FetchTries = 3
    MaxDownloads = 2
INVARIANTS
    CodecsLossless
    SketchesAgree
    PlansServeOnce
    FlexSplitPays
    BatchLeavesTrees
    CutsLoseNothing
    ReadsAreExact
    ReplanDepthOne
    SolversServeEveryTensor
    RefinedPlansPay
    CachesFitTheirBudget
    LoggedIsUploaded
    CleanRunDelivers
    DownloadsDeliver
PROPERTY
    RefinementDescends
CHECK_DEADLOCK FALSE

SPECIFICATION CFairSpec
CONSTANTS
    w1 = w1
    w2 = w2
    v1 = v1
    v2 = v2
    l1 = l1
    l2 = l2
    Video = {v1, v2}
    Listing = {l1, l2}
    Seed = {l1}
    BaseUrl = l1
    Excluded = {l2}
    Collides = {v2}
    BloomCapacity = 1
    LeaseTimeout = 1
    MaxStrikes = 1
    ListingBaseTTL = 1
    SeedTTL = 1
    ListingMaxTTL = 1
    QuarantineListing = 1
    SchedulerBatchLimit = 2
    PromoteBatchLimit = 2
    ReapBatchLimit = 2
    SweepBatchLimit = 2
    PendingScore = 9
    MaxNow = 2
    MaxJob = 4
    Worker = {w1, w2}
    RateLimitStop = 1
    MaxFaults = 1
    RateLimitBackoff <- MCRateLimitBackoff
    StrikeBackoff <- MCStrikeBackoff
    Links <- MCLinks
INVARIANTS
    StoredBeforeAck
    ChildrenKnown
    ExclusiveUnlessExpired
PROPERTIES
    ImplementsFrontier
    ProcessEnds

SPECIFICATION RFairSpec
CONSTANTS
    l2 = l2
    l1 = l1
    Video = {}
    Listing = {l1, l2}
    Seed = {l1}
    BaseUrl = l1
    Excluded = {l2}
    Collides = {}
    BloomCapacity = 1
    LeaseTimeout = 1
    MaxStrikes = 2
    ListingBaseTTL = 1
    SeedTTL = 1
    ListingMaxTTL = 1
    QuarantineListing = 1
    SchedulerBatchLimit = 1
    PromoteBatchLimit = 1
    ReapBatchLimit = 1
    SweepBatchLimit = 1
    PendingScore = 9
    MaxNow = 2
    MaxJob = 3
    MaxErrors = 1
    RateLimitBackoff <- MCRateLimitBackoff
    StrikeBackoff <- MCStrikeBackoff
INVARIANTS
    IdleUnlessEntered
PROPERTIES
    DrainIsComplete
    DrainEnds
    WorkReturns

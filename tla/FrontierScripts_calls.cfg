SPECIFICATION Spec
CONSTANTS
    v1 = v1
    l1 = l1
    Video = {v1}
    Listing = {l1}
    Seed = {l1}
    BaseUrl = l1
    Collides = {}
    BloomCapacity = 1
    LeaseTimeout = 1
    MaxStrikes = 2
    ListingBaseTTL = 1
    SeedTTL = 1
    ListingMaxTTL = 1
    QuarantineListing = 1
    SchedulerBatchLimit = 2
    PromoteBatchLimit = 2
    ReapBatchLimit = 2
    SweepBatchLimit = 1
    PendingScore = 9
    MaxNow = 2
    MaxJob = 4
    MaxAborts = 2
    RateLimitBackoff <- MCRateLimitBackoff
    StrikeBackoff <- MCStrikeBackoff
INVARIANTS
    DuplicateNotLoss
    FenceSurvives
PROPERTIES
    ImplementsFrontier

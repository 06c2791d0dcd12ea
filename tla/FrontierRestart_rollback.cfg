SPECIFICATION RSpec
CONSTANTS
    v1 = v1
    l1 = l1
    Video = {v1}
    Listing = {l1}
    Seed = {l1}
    BaseUrl = l1
    Excluded = {}
    Collides = {}
    BloomCapacity = 2
    LeaseTimeout = 1
    MaxStrikes = 1
    ListingBaseTTL = 1
    SeedTTL = 1
    ListingMaxTTL = 2
    QuarantineListing = 2
    SchedulerBatchLimit = 1
    PromoteBatchLimit = 1
    ReapBatchLimit = 1
    SweepBatchLimit = 1
    PendingScore = 99
    MaxNow = 2
    MaxRestart = 1
    MaxJob = 3
    RateLimitBackoff <- MCRateLimitBackoff
    StrikeBackoff <- MCStrikeBackoff
INVARIANTS
    RollbackSound

SPECIFICATION Spec
CONSTANTS
    v1 = v1
    v2 = v2
    v3 = v3
    l1 = l1
    Video = {v1, v2, v3}
    Listing = {l1}
    Seed = {l1}
    BaseUrl = l1
    Excluded = {}
    Collides = {v3}
    BloomCapacity = 2
    LeaseTimeout = 1
    MaxStrikes = 2
    ListingBaseTTL = 1
    SeedTTL = 1
    ListingMaxTTL = 1
    QuarantineListing = 1
    SchedulerBatchLimit = 1
    PromoteBatchLimit = 1
    ReapBatchLimit = 2
    SweepBatchLimit = 2
    PendingScore = 9
    MaxNow = 2
    MaxJob = 5
    RateLimitBackoff <- MCRateLimitBackoff
    StrikeBackoff <- MCStrikeBackoff
SYMMETRY VideoSymmetry
INVARIANTS
    TypeOK
    OneJobPerURL
    PendingIffLive
    DeadIsSettled
    FailureCounters
    FencedJobs
    VideoClaimKept
    UnclaimedOnlyWhenFull
PROPERTIES
    LeasedAtMostOnce
    ImplementsFacts

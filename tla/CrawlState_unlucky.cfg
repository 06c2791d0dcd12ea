SPECIFICATION SSpec
CONSTANTS
    v1 = v1
    l1 = l1
    Video = {v1}
    Listing = {l1}
    BaseUrl = l1
    First = v1
    Excluded = {}
    ListingMaxTTL = 1
    QuarantineListing = 1
    PendingScore = 9
    MaxNow = 2
    BatchSize = 1
    MaxRestart = 2
    MaxBarren = 0
    Unlucky = TRUE
    Links <- MCLinks
INVARIANTS
    NoPartialFrontier

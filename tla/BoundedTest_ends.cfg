SPECIFICATION BFairSpec
CONSTANTS
    w1 = w1
    w2 = w2
    none = none
    l1 = l1
    v1 = v1
    Worker = {w1, w2}
    Video = {v1}
    Listing = {l1}
    TestUrl = l1
    Target = 1
    RateLimitStop = 1
    Leftover = {}
    None = none
    MaxFaults = 1
    Links <- MCLinks
CHECK_DEADLOCK FALSE
PROPERTIES
    TestEnds

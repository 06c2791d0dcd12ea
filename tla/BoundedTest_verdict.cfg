SPECIFICATION BSpec
CONSTANTS
    w1 = w1
    w2 = w2
    none = none
    l1 = l1
    v1 = v1
    v2 = v2
    Worker = {w1, w2}
    Video = {v1, v2}
    Listing = {l1}
    TestUrl = l1
    Target = 2
    RateLimitStop = 2
    Leftover = {v1}
    None = none
    MaxFaults = 1
    Links <- MCLinks
SYMMETRY WorkerSymmetry
CHECK_DEADLOCK FALSE
INVARIANTS
    PassIsSound
    DoubledOnlyByFault
    RestAfterJoin

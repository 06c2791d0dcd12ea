SPECIFICATION FairSpec
CONSTANTS
    v1 = v1
    v2 = v2
    Video = {v1, v2}
    BloomCapacity = 1
    BloomReconcileBatch = 1
    MaxFaults = 3
INVARIANTS
    ClaimedNotLost
PROPERTIES
    RefusedOnlyWithCause
    NotAdmittedAgain
    BrokenFilterHalts

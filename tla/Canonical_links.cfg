SPECIFICATION Spec
CONSTANTS
    None = None
    MaxRedirects = 3
    Channel <- MCChannel
    Raw <- MCRaw
INVARIANTS
    CanonicalIsStable
    StoredIsItself
    FailsOnlyForQuery

CONSTANTS
    Keys = {d1}
    Workers = {w1, w2}
    NoOwner = NoOwner
    MaxTime = 1
    MaxIncarnation = 1
    MaxRevision = 0
    MaxRequest = 1
    MaxClaim = 2
    Concurrency = 2
    MaxFailures = 0
    MayFault = TRUE
SPECIFICATION Spec
INVARIANTS
    TypeOK
    OwnedClaimCanComplete

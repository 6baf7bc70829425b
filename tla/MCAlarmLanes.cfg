CONSTANTS
    Keys = {d1, d2}
    Workers = {w1, w2}
    NoOwner = NoOwner
    MaxTime = 1
    MaxIncarnation = 0
    MaxRevision = 0
    MaxRequest = 0
    MaxClaim = 2
    Concurrency = 1
    MaxFailures = 1
    MayFault = TRUE
SYMMETRY Interchangeable
SPECIFICATION Spec
INVARIANTS
    LaneLimit
    TimerCoversSoonestWake

    

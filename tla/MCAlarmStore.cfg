CONSTANTS
    Keys = {d1}
    Workers = {w1, w2}
    NoOwner = NoOwner
    MaxTime = 1
    MaxIncarnation = 2
    MaxRevision = 1
    MaxRequest = 2
    MaxClaim = 3
SPECIFICATION StoreSpec
INVARIANTS
    NothingToRepair
PROPERTIES
    ClaimGenerationsNeverReused
    ImplementsWakeLease

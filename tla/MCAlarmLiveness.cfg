CONSTANTS
    Keys = {d1}
    Workers = {w1}
    NoOwner = NoOwner
    MaxTime = 1
    MaxIncarnation = 1
    MaxRevision = 0
    MaxRequest = 1
    MaxClaim = 2
    Concurrency = 1
    MaxFailures = 0
    MayFault = FALSE
SPECIFICATION FairSpec
PROPERTIES
    DueAlarmIsClaimed
    RequestIsSettled
    QuiesceCompletes

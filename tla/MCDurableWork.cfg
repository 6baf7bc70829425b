CONSTANTS
    i1 = i1
    i2 = i2
    q1 = q1
    q2 = q2
    Items = {i1, i2}
    Queues = {q1, q2}
    Prepared = {q1, q2}
    NoItem = NoItem
    QueueOf <- TwoQueues
    LaneOf <- OneLane
    Concurrency = 2
    MaxGeneration = 2
    MaxFaults = 1
SPECIFICATION DurableWorkSpec
INVARIANTS
    LaneExclusive
    WorkIsPumped
    LeasesAreBacked
    QuiescedIsIdle
CHECK_DEADLOCK FALSE

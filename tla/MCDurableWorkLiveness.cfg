CONSTANTS
    i1 = i1
    i2 = i2
    q1 = q1
    q2 = q2
    Items = {i1, i2}
    Queues = {q1}
    Prepared = {}
    NoItem = NoItem
    QueueOf <- OneQueue
    LaneOf <- OneLane
    Concurrency = 1
    MaxGeneration = 2
    MaxFaults = 1
SPECIFICATION FairDurableWork
INVARIANTS
    RunnersWithinConcurrency
PROPERTIES
    WorkIsFinished
    QuiesceFinishes
CHECK_DEADLOCK FALSE

CONSTANTS
    p1 = p1
    p2 = p2
    k1 = k1
    k2 = k2
    Owners = {p1, p2}
    Keys = {k1, k2}
    Wanted <- Three
    Capacity <- MixedCapacity
    Ranks = {0, 2}
    MaxFailures = 1
    MaxFaults = 1
SPECIFICATION LiveSpec
INVARIANTS
    BuildTypeOK
    CompiledOnce
    WaiterHasReceipt
    BudgetOfEachProcess
PROPERTIES
    BuildIsAnswered
    DemandReachesSlot
CHECK_DEADLOCK FALSE

SPECIFICATION RetentionSpec
CONSTANTS
    Builds = {b1}
    Owners = {o1}
    Entities = {o1}
    NoBuild = NoBuild
    MaxEpoch = 2
    MaxReservations = 1
    MaxFaults = 0
INVARIANTS RootedBuildIsStored
CHECK_DEADLOCK FALSE

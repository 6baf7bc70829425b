SPECIFICATION RetentionSpec
CONSTANTS
    Builds = {b1}
    Owners = {o1, o2}
    Entities = {o2}
    NoBuild = NoBuild
    MaxEpoch = 3
    MaxReservations = 2
    MaxFaults = 1
INVARIANTS
    SynchronousRootIsStored
    ReservedBuildIsStored
    CrashIsRepairable
PROPERTIES
    DeletedAfterGrace
    ReadRootIsNotSwept
CHECK_DEADLOCK FALSE

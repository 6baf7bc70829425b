SPECIFICATION LiveSpec
CONSTANTS
    MaxTouches = 5
    MaxFaults = 3
INVARIANTS
    KernelTypeOK
    AttachedIsHeld
    ReplacedIsSettled
PROPERTIES
    CloseReturnsUnlessStranded
CHECK_DEADLOCK FALSE

SPECIFICATION LiveSpec
CONSTANTS
    MaxTouches = 2
    MaxFaults = 1
PROPERTIES
    CloseReturns
CHECK_DEADLOCK FALSE

SPECIFICATION LiveSpec
CONSTANTS
    MaxCalls = 3
    MaxFaults = 2
    Targets = {agent, eval}
    Activations = {eval}
    LateHangs = FALSE
    agent = agent
    eval = eval
INVARIANTS
    RestartTypeOK
    ReleaseIsJoined
    FailedPreparationReopens
    SuspendedIsOwed
    ResumedOnceRunning
    CrashGetsNewGeneration
PROPERTIES
    CrashIsSettled
CHECK_DEADLOCK FALSE

CONSTANTS
    MaxLevel = 3
    Voltage <- MCVoltage
    Sustained = 2
    BootVoltages <- MCBootVoltages
    Timers <- MCTimers
    MaxRetries = 4
    MaxCalls = 1
    PutMayFail = FALSE
SPECIFICATION FairSpec
CHECK_DEADLOCK FALSE
INVARIANT RetriesMade

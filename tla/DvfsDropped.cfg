CONSTANTS
    MaxLevel = 3
    Voltage <- MCVoltage
    Sustained = 2
    BootVoltages <- MCBootVoltages
    Timers <- MCTimers
    MaxRetries = 4
    MaxCalls = 3
    PutMayFail = FALSE
SPECIFICATION Spec
CHECK_DEADLOCK FALSE
INVARIANT NoneDropped

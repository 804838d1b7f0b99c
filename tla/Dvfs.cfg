CONSTANTS
    MaxLevel = 3
    Voltage <- MCVoltage
    Sustained = 2
    BootVoltages <- MCBootVoltages
    Timers <- MCTimers
    MaxRetries = 4
    MaxCalls = 4
    PutMayFail = TRUE
SPECIFICATION FairSpec
CHECK_DEADLOCK FALSE
INVARIANTS Sound ReportTruthful LastRequestWins
PROPERTY Settles

CONSTANTS
    Alarms = {a1, a2, a3}
    NoAlarm = NoAlarm
    Delays <- MCDelays
    Periods <- MCPeriods
    MinTimestamp = 1
    MaxLate = 1
    MaxPast = 8
    MaxCalls = 4
    CarefulCallers = TRUE
SPECIFICATION FairSpec
INVARIANTS Sound NotEarly StoppedIsSilent
PROPERTY AlarmsTrigger

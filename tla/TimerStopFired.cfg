CONSTANTS
    Alarms = {a1, a2}
    NoAlarm = NoAlarm
    Delays <- MCDelays
    Periods <- MCPeriods
    MinTimestamp = 1
    MaxLate = 1
    MaxPast = 8
    MaxCalls = 3
    CarefulCallers = FALSE
SPECIFICATION FairSpec
PROPERTY AlarmsTrigger

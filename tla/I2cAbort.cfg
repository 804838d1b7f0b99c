SPECIFICATION Spec
CONSTANTS
    MaxRequests = 3
    DriverReturns <- DwApbDriver
    PoolMayEmpty = FALSE
    AbortsStop = TRUE
INVARIANTS AnswerTruthful
CHECK_DEADLOCK FALSE

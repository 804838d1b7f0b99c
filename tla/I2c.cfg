SPECIFICATION FairSpec
CONSTANTS
    MaxRequests = 3
    DriverReturns <- AnyDriver
    PoolMayEmpty = TRUE
    AbortsStop = FALSE
INVARIANTS Sound AnswerTruthful
PROPERTIES RequestsAnswered
CHECK_DEADLOCK FALSE

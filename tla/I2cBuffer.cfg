SPECIFICATION Spec
CONSTANTS
    MaxRequests = 3
    DriverReturns <- DwApbDriver
    PoolMayEmpty = FALSE
    AbortsStop = FALSE
INVARIANTS BufferReturned
CHECK_DEADLOCK FALSE

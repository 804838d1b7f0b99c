SPECIFICATION FairSpec
CONSTANTS
    Waits = {0, 1, 2}
    MaxCommands = 4
    MaxAsked = 3
    MayBeBad = TRUE
    OneAtATime = TRUE
    PoolMayEmpty = TRUE
    HandlersMayFail = TRUE
INVARIANTS Sound
PROPERTIES ImplementsMailbox CommandsAnswered ResponsesHandled
CHECK_DEADLOCK FALSE

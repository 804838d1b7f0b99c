SPECIFICATION Spec
CONSTANTS
    PdCount = 3
    Parent <- Chain
    Allowed <- ChainSuspend
    Mapped <- Unmapped
    Cores = {1}
    Clusters = {2}
    CompositeSupport = {}
    Async = {1, 2}
    PreSubscribers <- OneOnRoot
    PostSubscribers <- Nobody
    ShutdownSubscribers = {0, 2}
    ShutdownDrivers = {2}
    MayRefuse = {}
    MayDisagree = FALSE
    InitialStates <- AllOffOrOn
    Serial = FALSE
    MaxRequests = 3
    MaxSuspends = 1
    MaxShutdowns = 1
    MaxResets = 1
INVARIANTS WaitingOwned
PROPERTIES ShutdownWaits
CHECK_DEADLOCK FALSE

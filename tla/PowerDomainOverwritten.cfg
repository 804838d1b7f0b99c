SPECIFICATION Spec
CONSTANTS
    PdCount = 3
    Parent <- Chain
    Allowed <- ChainOnOff
    Mapped <- Unmapped
    Cores = {1}
    Clusters = {2}
    CompositeSupport = {1}
    Async = {1, 2}
    PreSubscribers <- OneOnRoot
    PostSubscribers <- OneOnCluster
    ShutdownSubscribers = {0}
    ShutdownDrivers = {2}
    MayRefuse = {}
    MayDisagree = FALSE
    InitialStates <- AllOffOrOn
    Serial = FALSE
    MaxRequests = 3
    MaxSuspends = 0
    MaxShutdowns = 1
    MaxResets = 0
INVARIANTS WaitingOwned
CHECK_DEADLOCK FALSE

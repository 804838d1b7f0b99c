SPECIFICATION Spec
CONSTANTS
    PdCount = 3
    Parent <- Chain
    Allowed <- ChainOnOff
    Mapped <- Unmapped
    Cores = {1}
    Clusters = {2}
    CompositeSupport = {1}
    Async = {1, 2, 3}
    PreSubscribers <- Nobody
    PostSubscribers <- Nobody
    ShutdownSubscribers = {0}
    ShutdownDrivers = {}
    MayRefuse = {}
    MayDisagree = FALSE
    InitialStates <- AllOffOrOn
    Serial = FALSE
    MaxRequests = 3
    MaxSuspends = 0
    MaxShutdowns = 0
    MaxResets = 0
INVARIANTS HardwareTree
CHECK_DEADLOCK FALSE

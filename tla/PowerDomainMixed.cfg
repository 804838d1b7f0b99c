SPECIFICATION Spec
CONSTANTS
    PdCount = 3
    Parent <- Chain
    Allowed <- ChainRetention
    Mapped <- Unmapped
    Cores = {1}
    Clusters = {2}
    CompositeSupport = {1}
    Async = {1, 2, 3}
    PreSubscribers <- Nobody
    PostSubscribers <- Nobody
    ShutdownSubscribers = {0}
    ShutdownDrivers = {}
    MayRefuse = {}
    MayDisagree = FALSE
    InitialStates <- AllOn
    Serial = TRUE
    MaxRequests = 3
    MaxSuspends = 0
    MaxShutdowns = 0
    MaxResets = 0
INVARIANTS NoneForgotten
CHECK_DEADLOCK FALSE

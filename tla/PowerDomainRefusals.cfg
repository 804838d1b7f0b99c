SPECIFICATION Spec
CONSTANTS
    PdCount = 4
    Parent <- Cluster
    Allowed <- ClusterSuspend
    Mapped <- Unmapped
    Cores = {1, 2}
    Clusters = {3}
    CompositeSupport = {1, 2}
    Async = {1, 2, 3, 4}
    PreSubscribers <- OneOnRoot
    PostSubscribers <- OneOnCluster
    ShutdownSubscribers = {0}
    ShutdownDrivers = {}
    MayRefuse = {1, 3}
    MayDisagree = TRUE
    InitialStates <- AllOffOrOn
    Serial = TRUE
    MaxRequests = 3
    MaxSuspends = 1
    MaxShutdowns = 0
    MaxResets = 0
INVARIANTS TypeOK RequestedTree HardwareTree RecordedStates
CHECK_DEADLOCK FALSE
PROPERTIES AgreedFirst

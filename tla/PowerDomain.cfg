SPECIFICATION FairSpec
CONSTANTS
    PdCount = 4
    Parent <- Cluster
    Allowed <- ClusterOnOff
    Mapped <- Unmapped
    Cores = {1, 2}
    Clusters = {3}
    CompositeSupport = {1, 2}
    Async = {1, 2, 3, 4}
    PreSubscribers <- OneOnRoot
    PostSubscribers <- OneOnCluster
    ShutdownSubscribers = {0}
    ShutdownDrivers = {}
    MayRefuse = {}
    MayDisagree = FALSE
    InitialStates <- AllOffOrOn
    Serial = TRUE
    MaxRequests = 3
    MaxSuspends = 0
    MaxShutdowns = 0
    MaxResets = 0
INVARIANTS NoneForgotten
CHECK_DEADLOCK FALSE
PROPERTIES RequestsAnswered

CONSTANTS
    ModuleCount = 3
    ElementCount <- MCElementCount
    HasPostInit = {1, 3}
    HasBind = {2, 3}
    MayFail = TRUE
    SubSystemMode = TRUE
    NoId = NoId
SPECIFICATION FairSpec
INVARIANTS TypeOK TargetsInitialized StartsAfterBind
PROPERTY StartUpEnds

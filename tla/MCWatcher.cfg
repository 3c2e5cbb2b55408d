CONSTANTS
    None = None
    Directions = {"in", "out"}
    NftRules = {"in"}
    XdpRules = {"in"}
    ConfigDebounce = 1
    ConfigReconcile = 1
    MaxQueue = 2
SPECIFICATION FairSpec
INVARIANTS
    TypeOK
    NoLostUpdate
CHECK_DEADLOCK FALSE
PROPERTIES
    ServedWhenQuiet
    ReconcilesForever
    StopsPromptly
    Quiescent

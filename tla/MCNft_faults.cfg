CONSTANTS
    None = None
    Shapes <- MCFewShapes
    Chunks <- MCFewChunks
    Malformed = {"bad"}
    Missing = {}
    MaxVer = 1
    MaxGen = 6
    Configs <- InboundAlways
    KernelCounts = FALSE
    CleanupOnExit = TRUE
    AllowFlowtableBypass = FALSE
    Budget <- TamperBudget
SPECIFICATION Spec
INVARIANTS
    TypeOK
    EInv
    EnforcedComplete
    ProtectedWhileWatching
PROPERTIES
    ForwardOnly
    StartupAllOrNothing
CHECK_DEADLOCK FALSE

CONSTANTS
    None = None
    Shapes <- MCFewShapes
    Chunks <- MCFewChunks
    Malformed = {"bad"}
    Missing = {}
    MaxVer = 1
    MaxGen = 12
    Configs <- BothDirections
    KernelCounts = TRUE
    CleanupOnExit = FALSE
    AllowFlowtableBypass = TRUE
    Budget <- LiveBudget
SPECIFICATION FairSpec
PROPERTIES
    EventApplied
    Recovers
CHECK_DEADLOCK FALSE

CONSTANTS
    None = None
    Shapes <- MCFewShapes
    Chunks <- MCFewChunks
    Malformed = {"bad"}
    Missing = {}
    MaxVer = 1
    MaxGen = 8
    Configs <- InboundOnly
    KernelCounts = TRUE
    CleanupOnExit = FALSE
    AllowFlowtableBypass = FALSE
    Budget <- CleanStart
SPECIFICATION FairSpec
PROPERTIES
    FileEnforced
CHECK_DEADLOCK FALSE

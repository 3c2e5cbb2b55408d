CONSTANTS
    None = None
    Shapes <- MCFewShapes
    Chunks <- MCFewChunks
    Malformed = {"bad"}
    Missing = {}
    MaxVer = 2
    MaxGen = 12
    Configs <- InboundOnly
    KernelCounts = TRUE
    CleanupOnExit = FALSE
    AllowFlowtableBypass = FALSE
    Budget <- TwoTampers
SPECIFICATION FairSpec
PROPERTIES
    TableRecreated
CHECK_DEADLOCK FALSE

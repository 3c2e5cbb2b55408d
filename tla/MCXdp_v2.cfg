CONSTANTS
    None = None
    Addresses <- MCAddresses
    V4 <- MCV4
    Senders = {"a4"}
    Shapes <- MCFewShapes
    Content <- MCFewContent
    Malformed = {"bad"}
    Missing = {}
    MaxEntries <- MCEntries
    Interfaces <- MCInterfaces
    Removable = {}
    Configs <- OneConfig
    CleanupOnExit = FALSE
    MaxVer = 2
    Budget <- PartialCleanup
SPECIFICATION Spec
INVARIANTS
    ActiveSlotComplete
CHECK_DEADLOCK FALSE

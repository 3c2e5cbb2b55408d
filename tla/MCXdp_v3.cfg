CONSTANTS
    None = None
    Addresses <- MCAddresses
    V4 <- MCV4
    Senders = {"a4"}
    Shapes <- MCFewShapes
    Content <- MCFewContent
    Malformed = {"bad"}
    Missing = {}
    MaxEntries <- MCEntries
    Interfaces <- MCInterfaces
    Removable = {"eth0"}
    Configs <- OneConfig
    CleanupOnExit = FALSE
    MaxVer = 1
    Budget <- Removal
SPECIFICATION FairSpec
PROPERTIES
    ReturnedIsProtected
CHECK_DEADLOCK FALSE

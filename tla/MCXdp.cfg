CONSTANTS
    None = None
    Addresses <- MCAddresses
    V4 <- MCV4
    Senders = {"a4"}
    Shapes <- MCShapes
    Content <- MCContent
    Malformed = {"bad"}
    Missing = {}
    MaxEntries <- MCEntries
    Interfaces <- MCInterfaces
    Removable = {"eth1"}
    Configs <- TwoConfigs
    CleanupOnExit = TRUE
    MaxVer = 3
    Budget <- FaultBudget
SPECIFICATION Spec
INVARIANTS
    TypeOK
    StageExact
    VerdictOfEnforcedList
    AttachedWhileWatching
    EventsServed
    IInv
PROPERTIES
    LinkKept
    AbstractSpec
CHECK_DEADLOCK FALSE

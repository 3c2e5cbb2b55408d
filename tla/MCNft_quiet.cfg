CONSTANTS
    None = None
    Shapes <- MCShapes
    Chunks <- MCChunks
    Malformed = {"bad"}
    Missing = {"missing"}
    MaxVer = 1
    MaxGen = 9
    Configs <- AnyDirections
    KernelCounts = TRUE
    CleanupOnExit = FALSE
    AllowFlowtableBypass = FALSE
    Budget <- QuietBudget
SPECIFICATION HSpec
INVARIANTS
    NoLeakAtRest
    OneDirectionWhileWatching
    TrackedIsEnforced
    EventsServed
    HInv
PROPERTIES
    AtomicLists
    UnversionedUntouched
CHECK_DEADLOCK FALSE

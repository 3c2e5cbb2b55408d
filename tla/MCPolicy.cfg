CONSTANTS
    None = None
    Interfaces <- MCInterfaces
    InvalidInterfaces = {"nul"}
    Names <- MCNames
    LocalNames = {"LOCAL"}
    BlankNames = {"blank"}
    Documents <- MCDocuments
    Configurations <- MCConfigurations
    Overrides <- MCOverrides
    MaxRewrites = 1
SPECIFICATION Spec
INVARIANTS
    TypeOK
    RulesMatchMappings
    NoDoubleEnforcement
    NoFlowtableBypass
    EnforcedHasFile
CHECK_DEADLOCK FALSE

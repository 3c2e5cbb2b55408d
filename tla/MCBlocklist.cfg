CONSTANTS
    None = None
    Width <- MCWidth
    Limits = {1, 3, 4}
    MaxLines = 4
SPECIFICATION Spec
INVARIANTS
    TypeOK
    RejectsNonCanonical
    CoversList
    IntervalsSeparate
    ChunksFit
    PrefixesMinimal
CHECK_DEADLOCK FALSE

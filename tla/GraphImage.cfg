CONSTANTS
    PoolCells = 33
    NULL = NULL
    Buckets = {}
    WILD = WILD
    Chunk = 2
    Id = {}
    EdgeLists = {}
    Call = {}
    MaxNodes = 5
    MAX_NEIGHBORS = 16
    MODULUS = 2
    NotFound = 99
    Junk = {7}
    Inputs <- MCInputs
SPECIFICATION ImageSpec
INVARIANTS ImageInBounds EmbeddedVerifies GenerationInv
CHECK_DEADLOCK FALSE

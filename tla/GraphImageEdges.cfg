CONSTANTS
    PoolCells = 33
    NULL = NULL
    Buckets = {}
    WILD = WILD
    Chunk = 2
    Id = {}
    EdgeLists = {}
    Call = {}
    MaxNodes = 5
    MAX_NEIGHBORS = 16
    MODULUS = 2
    NotFound = 99
    Junk = {7}
    Inputs <- MCOneCall
SPECIFICATION ImageSpec
INVARIANT EmbeddedEdges
CHECK_DEADLOCK FALSE

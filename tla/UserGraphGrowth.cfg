CONSTANTS
    PoolCells = 3
    NULL = NULL
    WILD = WILD
    Chunk = 2
    Id = {0, 1, 2}
    EdgeLists <- MCManyNodes
    Call = {1}
    MaxNodes = 3
SPECIFICATION Spec
INVARIANTS FirstGraphFitsListing IndInv
CHECK_DEADLOCK FALSE

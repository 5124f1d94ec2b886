CONSTANTS
    PoolCells = 4
    NULL = NULL
    WILD = WILD
    Chunk = 2
    Id = {0, 1}
    EdgeLists <- MCEdgeLists
    Call = {1}
    MaxNodes = 2
SPECIFICATION Spec
INVARIANTS TypeOK TableWellFormed EdgeAtEnd VerifyAcceptsBuilt VerifiedListingMatches WalkInGraph
CHECK_DEADLOCK FALSE

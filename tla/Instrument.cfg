SPECIFICATION Spec
CONSTANTS
    Symbols <- MCSymbols
    OldTables <- MCOldTables
    Modules <- MCModules
    MainLike <- MCMainLike
    Skipped <- MCSkipped
    Pointees <- MCPointees
    MaxDepth = 3
    NULL = NULL
INVARIANTS AnnouncedBeforeCall RecordedMatchesAnnounced InitBeforeAnnounce CleanupLast InstrumentInv
CHECK_DEADLOCK FALSE

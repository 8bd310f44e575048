CONSTANTS
    FlashSize = 24
    SectorSize = 24
    PageSize = 12
    WriteBuffer = 12
    CachePages = 2
    Objects = {o1}
    MaxAccess = 3
    Aligns = {0, 1}
    Places <- MCPlaces
    Sources <- MCSources
SPECIFICATION Spec
INVARIANTS ReadsTrue PendingKept
PROPERTY ImplementsNor
CHECK_DEADLOCK FALSE

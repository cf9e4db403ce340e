CONSTANTS
    Requests <- SmallRequests
    Pointers = {0}
    MaxChunks = 3
SPECIFICATION Spec
INVARIANTS
    TypeOK
    Tiled
    LastHasRoom
    BlocksDisjoint
    BlockFits
CHECK_DEADLOCK FALSE

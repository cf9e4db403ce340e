CONSTANTS
    Requests <- SmallRequests
    Pointers = {0}
    MaxChunks = 3
SPECIFICATION Spec
INVARIANTS
    OneOwner
    NoFreeBlockLost
CHECK_DEADLOCK FALSE

CONSTANTS
    Requests <- SmallRequests
    Pointers = {0}
    MaxChunks = 4
SPECIFICATION Spec
PROPERTY UsedMemoryUntouched
CHECK_DEADLOCK FALSE

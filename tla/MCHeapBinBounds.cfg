CONSTANTS
    Requests <- LargeRequests
    Pointers = {0}
    MaxChunks = 2
SPECIFICATION Spec
INVARIANT BinsInBounds
CHECK_DEADLOCK FALSE

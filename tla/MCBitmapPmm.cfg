CONSTANTS
    W = 4
    IntWidth = 2
    PageBits = 16
    FastStart = 16
    FastEnd = 64
    RegionMaps <- MCRegionMaps
SPECIFICATION Spec
INVARIANTS
    TypeOK
    BitmapExact
    SummarySound
    HeldFreeable
PROPERTY ImplementsFrameAllocator
CHECK_DEADLOCK FALSE

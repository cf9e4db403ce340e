CONSTANTS
    W = 4
    IntWidth = 2
    PageBits = 16
    FastStart = 16
    FastEnd = 64
    RegionMaps <- MCRegionMaps
SPECIFICATION Spec
INVARIANT NeverUnreachable
CHECK_DEADLOCK FALSE

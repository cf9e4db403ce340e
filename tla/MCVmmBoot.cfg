CONSTANTS
    Frames = {20, 21, 22, 23, 24, 25, 26, 27, 28, 29, 30, 31, 32, 33}
    OldRoot = 1
    Pdp0 = 2
    Pdp1 = 3
    NoFrame = none
    Fan = 4
    VBase = 224
    Temp = 192
    PageSize = 2
    Sections <- KernelSections
    Guard = 228
    _KMMAP <- MemMap
    Bitmaps <- KernelBitmaps
SPECIFICATION Spec
INVARIANTS
    SpacesExact
    FramesAccounted
    WindowRight
PROPERTY BootEnds
CHECK_DEADLOCK FALSE

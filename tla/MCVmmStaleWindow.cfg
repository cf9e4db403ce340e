CONSTANTS
    Frames = {f1, f2, f3, f4, f5, f6}
    Root = root
    Device = device
    NoFrame = none
    After <- SameFrame
    Fan = 2
    Vaddrs <- SiblingVaddrs
    HeapStart = 3
    HeapEnd = 5
    MaxPages = 2
SYMMETRY FrameSymmetry
SPECIFICATION Spec
PROPERTY NewTableIsZeroed
CHECK_DEADLOCK FALSE

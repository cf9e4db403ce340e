CONSTANTS
    N = 8
    Pages <- MCPages
    FwEntries <- MCFwEntries
    MaxEntries = 2
    Tables <- MCTables
    Kernels <- MCKernels
    Splits <- MCSplits
SPECIFICATION Spec
INVARIANT HandedEndsWithMap
CHECK_DEADLOCK FALSE

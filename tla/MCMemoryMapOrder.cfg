CONSTANTS
    N = 8
    Pages <- MCPages
    FwEntries <- MCWholeEntries
    MaxEntries = 2
    Tables <- MCTables
    Kernels <- MCKernels
    Splits <- MCSplits
SPECIFICATION Spec
INVARIANT AlwaysOrdered
CHECK_DEADLOCK FALSE

CONSTANTS
    N = 8
    Pages <- MCPages
    FwEntries <- MCFwEntries
    MaxEntries = 4
    Tables <- MCTables
    Kernels <- MCKernels
    Splits <- MCSplits
SPECIFICATION Spec
INVARIANTS
    TypeOK
    Ordered
    MapIsHighestType
    HandedToPmmOk
PROPERTY InsertTerminates
CHECK_DEADLOCK FALSE

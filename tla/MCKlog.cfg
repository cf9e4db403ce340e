CONSTANTS
    FaultsIn = {"task"}
    Panics = TRUE
    MaxDepth = 6
    Lines = {0, 1}
    FirmwareMasks <- KeyboardMasks
    KeepsCounting = TRUE
    MaxTicks = 3
SPECIFICATION TimerSpec
INVARIANTS
    LockMeansOff
    InterruptsServed
PROPERTIES
    TickKeepsInterrupts
    TicksShown
CHECK_DEADLOCK FALSE

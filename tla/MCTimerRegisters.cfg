CONSTANTS
    FaultsIn = {}
    Panics = FALSE
    MaxDepth = 6
    Lines = {0, 1}
    FirmwareMasks <- KeyboardMasks
    KeepsCounting = TRUE
    MaxTicks = 1
SPECIFICATION TimerSpec
INVARIANTS
    SectionIsQuiet
    ArgumentsKept
CHECK_DEADLOCK FALSE

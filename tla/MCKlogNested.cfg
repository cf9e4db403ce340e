CONSTANTS
    FaultsIn = {"arguments"}
    Panics = TRUE
    MaxDepth = 6
    Lines = {0, 1}
    FirmwareMasks <- KeyboardMasks
    KeepsCounting = TRUE
    MaxTicks = 1
SPECIFICATION TimerSpec
PROPERTIES
    UnlockRestores
    MessagesIntact
CHECK_DEADLOCK FALSE

CONSTANTS
    Bits <- Types
    Driver = "stage2"
    Memories <- SmallMemories
    MessageBuffers <- Uniform
    Formats <- AllFormats
    Sizes = {0, 1, 3, 4}
SPECIFICATION Spec
INVARIANTS
    WireIsText
CHECK_DEADLOCK FALSE

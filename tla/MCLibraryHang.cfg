CONSTANTS
    Bits <- Types
    Driver = "kernel"
    Memories <- SmallMemories
    MessageBuffers <- Uniform
    Formats <- AllFormats
    Sizes = {0, 1, 3, 4}
SPECIFICATION Spec
INVARIANTS
    FormatsEnd
CHECK_DEADLOCK FALSE

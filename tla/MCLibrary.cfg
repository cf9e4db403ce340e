CONSTANTS
    Bits <- Types
    Driver = "kernel"
    Memories <- SmallMemories
    MessageBuffers <- Uniform
    Formats <- AllFormats
    Sizes = {0, 1, 3, 4}
SPECIFICATION Spec
INVARIANTS
    StringsRight
    NumbersReadBack
    WireIsText
PROPERTIES
    BufferKept
CHECK_DEADLOCK FALSE

SPECIFICATION Spec
CONSTANTS
    RingSize = 3
    Byte = {0, 1}
    MaxFrame = 2
    Word = 4
    MaxTicks = 4
    MaxCycles = 4
INVARIANT TypeOK
PROPERTIES ImplementsChannel BytesLeave TimeTrue

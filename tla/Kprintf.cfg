SPECIFICATION Spec
CONSTANTS
    IntBits <- MCIntBits
    LongBits <- MCLongBits
    DecBuffer = 3
    HexBuffer = 2
    CharOf <- MCCharOf
    StringAt <- MCStringAt
    Inputs <- MCInputs
INVARIANTS
    PrintsMeaning
    BufferFits
PROPERTIES
    PrintEnds

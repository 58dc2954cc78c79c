SPECIFICATION Spec
CONSTANTS
    IntBits <- MCIntBits
    LongBits <- MCLongBits
    DecBuffer = 3
    HexBuffer = 2
    CharOf <- MCCharOf
    StringAt <- MCStringAt
    Inputs <- MCModifierInputs
INVARIANTS
    UnknownIsLiteral

SPECIFICATION SpecMisuse
CONSTANTS
    kPageSize = 4
    kWordBits = 2
    kWordBytes = 2
    MaxFrames = 6
    MemoryMaps <- AlignedMaps
    RawMaps <- OddMaps
    Addresses <- AnyAddress
INVARIANTS
    FreeCountExact
    PaddingStaysUsed
    BitmapFits
CHECK_DEADLOCK FALSE

SPECIFICATION Spec
CONSTANTS
    kPageSize = 4
    kWordBits = 2
    kWordBytes = 2
    MaxFrames = 9
    MemoryMaps <- AlignedMaps
    RawMaps = {}
    Addresses = {}
INVARIANTS
    TypeOK
    FrameConservation
PROPERTIES
    LowestFirst
    InitTerminates
    ImplementsFrameAllocator
CHECK_DEADLOCK FALSE

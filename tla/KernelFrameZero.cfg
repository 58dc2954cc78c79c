SPECIFICATION KSpec
CONSTANTS
    kPageSize = 2
    kPageTableEntries = 4
    kUpperValues = 4
    kPhysicalLimit = 1024
    NumFrames = 24
    Space = {kernel}
    Pool = {}
    Garbage <- JunkEntry
    PageArgs = {}
    LargeArgs = {}
    RangeArgs = {}
    LargeRangeArgs = {}
    kMaxRegions = 8
    BitmapPages = 1
    Boots <- GoodBoots
INVARIANT
    NothingMapsFrameZero
CHECK_DEADLOCK FALSE

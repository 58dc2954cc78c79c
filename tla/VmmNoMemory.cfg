SPECIFICATION Spec
CONSTANTS
    kPageSize = 2
    kPageTableEntries = 2
    kUpperValues = 4
    kPhysicalLimit = 32
    NumFrames = 16
    Space = {s1}
    Pool = {1, 2, 3}
    Garbage <- JunkEntry
    PageArgs <- SomePages
    LargeArgs <- FewLarge
    RangeArgs <- FewRanges
    LargeRangeArgs <- FewLargeRanges
PROPERTY
    NoReplace

SPECIFICATION Spec
CONSTANTS
    kPageSize = 2
    kPageTableEntries = 2
    kUpperValues = 4
    kPhysicalLimit = 22
    NumFrames = 11
    Space = {s1, s2}
    Pool <- AllFrames
    Garbage <- JunkEntry
    PageArgs <- FewPages
    LargeArgs <- FewLarge
    RangeArgs <- FewRanges
    LargeRangeArgs <- FewLargeRanges
INVARIANTS
    TranslateAgrees
PROPERTIES
    NoReplace
    ImplementsAddressMap

SPECIFICATION Spec
CONSTANTS
    kPageSize = 2
    kPageTableEntries = 2
    kUpperValues = 4
    kPhysicalLimit = 32
    NumFrames = 16
    Space = {s1}
    Pool <- AllFrames
    Garbage <- JunkEntry
    PageArgs <- SomePages
    LargeArgs <- SomeLarge
    RangeArgs <- SomeRanges
    LargeRangeArgs <- SomeLargeRanges
INVARIANTS
    TypeOK
    TablesFormTrees
    LeafDecides
    RequestMapped
PROPERTIES
    CallEnds

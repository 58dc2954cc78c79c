SPECIFICATION Spec
CONSTANTS
    Raised <- Nested
    StackDepth = 2
    ErrorCodes = {2, 17}
    Addresses = {3, 5}
INVARIANTS
    AllVectorsHandled
    ReportIsComplete
    ReportIsTrue
PROPERTIES
    ReportEnds
CHECK_DEADLOCK FALSE

SPECIFICATION Spec
CONSTANTS
    Size = 5
    SizeT = 8
    Byte = 2
    Char <- MCChar
PROPERTIES
    CopyIsExact
    SetIsExact
    CompareIsExact
    CallsReturn

\* A removed section comes back when another one is retyped.
SPECIFICATION Spec
CHECK_DEADLOCK FALSE
CONSTANTS
    A = A
    B = B
    x = x
    TypeNames = {A, B}
    SectionNames = {x}
    OptionNames = {}
    Values = {}
    NoString = NoString
    Placeholder = Placeholder
    InitialAsts <- NewOrParsed
    MaxNodes = 9
    MaxIndex = 2
PROPERTIES
    DeletedStaysDeleted

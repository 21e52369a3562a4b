\* The iterator looks for a section beyond the array of the section type it stands in.
SPECIFICATION RetypingSpec
CHECK_DEADLOCK FALSE
CONSTANTS
    A = A
    B = B
    o = o
    u = u
    C = C
    x = x
    TypeNames = {A, B, C}
    SectionNames = {x}
    OptionNames = {o}
    Values = {u}
    NoString = NoString
    Placeholder = Placeholder
    InitialAsts <- NamedAsts
    MaxNodes = 12
    MaxIndex = 3
INVARIANTS
    ReadsInsideArrays

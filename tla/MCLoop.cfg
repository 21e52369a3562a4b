\* A loop over an iterator whose body removes nodes.
SPECIFICATION LoopSpec
CHECK_DEADLOCK FALSE
CONSTANTS
    A = A
    B = B
    C = C
    x = x
    o = o
    u = u
    TypeNames = {A, B}
    SectionNames = {}
    OptionNames = {o}
    Values = {u}
    NoString = NoString
    Placeholder = Placeholder
    InitialAsts <- FewAsts
    MaxNodes = 11
    MaxIndex = 2
PROPERTIES
    LoopEnds

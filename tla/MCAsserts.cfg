\* A call runs into an assertion.
SPECIFICATION Spec
CHECK_DEADLOCK FALSE
CONSTANTS
    A = A
    B = B
    x = x
    TypeNames = {A, B}
    SectionNames = {x}
    OptionNames = {}
    Values = {}
    NoString = NoString
    Placeholder = Placeholder
    InitialAsts <- NewAst
    MaxNodes = 8
    MaxIndex = 2
INVARIANTS
    AssertionsHold

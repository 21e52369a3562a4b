\* An iterator and a client that adds, removes and retypes nodes between its steps.
SPECIFICATION ArraysSpec
CHECK_DEADLOCK FALSE
CONSTANTS
    A = A
    B = B
    C = C
    x = x
    o = o
    u = u
    TypeNames = {A, B}
    SectionNames = {}
    OptionNames = {o}
    Values = {u}
    NoString = NoString
    Placeholder = Placeholder
    InitialAsts <- FewAsts
    MaxNodes = 12
    MaxIndex = 2
INVARIANTS
    IterTypeOK
    ReadsInsideUnlessRevived
    NothingMissed
    InOrder
    SectionsOnce

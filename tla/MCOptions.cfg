\* Every sequence of calls on sections and their lines that keeps the types.
SPECIFICATION SpecKeepTypes
CHECK_DEADLOCK FALSE
CONSTANTS
    A = A
    B = B
    x = x
    o = o
    p = p
    u = u
    v = v
    TypeNames = {A, B}
    SectionNames = {x}
    OptionNames = {o, p}
    Values = {u, v}
    NoString = NoString
    Placeholder = Placeholder
    InitialAsts <- BareOrTwinLines
    MaxNodes = 8
    MaxIndex = 2
SYMMETRY NamesAndValues
INVARIANTS
    OptionNamesDistinct
    SectionNamesDistinct
    NodeGetSound
    AttributesPresent
    SyncedIsParsedBack
PROPERTIES
    FailedCallWritesNothing
    DeletedStaysDeleted

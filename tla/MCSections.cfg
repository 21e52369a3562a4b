\* Every sequence of calls on the sections of an AST.
SPECIFICATION Spec
CHECK_DEADLOCK FALSE
CONSTANTS
    A = A
    B = B
    x = x
    TypeNames = {A, B}
    SectionNames = {x}
    OptionNames = {}
    Values = {}
    NoString = NoString
    Placeholder = Placeholder
    InitialAsts <- NewOrParsed
    MaxNodes = 9
    MaxIndex = 2
SYMMETRY Types
INVARIANTS
    TypeOK
    Layered
    HeldOnce
    ParentHolds
    TypesMerged
    SyncedIsParsedBack
PROPERTIES
    FailedCallWritesNothing
    DeletedLineStaysDeleted

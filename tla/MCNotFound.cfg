\* uci2_node_get stops at a deleted option.
SPECIFICATION SpecKeepSections
CHECK_DEADLOCK FALSE
CONSTANTS
    A = A
    B = B
    x = x
    o = o
    p = p
    u = u
    v = v
    TypeNames = {A}
    SectionNames = {x}
    OptionNames = {o, p}
    Values = {u, v}
    NoString = NoString
    Placeholder = Placeholder
    InitialAsts <- BareSection
    MaxNodes = 8
    MaxIndex = 1
INVARIANTS
    NodeGetComplete

\* Every sequence of tokens within the bounds, read by the parser.
SPECIFICATION ParserSpec
CONSTANTS
    TypeNames = {"A", "B"}
    SectionNames = {"x"}
    OptionNames = {"o", "p"}
    Values = {"u", "v"}
    NoString = NoString
    Placeholder = Placeholder
    MaxLines = 4
INVARIANTS
    ParserTypeOK
    StackBounded
    StringsOwnedOnce
    NothingLeftBehind
    ParsedIsWellFormed
    ParsedAsMeant
    UnnamedAreNumbered
PROPERTIES
    ReadsAsPromised
    ParserReturns

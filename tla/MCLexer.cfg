\* The lexer on every short text, and on documents that were written.
SPECIFICATION LexerSpec
CHECK_DEADLOCK FALSE
CONSTANTS
    TypeNames = {}
    SectionNames = {}
    OptionNames = {}
    Values = {}
    NoString = NoString
    Placeholder = Placeholder
    Handwritten = Handwritten
    Letters = {"a"}
    Texts <- ShortTexts
    Documents <- WordInPlace
INVARIANTS
    LexerTypeOK
    LinesAreIndependent
    WrittenIsRead
    EveryMatchAdvances

\* Two processes that read, write and remove one file.
SPECIFICATION FileSpec
CHECK_DEADLOCK FALSE
CONSTANTS
    TypeNames = {}
    SectionNames = {}
    OptionNames = {}
    Values = {}
    NoString = NoString
    Placeholder = Placeholder
    Letters = {"a", "b"}
    Procs = {p, q}
    Documents <- ShortAndLong
    FirstDocument <- Short
    Unknown = Unknown
    Absent = Absent
    BufferSize = 8
    MaxCalls = 3
    MaxFaults = 1
INVARIANTS
    FileTypeOK
    UndisturbedReadsLast
    FilesAreBeginnings
    TornFileIsCut
    NoneMeansFlushed
PROPERTIES
    CallsReturn

SPECIFICATION LoadedSpec
CONSTANTS
    NULL = NULL
    Agents <- Sharing
    MaxEvents = 13
    Lengths <- Longest
    SizeRange = 512
INVARIANTS
    IInv
    ListIntact
    OutputFits
PROPERTIES
    LogSpec
    DumpEnds
CHECK_DEADLOCK FALSE

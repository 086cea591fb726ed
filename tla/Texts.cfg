\* A behaviour stops when the whole answer has come, or the program has ended.
SPECIFICATION MCSpec
CONSTANTS
    MaxText = 7
    MaxPieces = 5
    MaxFile = 6
    MaxLoaded = 4
    Tag <- MCTag
    Lower <- MCLower
    Entities <- MCEntities
    ParseBuf = 5
    EntityBuf = 4
    Texts <- MCTexts
    Feeds <- MCFeeds
    PacketSizes = {1, 2, 5}
    Tools = {"head", "tail", "wc", "grep", "diff"}
    ToolFiles <- MCToolFiles
    Patterns <- MCPatterns
    Stale <- MCStale
    Lines = 2
    HeadChunk = 2
    ReadChunk = 2
    Window = 5
    LineBuf = 4
    ToolFaults = {"open", "seek", "read", "save"}
    EditBuf = 7
    EditChunk = 3
    Wide = 8
    Height = 3
    PageLines = 3
    Letters = {"b", " "}
    Searches <- MCSearches
    EditFiles <- MCEditFiles
    MaxKeys = 3
INVARIANTS TypeOK PageIsRight OutputRight HandlesClosed CursorInView
PROPERTIES EditsAreRight
CHECK_DEADLOCK FALSE

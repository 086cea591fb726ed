SPECIFICATION Spec
CONSTANTS
    Path <- ThreePaths
    File = {1, 2}
    Entry <- AliasedEntries
    Handle = {0, 1}
    Data = {0, 1}
    Chunk <- TwoBytes
    Count = {0, 1, 2}
    RespSpace = 1
    MaxLen = 2
    Faults = {"open", "entry"}
PROPERTIES
    ImplementsFileStore
VIEW WithoutReply

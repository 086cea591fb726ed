SPECIFICATION Spec
CONSTANTS
    Path <- ThreePaths
    File = {1, 2}
    Entry <- AliasedEntries
    Handle = {0, 1}
    Data = {0, 1}
    Chunk <- OneByte
    Count = {0, 1, 2}
    RespSpace = 1
    MaxLen = 2
    Faults = {"mount", "format", "open", "probe", "read", "write", "commit", "entry", "power"}
INVARIANTS
    TypeOK
    HandleTable
PROPERTIES
    SyncedIsStored
    CopyKeepsSource
VIEW WithoutReply

SPECIFICATION FairSpec
CONSTANTS
    Base = 2
    Data = {0}
    BufSize = 2
    RespMax = 2
    ForthSize = 2
    MaxLen = 3
    MaxListing = 3
    RunLengths = {0, 2, 3}
    Programs <- AllPrograms
    Faults = {"open"}
INVARIANTS TypeOK CallsMatched NothingLeftOver StreamOwned
PROPERTIES CommandsEnd

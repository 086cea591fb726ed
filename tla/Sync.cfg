SPECIFICATION SyncSpec
CONSTANTS
    Base = 2
    Data = {0, 255}
    BufSize = 2
    RespMax = 2
    ForthSize = 1
    MaxLen = 2
    MaxListing = 1
    RunLengths = {}
    Programs <- SyncPrograms
    Faults = {"open"}
    MaxTries = 6
    MaxResets = 1
INVARIANTS MarkerMeansRest RestIsFound
CONSTRAINT NotLost

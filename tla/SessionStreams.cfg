SPECIFICATION Spec
CONSTANTS
    Base = 2
    Data = {0, 1}
    BufSize = 2
    RespMax = 2
    ForthSize = 2
    MaxLen = 4
    MaxListing = 1
    RunLengths = {0, 2, 3, 4}
    Programs = {"savemem", "loadmem", "run"}
    Faults = {"open", "lastWrite", "close"}
INVARIANTS StreamsAgree AcceptedIsStored LoadedIsStored StatusReachesHost

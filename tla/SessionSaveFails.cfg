SPECIFICATION Spec
CONSTANTS
    Base = 2
    Data = {0}
    BufSize = 2
    RespMax = 2
    ForthSize = 2
    MaxLen = 3
    MaxListing = 1
    RunLengths = {}
    Programs = {"savemem"}
    Faults = {"write"}
INVARIANT StatusReachesHost

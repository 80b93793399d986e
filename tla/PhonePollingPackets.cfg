\* One phone that counts no packet, read twice.
SPECIFICATION FairSpec
CONSTANTS
    Malformed = Malformed
    Collectors = {"phone.status"}
    NumTargets = 1
    Stats <- GoodStats
    LineInfos <- MCLineInfos
    ConfigGets <- MCConfigGets
    NetworkInfos = {"dhcp"}
    Params <- MCParams
    SumCap = 2
    MaxChanges = 0
    MaxFailures = 0
INVARIANT
    PacketsCounted

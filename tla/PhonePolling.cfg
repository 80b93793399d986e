\* Two phones whose states and answers change twice; one request or recording
\* fails.
SPECIFICATION FairSpec
CONSTANTS
    Malformed = Malformed
    Collectors = {"phone.status", "phone.lines", "phone.config", "phone.network_info"}
    NumTargets = 2
    Stats <- MCStats
    LineInfos <- MCLineInfos
    ConfigGets <- MCConfigGets
    NetworkInfos = {"dhcp", "static"}
    Params <- MCParams
    SumCap = 1
    MaxChanges = 2
    MaxFailures = 1
INVARIANTS
    TypeOK
    PassShowsSteady
PROPERTY
    StateConverges

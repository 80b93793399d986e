\* One collector for the tenant; rows become queryable in start order.
SPECIFICATION FairSpec
CONSTANTS
    r1 = r1
    r2 = r2
    r3 = r3
    bad = bad
    c1 = c1
    Collectors = {c1}
    Rows <- MCRows
    StartTime <- MCStartTime
    Unparsable <- MCUnparsable
    LateArrivals = FALSE
    MaxFailures = 2
INVARIANTS
    TypeOK
    NoRowLost
    ReplayOnlyAfterFailure
PROPERTIES
    ImplementsAtLeastOnce
    EveryRowLogged

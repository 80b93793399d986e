\* Two phones, each with calls in one list, one upgraded from a legacy file.
SPECIFICATION FairSpec
CONSTANTS
    o1 = o1
    o2 = o2
    n1 = n1
    n2 = n2
    d1 = d1
    m1 = m1
    bad = bad
    NumTargets = 2
    Rows <- OneListRows
    PhoneOf <- OneListPhone
    DirectionOf <- OneListDirection
    Wall <- OneListWall
    Unparsable <- OneListUnparsable
    Zones = {"plain", "west"}
    Offset <- MCOffset
    LegacyLog <- OneListLegacy
    MaxZoneChanges = 1
    MaxFailures = 1
INVARIANTS
    TypeOK
    NoCallLost
    ReplayOnlyAfterFailure
    CallsMatchLogs
PROPERTIES
    EveryCallLogged

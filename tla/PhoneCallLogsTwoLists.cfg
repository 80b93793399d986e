\* One phone, a received and a later placed call, no failures.
SPECIFICATION Spec
CONSTANTS
    o1 = o1
    o2 = o2
    n1 = n1
    n2 = n2
    d1 = d1
    m1 = m1
    bad = bad
    NumTargets = 1
    Rows <- TwoListRows
    PhoneOf <- TwoListPhone
    DirectionOf <- TwoListDirection
    Wall <- TwoListWall
    Unparsable = {}
    Zones = {"plain"}
    Offset <- MCOffset
    LegacyLog <- TwoListLegacy
    MaxZoneChanges = 0
    MaxFailures = 0
INVARIANTS
    NoCallLost

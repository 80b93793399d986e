\* A row may become queryable after a row that starts later.
SPECIFICATION Spec
CONSTANTS
    r1 = r1
    r2 = r2
    r3 = r3
    bad = bad
    c1 = c1
    Collectors = {c1}
    Rows <- MCRowsNoBad
    StartTime <- MCStartTimeNoBad
    Unparsable = {}
    LateArrivals = TRUE
    MaxFailures = 1
INVARIANTS
    NoRowLost

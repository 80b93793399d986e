\* Doubling from 3 towards the odd cap 7; at most two frames under way.
SPECIFICATION FairSpec
CONSTANTS
    MinBackoff = 3
    MaxBackoff = 7
    FailureCap = 3
    MaxInbox = 2
INVARIANTS
    TypeOK
    SessionCleansUp
    StreamCaughtUp
    BackoffSchedule
PROPERTIES
    CancelStopsRun
    Recovers

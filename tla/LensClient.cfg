\* Two callers, up to three attempts; one token lifetime is below the margin.
SPECIFICATION FairSpec
CONSTANTS
    c1 = c1
    c2 = c2
    NoCaller = NoCaller
    Callers = {c1, c2}
    MaxAttempts = 3
    MinBackoff = 1
    MaxBackoff = 2
    Margin = 2
    Lifetimes = {1, 4}
INVARIANTS
    TypeOK
    OneMintAtATime
    TokenLiveWithinMargin
PROPERTIES
    NoNeedlessMint
    QueryReturns

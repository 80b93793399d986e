\* Two phones, resolved at startup and then called by two collectors at once.
SPECIFICATION Spec
CONSTANTS
    Phones = {"p1", "p2"}
    Addresses = {"a1", "a2"}
    status = status
    lines = lines
    Callers = {"resolver", status, lines}
    Passwords = {"policy", "fallback"}
    InitialState <- MCInitialState
    PhoneStates <- MCPhoneStates
    CertCN <- MCCertCN
    Trusted = {"p1", "p2"}
    CAReadable = TRUE
    BadURL = {}
    Username = ""
    MaxChanges = 1
    Setups <- MCSetups
    Traits <- MCTraits
    Fallback = "fallback"
    Policies <- MCPolicies
    InitialValues <- MCInitialValues
    InitialWinners <- MCInitialWinners
    WinnerChoices <- MCWinnerChoices
SYMMETRY CollectorSymmetry
INVARIANTS
    TypeOK
    PasswordOnlyToItsPhone
    BodiesClosed
    VerdictRight
    WinningPassword
    EveryPhoneWithAddress

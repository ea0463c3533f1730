SPECIFICATION Spec
CONSTANTS
    Pids = {1, 2, 3}
    InitPid = 1
    Names <- MCNames
    InitName = "sh"
    MaxClock = 4
    MaxUsed = 1
    MaxBusy = 1
    MaxExecs = 0
    Groups <- MCGroups
    EmptyName = ""
    Matched <- MCMatched
    NameGroup <- MCNameGroup
    TrackChildren = TRUE
    Recheck = TRUE
    RecheckLimit = 2
    BootSkew = 1
    Faulty = {}
    MaxFaults = 0
    MaxSoft = 0
    ReuseWithinScan = TRUE
INVARIANTS TypeOK IndexInv CreditWithinUse CreditExact MatchedAreReported
PROPERTIES ImplementsAccounting KnownForLife
CHECK_DEADLOCK FALSE

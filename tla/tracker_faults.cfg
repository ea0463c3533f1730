SPECIFICATION Spec
CONSTANTS
    Pids = {1, 2}
    InitPid = 1
    Names <- MCNames
    InitName = "sh"
    MaxClock = 4
    MaxUsed = 2
    MaxBusy = 3
    MaxExecs = 0
    Groups <- MCGroups
    EmptyName = ""
    Matched <- MCMatched
    NameGroup <- MCNameGroup
    TrackChildren = FALSE
    Recheck = FALSE
    RecheckLimit = 0
    BootSkew = 0
    Faulty = {"GetMetrics"}
    MaxFaults = 1
    MaxSoft = 0
    ReuseWithinScan = FALSE
INVARIANT CreditWithinUse

SPECIFICATION Spec
CONSTANTS
    Pids = {1, 2, 3, 4}
    InitPid = 1
    Names <- MCNames
    InitName = "sh"
    MaxClock = 4
    MaxUsed = 0
    MaxBusy = 0
    MaxExecs = 0
    Groups <- MCGroups
    EmptyName = ""
    Matched <- MCMatched
    NameGroup <- MCNameGroup
    TrackChildren = TRUE
    Recheck = FALSE
    RecheckLimit = 0
    BootSkew = 0
    Faulty = {}
    MaxFaults = 0
    MaxSoft = 0
    ReuseWithinScan = FALSE
INVARIANTS NoGhosts AdoptionIsInheritance AdoptedByRealParent AncestryEnds NamerAskedOnce

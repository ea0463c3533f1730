SPECIFICATION FairSpec
CONSTANTS
    Pids = {1, 2, 3}
    InitPid = 1
    Names <- MCNames
    InitName = "sh"
    MaxClock = 2
    MaxUsed = 0
    MaxBusy = 0
    MaxExecs = 2
    Groups <- MCGroups
    EmptyName = ""
    Matched <- MCMatched
    NameGroup <- MCNameGroup
    TrackChildren = TRUE
    Recheck = TRUE
    RecheckLimit = 0
    BootSkew = 0
    Faulty = {"GetProcID", "GetMetrics", "GetStatic"}
    MaxFaults = 1
    MaxSoft = 0
    ReuseWithinScan = TRUE
 
PROPERTIES ScanEnds MatchedIsTracked
CHECK_DEADLOCK FALSE

SPECIFICATION ExporterFairSpec
CONSTANTS
    Calls = {c1, c2}
    Groups = {g1, g2}
    Cgroup = TRUE
    MaxErrors = 0
    MaxDropped = 1
    MaxCount = 1
    NoCall = NoCall
INVARIANTS ExporterTypeOK FailureIsVisible SkipAndCount
PROPERTIES SignalEnds EveryRequestEnds ImplementsScrapeServer
CHECK_DEADLOCK FALSE

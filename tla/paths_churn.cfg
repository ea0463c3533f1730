SPECIFICATION FairSpec
CONSTANTS
    Names <- MCNames
    MaxDepth = 2
    Patterns <- MCMixed
    MaxPaths = 2
    MaxDropped = 2
    MaxChanges = 2
    MaxFaults = 1
INVARIANTS GapsAreBelowFailures WithinMaxPaths NothingElse
PROPERTIES DroppedForCause ScrapeEnds

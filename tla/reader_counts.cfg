SPECIFICATION Spec
CONSTANTS
    Threads = {main, a}
    Main = main
    Word = 4
    StartedSince = FALSE
    MaxSwitches = 1
    MaxBytes = 2
    MayDeny = TRUE
INVARIANTS ThreadCredit TotalIsLastRead
PROPERTIES DropIsPartialError

SPECIFICATION Spec
CONSTANTS
    Threads = {main, a}
    Main = main
    Word = 8
    StartedSince = TRUE
    MaxSwitches = 1
    MaxBytes = 0
    MayDeny = FALSE
PROPERTIES SwitchesNeverDecrease

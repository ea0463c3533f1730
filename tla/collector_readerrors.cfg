SPECIFICATION Spec
CONSTANTS
    Calls = {c1}
    Groups = {g1}
    Cgroup = FALSE
    MaxErrors = 1
    MaxDropped = 0
    MaxCount = 1
    NoCall = NoCall
INVARIANT ReadErrorsCounted

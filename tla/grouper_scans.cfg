SPECIFICATION Spec
CONSTANTS
    Procs = {p1, p2, p3}
    Groups = {g1}
    Paths = {a, b}
    NoPath = NoPath
    ThreadNames = {t1}
    StartTimes = {1}
    OpenFDs = {1}
    Word = 4
    Increments = {1, 3}
SYMMETRY Symmetry
INVARIANTS NothingLost ConflictIsDisagreement
PROPERTIES CountsFallWithCause EmptyGroupsKeepCounts ThreadsFallWithCause

SPECIFICATION Spec
CONSTANTS
    Procs <- MCProcs
    Settings <- MCSettings
    Base <- MCBase
    Slashed <- MCSlashed
    GroupNames <- MCGroupNames
    Submatch <- MCSubmatch
    NoText = NoText
INVARIANT NamedAsDocumented
PROPERTY SameAnswerAgain
CHECK_DEADLOCK FALSE

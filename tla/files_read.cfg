SPECIFICATION Spec
CONSTANTS
    Settings <- MCSettings
    Usual <- MCUsual
    Unusual <- MCUnusual
    MaxUnusual = 2
INVARIANTS SentIsRead NoFileSkipped RefusedForRepeats

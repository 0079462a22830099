CONSTANTS
    Texts <- MCTexts
    Garbled = Garbled
    BufSize = 5
    MaxLines = 2
    MaxLosses = 1
SPECIFICATION Spec
CHECK_DEADLOCK FALSE
INVARIANTS
    TypeOK
    PartOfOneLine
    LogReadsAsSent
PROPERTY
    LinesHandled

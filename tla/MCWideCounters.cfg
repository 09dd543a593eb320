SPECIFICATION Spec
CONSTANTS
    MaxTokens = 5
    MaxNesting = 2
    Fields = 3
    Width = 3
    MaxDigits = 5
    NameWidth = 4
    MaxSpans = 3
    MinNodes = 4
    MinRepeats = 2
    MaxGroups = 1
    MaxPieces = 5
    MaxTreeNodes = 5
    MaxCounter = 5
    MaxRecords = 2
    MaxSqlLines = 0
    MaxLines = 14
INVARIANTS
    AdjacentWideRejected
CHECK_DEADLOCK FALSE

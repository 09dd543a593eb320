CONSTANTS
    Spans = {s1}
    NoSpan = NoSpan
    MaxPending = 1
    MaxTokens = 2
    Buffer = 1
    MaxBatches = 1
    BatchSize = 1
    Stoppers = {g1, g2}
    Impatient = {g1}
SPECIFICATION FairSpec
INVARIANTS Bounded EmptyAfterStreamEnd TypeOK CleanShutdownReleases CleanEndIsReal
PROPERTIES NoResurrection ParentKept NothingLeftRunning CallsReturn
CHECK_DEADLOCK FALSE

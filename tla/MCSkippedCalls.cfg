CONSTANTS
    Spans = {1, 2, 3}
    NoSpan = NoSpan
    MaxPending = 2
    MaxTokens = 6
    MaxScopes = 4
    MaxDepth = 4
    NoKey = NoKey
    NoStatement = NoStatement
    NoToken = NoToken
    NoOwner = NoOwner
    MaxFrames = 8
    MaxNodes = 4
    Callers = {g1}
    Connections = {1, 2}
    Transactions = {1}
    Queries = {q1, q2}
    MaxOps = 2
    MaxLag = 1
    Skips = TRUE
    Unmarked = FALSE
    Failures = TRUE
    Profiled = FALSE
    Damage = FALSE
    Expiry = FALSE
    Ends = FALSE
    Capacity = 100
    Routines = FALSE
    Shared = TRUE
SPECIFICATION FairSpec
INVARIANTS OneHolder
PROPERTIES UndisturbedIsExported ImplementsServerSpans
CHECK_DEADLOCK FALSE

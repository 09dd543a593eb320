CONSTANTS
    Spans = {1, 2, 3}
    NoSpan = NoSpan
    MaxPending = 2
    MaxTokens = 6
    MaxScopes = 4
    MaxDepth = 4
    NoKey = NoKey
    NoStatement = NoStatement
    NoToken = NoToken
    NoOwner = NoOwner
    MaxFrames = 8
    MaxNodes = 4
    Callers = {g1}
    Connections = {1}
    Transactions = {1}
    Queries = {q1}
    MaxOps = 3
    MaxLag = 2
    Skips = TRUE
    Unmarked = FALSE
    Failures = FALSE
    Profiled = TRUE
    Damage = FALSE
    Expiry = FALSE
    Ends = FALSE
    Capacity = 100
    Routines = TRUE
    Shared = TRUE
SPECIFICATION Spec
INVARIANTS RootAttribution
CHECK_DEADLOCK FALSE

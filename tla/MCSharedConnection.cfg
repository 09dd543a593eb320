CONSTANTS
    Spans = {1, 2, 3}
    NoSpan = NoSpan
    MaxPending = 2
    MaxTokens = 6
    MaxScopes = 4
    MaxDepth = 4
    NoKey = NoKey
    NoStatement = NoStatement
    NoToken = NoToken
    NoOwner = NoOwner
    MaxFrames = 8
    MaxNodes = 4
    Callers = {g1, g2}
    Connections = {1}
    Transactions = {1}
    Queries = {q1}
    MaxOps = 2
    MaxLag = 1
    Skips = FALSE
    Unmarked = TRUE
    Failures = FALSE
    Profiled = TRUE
    Damage = TRUE
    Expiry = FALSE
    Ends = TRUE
    Capacity = 11
    Routines = TRUE
    Shared = TRUE
SPECIFICATION Spec
SYMMETRY CallerSymmetry
INVARIANTS TypeOK TreePurity CountsAgree
CHECK_DEADLOCK FALSE

CONSTANTS
    Spans = {1, 2, 3}
    NoSpan = NoSpan
    MaxPending = 2
    MaxTokens = 6
    MaxScopes = 4
    MaxDepth = 4
    NoKey = NoKey
    NoStatement = NoStatement
    NoToken = NoToken
    NoOwner = NoOwner
    MaxFrames = 3
    MaxNodes = 1
    Callers = {g1, g2}
    Connections = {1}
    Transactions = {1}
    Queries = {q1}
    MaxOps = 2
    MaxLag = 2
    Skips = FALSE
    Unmarked = FALSE
    Failures = FALSE
    Profiled = FALSE
    Damage = TRUE
    Expiry = TRUE
    Ends = FALSE
    Capacity = 100
    Routines = TRUE
    Shared = TRUE
SPECIFICATION FairSpec
INVARIANTS OverlapSuppressesCursor FramesBelongToTrees ConsumerBounded CompleteOrLabelled
PROPERTIES FollowedScopeSettles
CHECK_DEADLOCK FALSE

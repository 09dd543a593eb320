SPECIFICATION FairSpec
CONSTANTS
    a = a
    b = b
    p = p
    body = body
    r1 = r1
    r2 = r2
    w1 = w1
    Clienteles <- MCClienteles
    Objects <- MCObjects
    BodyOf <- MCBodyOf
    MaxNodes = 3
    MaxDepth = 2
    Readers = {r1, r2}
    Roots <- MCRoots
    Versions = {v1}
    Schemas <- MCSchemas
    MaxEntries = 1
    MaxInvalidations = 1
    MaxStores = 3
    Watchers = {w1}
    Attachments = {target, other}
    Target = target
    MaxRows = 1
    Moments <- MCMoments
    PoolSize = 1
INVARIANTS
    TypeOK
    NoStaleAnswer
    GraphsAreExact
    SnapshotIsOneMoment
PROPERTIES
    ReadsReturn
CHECK_DEADLOCK FALSE

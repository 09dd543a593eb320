CONSTANTS
    k1 = k1
    k2 = k2
    p = p
    q1 = q1
    q2 = q2
    none = none
    NoKey = NoKey
    NoStatement = NoStatement
    Keys = {k1, k2, NoKey}
    Activities <- Called
    MaxScopes = 1
    MaxDepth = 2
    MaxStarts = 4
SPECIFICATION Spec
SYMMETRY Renamings
INVARIANTS ParserBounded PairedWithOwnStart ParentIsCaller CertainStartIsRight StackIsInnerCalls
CHECK_DEADLOCK FALSE

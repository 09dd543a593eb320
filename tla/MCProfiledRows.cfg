SPECIFICATION FairSpec
CONSTANTS
    Connections = {c1}
    Ops = {o1, o2}
    MaxSessions = 2
    MaxFailures = 2
    Configs <- MCConfigs
    MaxCancels = 2
INVARIANTS
    TypeOK
    ReusableIsClean
    NothingLeftStored
    ProfileHasItsCall
    OutcomeIsTrue
PROPERTIES
    CallsReturn
CHECK_DEADLOCK FALSE

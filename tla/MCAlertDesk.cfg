\* The runs and the rows are the same model values, so that one symmetry serves both.
SPECIFICATION BellSpec
CONSTANTS
    Sessions = {s1}
    Kinds <- AllKinds
    Users = {u1}
    NoUser = NoUser
    Executions = {e1, e2}
    MaxAlerts = 2
    MaxVersion = 2
    MaxDeaths = 1
    AckKinds <- LookedAt
    Watches <- EveryKind
    Rows = {e1, e2}
    MaxNews = 1
    MaxTrouble = 1
INVARIANTS
    BellTypeOK
    JobsAreOrderly
    
PROPERTIES
    UntickHasACause
SYMMETRY Executors
CHECK_DEADLOCK FALSE

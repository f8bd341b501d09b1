SPECIFICATION SilenceSpec
CONSTANTS
    Sessions = {s1}
    Kinds = {"SIGNAL_LOST"}
    Users = {u1}
    NoUser = NoUser
    Executions = {e1, e2}
    MaxAlerts = 2
    MaxVersion = 1
    MaxDeaths = 1
    AckKinds = {}
    Watches <- SilenceOnly
PROPERTIES
    DeskCatchesUp
CHECK_DEADLOCK FALSE

SPECIFICATION FairSpec
CONSTANTS
    Sessions = {s1}
    Devices = {d1, d2}
    NoDevice = NoDevice
    Dispatchers = {u1}
    MaxVersion = 4
    NoEntry = NoEntry
    MaxPending = 2
    MayLoseDel = TRUE
    MaxReading = 1
INVARIANTS
    HonestNeverMismatched
    StaleHasACause
PROPERTIES
    StaleIsTemporary
CHECK_DEADLOCK FALSE

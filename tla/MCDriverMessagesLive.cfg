SPECIFICATION FairSpec
CONSTANTS
    MaxMessages = 1
    MaxKept = 1
    Tracking = TRUE
    Faults = {"cancel", "end"}
    MaxFaults = 1
INVARIANTS
    StaleHintHasACause

    
CHECK_DEADLOCK FALSE

SPECIFICATION FeedSpec
CONSTANTS
    Points <- MCPoints
    Suspect <- MCSuspect
    Sessions = {s1}
    Cap = 2
    MaxSegments = 1
    MaxTasks = 2
    MaxWire = 2
    MaxAsks = 2
    MaxUpsets = 2
CHECK_DEADLOCK FALSE
INVARIANTS
    FeedTypeOK
    RowIsTheStore
    
    
PROPERTIES
    
    MarkerNeverRewinds

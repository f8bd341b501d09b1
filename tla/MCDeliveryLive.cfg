SPECIFICATION FairSpec
CONSTANTS
    Points <- TwoPoints
    Suspect <- Nothing
    Poison <- Nothing
    Batches = {b1, b2}
    NoBatch = NoBatch
    Sessions = {s1}
    NoSession = NoSession
    MaxRows = 2
    SyncBatch = 2
    Floor413 = 1
    Floor400 = 1
    MaxBatchPoints = 1
    MaxFaults = 1
PROPERTIES
    Drains

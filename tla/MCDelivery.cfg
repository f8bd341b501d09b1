SPECIFICATION Spec
CONSTANTS
    Points <- ThreePoints
    Suspect <- Second
    Poison <- Nothing
    Batches = {b1, b2}
    NoBatch = NoBatch
    Sessions = {s1}
    NoSession = NoSession
    MaxRows = 2
    SyncBatch = 2
    Floor413 = 1
    Floor400 = 1
    MaxBatchPoints = 1
    MaxFaults = 1
INVARIANTS
    NoLoss
    AckCoversBatch
    BufferHolds
PROPERTIES
    RowsLeaveForACause
    ImplementsLog
SYMMETRY BatchSymmetry

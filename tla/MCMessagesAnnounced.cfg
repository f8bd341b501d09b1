SPECIFICATION Spec
CONSTANTS
    MaxMessages = 2
    MaxKept = 2
    Tracking = FALSE
    Faults = {"crash"}
    MaxFaults = 1
INVARIANTS
    DeliveredMeansAnnounced

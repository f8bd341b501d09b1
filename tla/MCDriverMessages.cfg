SPECIFICATION Spec
CONSTANTS
    MaxMessages = 2
    MaxKept = 2
    Tracking = FALSE
    Faults = {"crash", "cancel", "handover"}
    MaxFaults = 1
INVARIANTS
    TicksHonest
    ReceiptsSettleLast
PROPERTIES
    AnnouncedOnce

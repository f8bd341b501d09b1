---------------------------- MODULE BufferLimits ----------------------------
(***************************************************************************)
(* The names and limits of the driver phone's offline buffer, shared by    *)
(* PointBuffer, where it stands alone, and Delivery, where it is one end.  *)
(***************************************************************************)
EXTENDS Naturals, FiniteSets

CONSTANTS
    Points,        \* recorded_at values of the fixes the phone may capture
    Batches,       \* batch ids
    NoBatch,       \* "no upload is running"
    Sessions,      \* tracking sessions a claim code can bind the phone to
    NoSession,     \* SessionStore holds no SESSION_ID
    MaxRows,       \* BuildConfig.BUFFER_MAX_ROWS
    SyncBatch,     \* BuildConfig.SYNC_BATCH_SIZE
    Floor413,      \* smallest chunk after BATCH_TOO_LARGE (25 in the code)
    Floor400       \* smallest chunk after a 400 or 422   (10 in the code)

ASSUME PointsAssumption == Points \subseteq Nat \ {0} /\ IsFiniteSet(Points)
ASSUME BatchAssumption == NoBatch \notin Batches
ASSUME SessionAssumption == NoSession \notin Sessions
ASSUME SizeAssumption ==
    /\ MaxRows \in Nat \ {0}
    /\ SyncBatch \in Nat \ {0}
    /\ Floor413 \in 1..SyncBatch
    /\ Floor400 \in 1..SyncBatch

=============================================================================

---------------------------- MODULE PointBuffer ----------------------------
(***************************************************************************)
(* The driver phone's offline buffer: the Room table location_points with  *)
(* its claim / acknowledge protocol (LocationPointDao.kt) and the part of  *)
(* TrackingRepository.kt that captures fixes and runs one upload at a time *)
(* under uploadMutex.                                                      *)
(*                                                                         *)
(* A point is identified by its recorded_at, a natural number, because the *)
(* code orders rows by nothing else.  A row is PENDING when it is in       *)
(* pending and IN_FLIGHT under batch b when it is in claimed[b]; a row in  *)
(* neither does not exist.  A batch id stands for one random UUID and is   *)
(* reused only after every trace of its previous use is gone.              *)
(***************************************************************************)
EXTENDS BufferLimits

VARIABLES
    pending,       \* rows with sync_state PENDING
    claimed,       \* batch id -> rows IN_FLIGHT under it
    stale,         \* batch ids whose claimed_at is over STALE_CLAIM_MS old
    captured,      \* history: points whose insert committed
    owner,         \* point -> session_id column of its row when captured
    evicted,       \* history: points deleted by evictOldest
    reporting,     \* in memory: evictions whose BUFFER_OVERFLOW is not queued
    reported,      \* evictions whose BUFFER_OVERFLOW is in pending_events
    session,       \* SESSION_ID in the DataStore
    entered,       \* in memory: syncOnce holds uploadMutex, nothing claimed yet
    upload,        \* in memory: batch claimed by the holder of uploadMutex
    chunk          \* in memory: chunkSize

bufferVars == <<pending, claimed, stale, captured, owner, evicted, reporting,
                reported, session, entered, upload, chunk>>

InFlight == UNION {claimed[b] : b \in Batches}
Rows == pending \cup InFlight

TypeOK ==
    /\ pending \subseteq Points
    /\ claimed \in [Batches -> SUBSET Points]
    /\ stale \subseteq Batches
    /\ captured \subseteq Points
    /\ owner \in [Points -> Sessions \cup {NoSession}]
    /\ evicted \subseteq Points
    /\ reporting \subseteq Points
    /\ reported \subseteq Points
    /\ session \in Sessions \cup {NoSession}
    /\ entered \in BOOLEAN
    /\ upload \in Batches \cup {NoBatch}
    /\ chunk \in 1..SyncBatch

Init ==
    /\ pending = {}
    /\ claimed = [b \in Batches |-> {}]
    /\ stale = {}
    /\ captured = {}
    /\ owner = [p \in Points |-> NoSession]
    /\ evicted = {}
    /\ reporting = {}
    /\ reported = {}
    /\ session = NoSession
    /\ entered = FALSE
    /\ upload = NoBatch
    /\ chunk = SyncBatch

-----------------------------------------------------------------------------
\* Mutant: ORDER BY recorded_at DESC LIMIT n
NewestRows(S, n) == {p \in S : Cardinality({q \in S : q > p}) < n}

\* ORDER BY recorded_at ASC LIMIT n
Oldest(S, n) == {p \in S : Cardinality({q \in S : q < p}) < n}

\* Mutant: the cap is tested before the insert.
OverflowLate(n) == IF n > MaxRows + 1 THEN n - MaxRows ELSE 0

Overflow(n) == IF n > MaxRows THEN n - MaxRows ELSE 0

Bound == session # NoSession

\* insertWithCap: one transaction inserts the row and, above the cap, deletes
\* the oldest PENDING rows; rows in flight count towards the cap but are
\* never evicted.  The BUFFER_OVERFLOW event is a later transaction.
StoreFix(p) ==
    /\ Bound
    /\ p \notin captured
    /\ LET over == Overflow(Cardinality(Rows) + 1)
           gone == Oldest(pending \cup {p}, over)
       IN /\ pending' = (pending \cup {p}) \ gone
          /\ evicted' = evicted \cup gone
          /\ reporting' = reporting \cup gone
    /\ captured' = captured \cup {p}
    /\ owner' = [owner EXCEPT ![p] = session]
    /\ UNCHANGED <<claimed, stale, reported, session, entered, upload, chunk>>

\* recordLocalEvent("BUFFER_OVERFLOW") for the eviction of p: returns without
\* queueing anything when no session is bound.
LogOverflow(p) ==
    /\ p \in reporting
    /\ reporting' = reporting \ {p}
    /\ reported' = IF Bound THEN reported \cup {p} ELSE reported
    /\ UNCHANGED <<pending, claimed, stale, captured, owner, evicted, session,
                   entered, upload, chunk>>

-----------------------------------------------------------------------------
\* Mutant: the subquery of claimBatch does not ask for SYNC_PENDING.
NextChunkAny == Oldest(Rows, chunk)

\* The rows the next claimBatch would take.
NextChunk == Oldest(pending, chunk)

\* syncOnce takes uploadMutex and finds a session; the token refresh that may
\* follow is a network call, so the session can be gone when the rows are
\* claimed.  The mutex is held until one of the outcomes below.
EnterSync ==
    /\ Bound
    /\ upload = NoBatch
    /\ ~entered
    /\ entered' = TRUE
    /\ UNCHANGED <<pending, claimed, stale, captured, owner, evicted, reporting,
                   reported, session, upload, chunk>>

\* claimBatch
ClaimBatch(b) ==
    /\ entered
    /\ claimed[b] = {}
    /\ pending # {}
    /\ claimed' = [claimed EXCEPT ![b] = NextChunk]
    /\ pending' = pending \ NextChunk
    /\ entered' = FALSE
    /\ upload' = b
    /\ stale' = stale \ {b}
    /\ UNCHANGED <<captured, owner, evicted, reporting, reported, session, chunk>>

\* The refresh failed, or nothing was pending.
LeaveSync ==
    /\ entered
    /\ entered' = FALSE
    /\ UNCHANGED <<pending, claimed, stale, captured, owner, evicted, reporting,
                   reported, session, upload, chunk>>

\* 2xx: deleteBatch removes whatever is still claimed under the batch id.
DeleteBatch(b) ==
    /\ upload = b
    /\ claimed' = [claimed EXCEPT ![b] = {}]
    /\ upload' = NoBatch
    /\ stale' = stale \ {b}
    /\ chunk' = IF 2 * chunk < SyncBatch THEN 2 * chunk ELSE SyncBatch
    /\ UNCHANGED <<pending, captured, owner, evicted, reporting, reported,
                   session, entered>>

\* Mutant: coerceAtLeast is forgotten.
ShrinkNoFloor(reply) == IF reply = "ERROR" THEN chunk ELSE chunk \div 4

\* Mutant: the same payload is sent again.
ShrinkNever(reply) == chunk

\* chunkSize after a failure with the given reply.
Shrink(reply) ==
    CASE reply = "TOO_LARGE" ->
             IF chunk \div 2 > Floor413 THEN chunk \div 2 ELSE Floor413
      [] reply = "REFUSED" ->
             IF chunk \div 4 > Floor400 THEN chunk \div 4 ELSE Floor400
      [] OTHER -> chunk

\* Any other outcome: releaseBatch hands the rows back to the queue.
ReleaseBatch(b, reply) ==
    /\ upload = b
    /\ pending' = pending \cup claimed[b]
    /\ claimed' = [claimed EXCEPT ![b] = {}]
    /\ upload' = NoBatch
    /\ stale' = stale \ {b}
    /\ chunk' = Shrink(reply)
    /\ UNCHANGED <<captured, owner, evicted, reporting, reported, session, entered>>

-----------------------------------------------------------------------------
\* STALE_CLAIM_MS passes on the wall clock for every claim but the running
\* upload's, which callTimeout ends much sooner.
TimePasses ==
    /\ stale' = {b \in Batches \ {upload} : claimed[b] # {}}
                  \cup (stale \cap {upload})
    /\ UNCHANGED <<pending, claimed, captured, owner, evicted, reporting,
                   reported, session, entered, upload, chunk>>

\* The clock is set forward, or the phone dozes with the upload suspended: the
\* running upload's claim is old as well.
ClockJump ==
    /\ stale' = {b \in Batches : claimed[b] # {}}
    /\ UNCHANGED <<pending, claimed, captured, owner, evicted, reporting,
                   reported, session, entered, upload, chunk>>

\* Mutant: an old claim is taken for an uploaded one.
ResetDeletes ==
    /\ stale # {}
    /\ claimed' = [b \in Batches |-> IF b \in stale THEN {} ELSE claimed[b]]
    /\ stale' = {}
    /\ UNCHANGED <<pending, captured, owner, evicted, reporting, reported,
                   session, entered, upload, chunk>>

\* recoverOrphanedBatches, run by beginTracking and by syncAll before it takes
\* the mutex: it may therefore also take back the rows of a live upload.
ResetStaleInFlight ==
    /\ stale # {}
    /\ pending' = pending \cup UNION {claimed[b] : b \in stale}
    /\ claimed' = [b \in Batches |-> IF b \in stale THEN {} ELSE claimed[b]]
    /\ stale' = {}
    /\ UNCHANGED <<captured, owner, evicted, reporting, reported,
                   session, entered, upload, chunk>>

\* The process dies: every in-memory field is lost, the database is not.
ProcessDeath ==
    /\ entered' = FALSE
    /\ upload' = NoBatch
    /\ reporting' = {}
    /\ chunk' = SyncBatch
    /\ UNCHANGED <<pending, claimed, stale, captured, owner, evicted,
                   reported, session>>

\* The coroutine inside syncOnce is cancelled (WorkManager stops the worker, the
\* service is destroyed).  releaseBatch is itself suspending, so in a cancelled
\* coroutine it does not run: the mutex is free and the rows stay claimed.
CancelUpload ==
    /\ entered \/ upload # NoBatch
    /\ entered' = FALSE
    /\ upload' = NoBatch
    /\ UNCHANGED <<pending, claimed, stale, captured, owner, evicted, reporting,
                   reported, session, chunk>>

\* saveCredentials after a successful claim.
SaveCredentials(s) ==
    /\ ~Bound
    /\ session' = s
    /\ UNCHANGED <<pending, claimed, stale, captured, owner, evicted, reporting,
                   reported, entered, upload, chunk>>

\* clearSession: the credentials go, the buffer stays.
ClearSession ==
    /\ Bound
    /\ session' = NoSession
    /\ UNCHANGED <<pending, claimed, stale, captured, owner, evicted, reporting,
                   reported, entered, upload, chunk>>

-----------------------------------------------------------------------------
Replies == {"TOO_LARGE", "REFUSED", "ERROR"}

\* The buffer against a server that may answer anything or nothing.
Next ==
    \/ \E p \in Points : StoreFix(p) \/ LogOverflow(p)
    \/ \E b \in Batches : ClaimBatch(b) \/ DeleteBatch(b)
    \/ \E b \in Batches, reply \in Replies : ReleaseBatch(b, reply)
    \/ EnterSync
    \/ LeaveSync
    \/ TimePasses
    \/ ClockJump
    \/ ResetStaleInFlight
    \/ ProcessDeath
    \/ CancelUpload
    \/ \E s \in Sessions : SaveCredentials(s)
    \/ ClearSession

Spec == Init /\ [][Next]_bufferVars

-----------------------------------------------------------------------------
\* A row is a captured fix in one place: waiting, or claimed by exactly one
\* batch.  Two homes would upload a fix under two ids at once.
OneHome ==
    /\ Rows \subseteq captured
    /\ \A b \in Batches :
          /\ claimed[b] \cap pending = {}
          /\ \A c \in Batches : claimed[b] \cap claimed[c] # {} => b = c

\* The ring buffer stays within BUFFER_MAX_ROWS (LocationPointDao.insertWithCap)
\* although rows in flight are counted and never evicted.
BufferBounded == Cardinality(Rows) <= MaxRows

\* Every fix captured is on the phone, was acknowledged or was evicted: a crash
\* between claim and answer strands nothing outside the table
\* (resetStaleInFlight's comment).  Without the server, an acknowledgement is
\* the only way out of claimed[b] that does not lead to pending.
DeletedOnlyOnAck ==
    [][\A p \in Rows \ Rows' :
          \/ p \in evicted'
          \/ upload # NoBatch /\ upload' = NoBatch /\ p \in claimed[upload]
      ]_bufferVars

\* evictOldest never takes a row whose upload is running (WHERE sync_state =
\* PENDING), and what it takes is older than everything it leaves waiting.
EvictsOldestWaiting ==
    [][\A p \in evicted' \ evicted :
          /\ \A b \in Batches : p \notin claimed[b]
          /\ \A q \in pending' : p < q]_bufferVars

\* The loss of a row is announced: its BUFFER_OVERFLOW event is queued, or the
\* process that evicted it is about to queue it (evictOldest: "the caller logs
\* a BUFFER_OVERFLOW event so the loss is visible, never silent").
OverflowNeverSilent == evicted \subseteq reported \cup reporting

=============================================================================

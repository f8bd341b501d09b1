------------------------------ MODULE Delivery ------------------------------
(***************************************************************************)
(* From GPS fix to database row: the phone's buffer (PointBuffer) and      *)
(* kh.ingest_points (IngestPoints) joined by a network that loses and      *)
(* delays requests and responses.                                          *)
(*                                                                         *)
(* A request is processed at most once: the guard burns its nonce, so the  *)
(* second copy that RadioWakeRetryInterceptor or OkHttp sends is answered  *)
(* 401 and reaches the phone as a failure of a batch the server may hold.  *)
(* A request carries no session: the server files it under the session of  *)
(* the token it was sent with.                                             *)
(***************************************************************************)
EXTENDS BufferLimits

CONSTANTS Suspect,
          Poison,           \* fixes that spoil every request they are part of:
                            \* one that JSON cannot encode, or that makes the
                            \* server answer the whole batch with an error
          MaxBatchPoints,   \* INGEST_MAX_BATCH_POINTS
          MaxFaults         \* bound: process deaths, cancelled uploads and
                            \* clock jumps in one behaviour

ASSUME SuspectAssumption == Suspect \subseteq Points
ASSUME FaultsAssumption == MaxFaults \in Nat

VARIABLES pending, claimed, stale, captured, owner, evicted, reporting,
          reported, session, entered, upload, chunk,
          status, stored, anchor, total, started, firstAt,
          net,      \* requests sent and neither lost nor processed
          sent,     \* the running upload's request has left the phone
          reply,    \* answer on its way to the phone for the running upload
          refused,  \* history: points an answered batch reported as rejected
          faults    \* counter for MaxFaults

Phone == INSTANCE PointBuffer
Server == INSTANCE IngestPoints

phoneVars == <<pending, claimed, stale, captured, owner, evicted, reporting,
               reported, session, entered, upload, chunk>>
serverVars == <<status, stored, anchor, total, started, firstAt>>
vars == <<phoneVars, serverVars, net, sent, reply, refused, faults>>

Request == [id : Batches, to : Sessions, pts : SUBSET Points]
Reply == {"NONE", "OK", "TOO_LARGE", "REFUSED", "ERROR"}

Rows == Phone!Rows
Delivered == UNION {stored[s] : s \in Sessions}

TypeOK ==
    /\ Phone!TypeOK
    /\ Server!TypeOK
    /\ net \subseteq Request
    /\ sent \in BOOLEAN
    /\ reply \in Reply
    /\ refused \subseteq Points
    /\ faults \in 0..MaxFaults

Init ==
    /\ Phone!Init
    /\ Server!Init
    /\ net = {}
    /\ sent = FALSE
    /\ reply = "NONE"
    /\ refused = {}
    /\ faults = 0

-----------------------------------------------------------------------------
\* The phone on its own.
Capture ==
    /\ \E p \in Points : Phone!StoreFix(p) \/ Phone!LogOverflow(p)
    /\ UNCHANGED <<serverVars, net, sent, reply, refused, faults>>

Age ==
    /\ Phone!TimePasses
    /\ UNCHANGED <<serverVars, net, sent, reply, refused, faults>>

Recover ==
    /\ Phone!ResetStaleInFlight
    /\ UNCHANGED <<serverVars, net, sent, reply, refused, faults>>

Rebind ==
    /\ \/ \E s \in Sessions : Server!Open(s) /\ Phone!SaveCredentials(s)
       \/ Phone!ClearSession
    /\ UNCHANGED <<serverVars, net, sent, reply, refused, faults>>

\* No request of this phone is waiting for an answer.
Idle == sent' = FALSE /\ reply' = "NONE"

Fault ==
    /\ faults < MaxFaults
    /\ faults' = faults + 1
    /\ \/ (Phone!ProcessDeath \/ Phone!CancelUpload) /\ Idle
       \/ Phone!ClockJump /\ UNCHANGED <<sent, reply>>
    /\ UNCHANGED <<serverVars, net, refused>>

Sync ==
    /\ Phone!EnterSync \/ Phone!LeaveSync
    /\ UNCHANGED <<serverVars, net, sent, reply, refused, faults>>

\* claimBatch, under an id no request still carries.
Claim(b) ==
    /\ \A m \in net : m.id # b
    /\ Phone!ClaimBatch(b)
    /\ Idle
    /\ UNCHANGED <<serverVars, net, refused, faults>>

\* getBatch and api.ingestBatch: what is still claimed goes out, signed with the
\* credentials of this moment; without any the server answers 401.
Send(b) ==
    /\ upload = b
    /\ ~sent
    /\ claimed[b] # {}
    /\ sent' = TRUE
    /\ IF session = NoSession
       THEN reply' = "ERROR" /\ UNCHANGED net
       ELSE /\ net' = net \cup {[id |-> b, to |-> session, pts |-> claimed[b]]}
            /\ UNCHANGED reply
    /\ UNCHANGED <<phoneVars, serverVars, refused, faults>>

\* Mutant: whatever the server answered, the batch is done with.
AcknowledgeAny(b) ==
    /\ reply # "NONE"
    /\ Phone!DeleteBatch(b)
    /\ Idle
    /\ UNCHANGED <<serverVars, net, refused, faults>>

\* The phone reads a 2xx.
Acknowledge(b) ==
    /\ reply = "OK"
    /\ Phone!DeleteBatch(b)
    /\ Idle
    /\ UNCHANGED <<serverVars, net, refused, faults>>

\* The phone reads an error.
ReadError(b) ==
    /\ reply \in Phone!Replies
    /\ Phone!ReleaseBatch(b, reply)
    /\ Idle
    /\ UNCHANGED <<serverVars, net, refused, faults>>

\* The phone has no answer (a 2xx that never arrives looks the same), or found
\* its rows gone before it could send them.
GiveUp(b) ==
    /\ sent \/ claimed[b] = {}
    /\ Phone!ReleaseBatch(b, "ERROR")
    /\ Idle
    /\ UNCHANGED <<serverVars, net, refused, faults>>

-----------------------------------------------------------------------------
\* Mutant: an answer is taken for the running upload's, whoever asked.
AnswerAny(m, r) == reply' = r /\ UNCHANGED sent

\* An answer matters only while the upload that asked for it is waiting.
Answer(m, r) ==
    /\ reply' = IF upload = m.id THEN r ELSE reply
    /\ UNCHANGED sent

Accept(m) ==
    /\ m \in net
    /\ Cardinality(m.pts) <= MaxBatchPoints
    /\ m.pts \cap Poison = {}
    /\ \E bad \in SUBSET (m.pts \cap Suspect) :
          /\ Server!Ingest(m.to, m.pts, bad)
          /\ refused' = refused \cup bad
    /\ net' = net \ {m}
    /\ Answer(m, "OK")
    /\ UNCHANGED <<phoneVars, faults>>

\* 413, before the database is asked.
TooLarge(m) ==
    /\ m \in net
    /\ Cardinality(m.pts) > MaxBatchPoints
    /\ net' = net \ {m}
    /\ Answer(m, "TOO_LARGE")
    /\ UNCHANGED <<phoneVars, serverVars, refused, faults>>

\* 403 when the session is closed; any other 4xx or 5xx at any time.
Decline(m) ==
    /\ m \in net
    /\ net' = net \ {m}
    /\ Answer(m, "REFUSED") \/ Answer(m, "ERROR")
    /\ UNCHANGED <<phoneVars, serverVars, refused, faults>>

Lose(m) ==
    /\ m \in net
    /\ net' = net \ {m}
    /\ UNCHANGED <<phoneVars, serverVars, sent, reply, refused, faults>>

Finish(s) ==
    /\ Server!Close(s)
    /\ UNCHANGED <<phoneVars, net, sent, reply, refused, faults>>

Next ==
    \/ Capture \/ Age \/ Recover \/ Rebind \/ Fault \/ Sync
    \/ \E b \in Batches :
          Claim(b) \/ Send(b) \/ Acknowledge(b) \/ ReadError(b) \/ GiveUp(b)
    \/ \E m \in net : Accept(m) \/ TooLarge(m) \/ Decline(m) \/ Lose(m)
    \/ \E s \in Sessions : Finish(s)

Spec == Init /\ [][Next]_vars

\* What the scheduling justifies.  The pump and WorkManager retry without a
\* give-up threshold, callTimeout ends every wait, every sync pass begins with
\* recoverOrphanedBatches, and nothing stays in the network for ever.  Of the
\* token refreshes, uploads and answers that keep coming, not every one fails.
Fairness ==
    /\ WF_vars(Phone!EnterSync /\ Sync)
    /\ SF_vars(\E b \in Batches : Claim(b))
    /\ WF_vars(\E b \in Batches : Send(b))
    /\ WF_vars(\E b \in Batches : GiveUp(b))
    /\ WF_vars(Age) /\ WF_vars(Recover)
    /\ WF_vars(\E m \in net : Accept(m) \/ TooLarge(m) \/ Decline(m) \/ Lose(m))
    /\ SF_vars(\E m \in net : m.id = upload /\ Accept(m))
    /\ SF_vars(\E m \in net : m.id = upload /\ TooLarge(m))
    /\ SF_vars(\E b \in Batches : Acknowledge(b))
    /\ SF_vars(\E b \in Batches : reply = "TOO_LARGE" /\ ReadError(b))

FairSpec == Spec /\ Fairness

-----------------------------------------------------------------------------
\* No fix is lost: whatever the phone captured it still has, or the server has
\* it, or it fell to one of the two losses the code owns up to, the buffer cap
\* and the server's validity predicate ("Nothing ... can delete a point",
\* TrackingRepository.kt).
NoLoss == captured \subseteq Rows \cup Delivered \cup evicted \cup refused

\* When a 2xx is being read, the server holds every row it is about to delete
\* or has refused it: the answer belongs to this very batch id although rows
\* may have been taken back, sent again and claimed anew meanwhile.
AckCoversBatch ==
    upload # NoBatch /\ reply = "OK" => claimed[upload] \subseteq Delivered \cup refused

\* The phone's end within the pipeline: a row has one home and the table its
\* cap, with answers that come late, twice or for a batch that was taken back.
BufferHolds == Phone!OneHome /\ Phone!BufferBounded

\* A row leaves the table when its own batch is acknowledged, or when the cap
\* evicts it while it waits, older than all that wait on.
RowsLeaveForACause == Phone!DeletedOnlyOnAck /\ Phone!EvictsOldestWaiting

\* The pipeline implements the reliable log.
Log == INSTANCE ReliableLog WITH held <- Rows, delivered <- Delivered
ImplementsLog == Log!Spec

\* While the phone is bound to an open session, every buffered fix leaves it
\* in the end: no loss of answers, shrinking of chunks, crash or stolen claim
\* keeps a row in the table for ever.
Leaves(p) == p \in Rows ~> \/ p \notin Rows
                           \/ session = NoSession
                           \/ ~Server!Open(session)
Drains == \A p \in Points : Leaves(p)

\* "one poisoned chunk cannot block the newer ones" (LocationPointDao.kt,
\* claimBatch): the fixes that can be uploaded are, whatever the others are.
PoisonDoesNotBlock == \A p \in Points \ Poison : Leaves(p)

\* endSession and clearSession keep the buffer because "unsynced points from
\* the session that just ended must still be uploaded" (SessionStore.kt): as
\* long as the server would take them and no other code is claimed, they
\* leave the phone ("WorkManager keeps trying after this screen is gone",
\* TrackerViewModel.kt).
LeftoversUploaded ==
    (\A s \in Sessions : []Server!Open(s)) /\ <>[][UNCHANGED session]_vars =>
        \A p \in Points : p \in Rows ~> p \notin Rows

\* A fix is filed under the session it was captured in, which is in its row.
\* SyncWorker.kt counts on it for what a closed session leaves behind: it "was
\* already rejected by the server and would be rejected again".
FiledUnderOwner == \A s \in Sessions, p \in Points : p \in stored[s] => owner[p] = s

\* The class invariant of TrackingRepository.kt as written, but for the buffer
\* cap: a fix is deleted from the device only after the server acknowledged that
\* it holds it.
DeletedOnlyWhenHeld ==
    [][\A p \in Rows \ Rows' : p \in Delivered \cup evicted']_vars

=============================================================================

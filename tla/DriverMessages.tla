--------------------------- MODULE DriverMessages ---------------------------
(***************************************************************************)
(* Messages from the desk to the driver of one shipment: the thread in     *)
(* Postgres and the cached count that ingest answers with                  *)
(* (MessagesService), the phone's copy of the thread and its notifications *)
(* (MessageRepository), and the receipts that come back.                   *)
(*                                                                         *)
(* Messages are numbered in the order they are sent.  Every await of       *)
(* either side is a boundary between two steps; the phone's network mutex  *)
(* admits one fetch or receipt at a time (at), its state mutex makes each  *)
(* change of the stored thread one step.                                   *)
(***************************************************************************)
EXTENDS Integers, FiniteSets

CONSTANTS MaxMessages,   \* bound: messages the desk sends
          MaxKept,       \* MAX_KEPT of the phone, LIMIT of forDevice
          Tracking,      \* whether the phone tracks, and so uploads and hears hints
          Faults,        \* bound: which of "crash", "cancel", "handover", "end" happen
          MaxFaults      \* bound: how often the first three do

ASSUME ParameterAssumption ==
    /\ MaxMessages \in Nat /\ MaxKept \in Nat \ {0} /\ MaxFaults \in Nat
    /\ Tracking \in BOOLEAN /\ Faults \subseteq {"crash", "cancel", "handover", "end"}

VARIABLES sent, delivered, readAt,  \* rows of driver_messages, their timestamps
          open,                     \* the session has an open status
          hint,                     \* the cached undelivered count
          counting,                 \* a count on its way from Postgres to the cache
          forgets,                  \* send calls between INSERT and DEL (bound: one)
          ack,                      \* the receipts being processed
          phase,                    \* the phone holds the session, ends it, ended it
          mem, disk,                \* StoredThread in memory and in the preferences
          shown,                    \* notifications that are up
          at, work, seen,           \* what the holder of the network mutex is doing
          wake, pressed,            \* a sync, a receipt waits for the network mutex
          readBy,                   \* history: messages the driver pressed "read" on
          posted,                   \* history: messages this phone has announced
          excused,                  \* history: announced by a pass that was cut short
          tainted, crossed,         \* history: the cached count missed a DEL, the
                                    \* count under way saw one pass
          faults

server == <<sent, delivered, readAt, open, hint, counting, forgets, ack, tainted, crossed>>
phone == <<phase, mem, disk, shown, at, work, seen, wake, pressed, readBy, posted, excused>>
vars == <<server, phone, faults>>

Ids == 1..MaxMessages
NoHint == -1
Flags == {"held", "read", "notified", "deliveryAcked", "readAcked"}
Thread == [Flags -> SUBSET Ids]
NoThread == [f \in Flags |-> {}]
NoAck == [at |-> "none", d |-> {}, r |-> {}, hit |-> FALSE]
AckStages == {"none", "reads", "delivered", "forget", "done", "refused"}

TypeOK ==
    /\ sent \in 0..MaxMessages /\ delivered \subseteq Ids /\ readAt \subseteq Ids
    /\ open \in BOOLEAN /\ forgets \in 0..1
    /\ hint \in Ids \cup {NoHint, 0} /\ counting \in Ids \cup {NoHint, 0}
    /\ ack \in [at : AckStages, d : SUBSET Ids, r : SUBSET Ids, hit : BOOLEAN]
    /\ phase \in {"BOUND", "ENDING", "ENDED"}
    /\ mem \in Thread /\ disk \in Thread /\ shown \subseteq Ids
    /\ at \in {"idle", "fetched", "announce", "mark", "push", "ack"}
    /\ work \subseteq Ids /\ seen \subseteq Ids
    /\ wake \in BOOLEAN /\ pressed \in BOOLEAN
    /\ readBy \subseteq Ids /\ posted \subseteq Ids /\ excused \subseteq Ids
    /\ tainted \in BOOLEAN /\ crossed \in BOOLEAN
    /\ faults \in 0..MaxFaults

Init ==
    /\ sent = 0 /\ delivered = {} /\ readAt = {} /\ open = TRUE
    /\ hint = NoHint /\ counting = NoHint /\ forgets = 0 /\ ack = NoAck
    /\ phase = "BOUND" /\ mem = NoThread /\ disk = NoThread /\ shown = {}
    /\ at = "idle" /\ work = {} /\ seen = {} /\ wake = FALSE /\ pressed = FALSE
    /\ readBy = {} /\ posted = {} /\ excused = {}
    /\ tainted = FALSE /\ crossed = FALSE /\ faults = 0

-----------------------------------------------------------------------------
\* The thread, as DriverMessages.kt computes on it.
Newest(S) == {i \in S : Cardinality({j \in S : j >= i}) <= MaxKept}

\* Mutant: the server's copy replaces the phone's.
MergeServerWins(t, ids, read) ==
    LET kept == Newest(t["held"] \cup ids)
    IN  [f \in Flags |-> (IF f = "held" THEN kept ELSE (t[f] \ ids) \cup read) \cap kept]

\* mergeMessages: what is known here stays, a read the server knows of is added.
Merge(t, ids, read) ==
    LET kept == Newest(t["held"] \cup ids)
    IN  [f \in Flags |-> (IF f = "held" THEN kept ELSE t[f] \cup read) \cap kept]

ToAnnounce(t) == t["held"] \ (t["read"] \cup t["notified"])

\* Mutant: a message on the screen counts as read.
OwedShown(t) == t["notified"] \ t["readAcked"]

OwedRead(t) == t["read"] \ t["readAcked"]
OwedDelivered(t) == t["held"] \ (t["deliveryAcked"] \cup OwedRead(t))

\* Mutant: only deliveries are thought of.
OwesDelivery(t) == OwedDelivered(t) # {}

Owes(t) == OwedRead(t) \cup OwedDelivered(t) # {}

Flag(t, fs, S) == [f \in Flags |-> IF f \in fs THEN t[f] \cup (S \cap t["held"]) ELSE t[f]]

\* settle
Settled(t, d, r) == Flag(Flag(t, {"deliveryAcked"}, d \cup r), {"readAcked"}, r)

-----------------------------------------------------------------------------
\* The server.
Undelivered == Cardinality((1..sent) \ delivered)

\* forgetPending, and its failure
Forget ==
    /\ hint' = NoHint
    /\ tainted' = FALSE
    /\ crossed' = (counting # NoHint)
    /\ UNCHANGED counting

FailToForget ==
    /\ tainted' = (hint # NoHint)
    /\ crossed' = (counting # NoHint)
    /\ UNCHANGED <<hint, counting>>

Cache == <<hint, counting, tainted, crossed>>

Send ==
    /\ open /\ sent < MaxMessages /\ forgets = 0
    /\ sent' = sent + 1
    /\ forgets' = forgets + 1
    /\ UNCHANGED <<delivered, readAt, open, Cache, ack, phone, faults>>

\* Mutant: the DEL is repeated.
ForgetAgain ==
    /\ forgets' = forgets - 1
    /\ Forget \/ FailToForget
    /\ UNCHANGED <<sent, delivered, readAt, open, ack, phone, faults>>

ForgetAfterSend ==
    /\ forgets > 0
    /\ forgets' = forgets - 1
    /\ Forget \/ FailToForget
    /\ UNCHANGED <<sent, delivered, readAt, open, ack, phone, faults>>

Close ==
    /\ open
    /\ open' = FALSE
    /\ UNCHANGED <<sent, delivered, readAt, Cache, forgets, ack, phone, faults>>

\* Mutant: SET without EX.
LapseNever ==
    /\ FALSE
    /\ UNCHANGED vars

\* The key expires.
Lapse ==
    /\ hint # NoHint
    /\ hint' = NoHint
    /\ tainted' = FALSE
    /\ UNCHANGED <<sent, delivered, readAt, open, counting, crossed, forgets, ack, phone, faults>>

\* onServerHint, unless the answer is lost
Hear(n) ==
    wake' \in {wake, wake \/ n > 0 \/ Owes(mem)}

Listening == UNCHANGED <<phase, mem, disk, shown, at, work, seen, pressed, readBy, posted, excused>>

\* pendingCount, asked by an ingest
HintFromCache ==
    /\ Tracking /\ phase = "BOUND" /\ hint # NoHint
    /\ Hear(hint)
    /\ UNCHANGED <<server, faults>> /\ Listening

CountPending ==
    /\ Tracking /\ phase = "BOUND" /\ hint = NoHint /\ counting = NoHint
    /\ counting' = Undelivered
    /\ crossed' = FALSE
    /\ UNCHANGED <<sent, delivered, readAt, open, hint, tainted, forgets, ack, phone, faults>>

FillHint ==
    /\ counting # NoHint
    /\ hint' = counting
    /\ tainted' = crossed
    /\ counting' = NoHint
    /\ crossed' = FALSE
    /\ IF phase = "BOUND" THEN Hear(counting) ELSE UNCHANGED wake
    /\ UNCHANGED <<sent, delivered, readAt, open, forgets, ack, faults>> /\ Listening

\* acknowledge: reads, then deliveries, then the cache.  Of a request the phone
\* has given up on nothing is left once it is done.
Outcome(x) == ack' = IF at = "ack" THEN [ack EXCEPT !.at = x] ELSE NoAck

AckReads ==
    /\ ack.at = "reads"
    /\ readAt' = readAt \cup ack.r
    /\ delivered' = delivered \cup ack.r
    /\ ack' = [ack EXCEPT !.at = "delivered", !.hit = ~(ack.r \subseteq readAt)]
    /\ UNCHANGED <<sent, open, Cache, forgets, phone, faults>>

\* Mutant: deliveries alone do not clear the hint.
AckDeliveredQuietly ==
    /\ ack.at = "delivered"
    /\ delivered' = delivered \cup ack.d
    /\ IF ack.hit THEN ack' = [ack EXCEPT !.at = "forget"] ELSE Outcome("done")
    /\ UNCHANGED <<sent, readAt, open, Cache, forgets, phone, faults>>

AckDelivered ==
    /\ ack.at = "delivered"
    /\ delivered' = delivered \cup ack.d
    /\ IF ack.hit \/ ~(ack.d \subseteq delivered)
       THEN ack' = [ack EXCEPT !.at = "forget", !.hit = TRUE]
       ELSE Outcome("done")
    /\ UNCHANGED <<sent, readAt, open, Cache, forgets, phone, faults>>

AckForget ==
    /\ ack.at = "forget"
    /\ Outcome("done")
    /\ Forget \/ FailToForget
    /\ UNCHANGED <<sent, delivered, readAt, open, forgets, phone, faults>>

\* acknowledge changed a row and has not cleared the hint.
ForgetOwed == ack.at = "forget" \/ (ack.at = "delivered" /\ ack.hit)

\* A statement fails or the process dies: the phone gets no answer it can use.
AckFails ==
    /\ ack.at \in {"reads", "delivered", "forget"}
    /\ ack' = NoAck
    /\ IF ForgetOwed THEN FailToForget ELSE UNCHANGED Cache
    /\ UNCHANGED <<sent, delivered, readAt, open, forgets, phone, faults>>

\* DriverSessionGuard: 403 SESSION_CLOSED
AckRefused ==
    /\ ack.at = "reads" /\ ~open
    /\ Outcome("refused")
    /\ UNCHANGED <<sent, delivered, readAt, open, Cache, forgets, phone, faults>>

-----------------------------------------------------------------------------
\* The phone.
\* onForeground, the sync worker, the claim
Ask ==
    /\ phase = "BOUND" /\ ~wake
    /\ wake' = TRUE
    /\ UNCHANGED <<server, faults>> /\ Listening

\* sync: the fetch reaches the server, whose answer is in work and seen.
Fetch ==
    /\ at = "idle" /\ wake /\ phase = "BOUND"
    /\ wake' = FALSE
    /\ at' = "fetched"
    /\ work' = Newest(1..sent)
    /\ seen' = readAt \cap work'
    /\ UNCHANGED <<server, phase, mem, disk, shown, pressed, readBy, posted, excused, faults>>

\* clearLocked
Wipe ==
    /\ mem' = NoThread
    /\ shown' = shown \ mem["held"]

\* sync returns early: too soon after the last fetch, no coverage, no session.
Skip ==
    /\ at = "idle" /\ wake
    /\ wake' = FALSE
    /\ UNCHANGED <<mem, shown>> \/ (phase # "BOUND" /\ Wipe)
    /\ UNCHANGED <<server, phase, disk, at, work, seen, pressed, readBy, posted, excused, faults>>

\* The answer arrives: merged into the thread and saved.
Save ==
    /\ at = "fetched"
    /\ LET merged == Merge(mem, work, seen) IN
         /\ mem' = merged
         /\ work' = ToAnnounce(merged)
         /\ at' = IF work' = {} THEN "push" ELSE "announce"
    /\ seen' = {}
    /\ UNCHANGED <<server, phase, disk, shown, wake, pressed, readBy, posted, excused, faults>>

Post ==
    /\ at = "announce"
    /\ shown' = shown \cup work
    /\ posted' = posted \cup work
    /\ at' = "mark"
    /\ UNCHANGED <<server, phase, mem, disk, work, seen, wake, pressed, readBy, excused, faults>>

Mark ==
    /\ at = "mark"
    /\ mem' = Flag(mem, {"notified"}, work)
    /\ work' = {}
    /\ at' = "push"
    /\ UNCHANGED <<server, phase, disk, shown, seen, wake, pressed, readBy, posted, excused, faults>>

\* pushReceipts: what is owed, and the request if there is any.  Without
\* credentials it is answered 401, which settles nothing.
Push ==
    /\ at = "push"
    /\ \/ /\ ~Owes(mem) \/ phase # "BOUND"
          /\ at' = "idle" /\ UNCHANGED ack
       \/ /\ Owes(mem) /\ phase = "BOUND"
          /\ ack = NoAck
          /\ ack' = [at |-> "reads", d |-> OwedDelivered(mem), r |-> OwedRead(mem), hit |-> FALSE]
          /\ at' = "ack"
    /\ UNCHANGED <<sent, delivered, readAt, open, Cache, forgets, phase, mem, disk,
                   shown, work, seen, wake, pressed, readBy, posted, excused, faults>>

\* Mutant: no answer is taken for a success.
SettleUnanswered ==
    /\ at = "ack"
    /\ mem' = Settled(mem, ack.d, ack.r)
    /\ ack' = NoAck
    /\ at' = "idle"
    /\ UNCHANGED <<sent, delivered, readAt, open, Cache, forgets, phase, disk,
                   shown, work, seen, wake, pressed, readBy, posted, excused, faults>>

\* The answer: success or a permanent refusal.
Settle ==
    /\ at = "ack" /\ ack.at \in {"done", "refused"}
    /\ mem' = Settled(mem, ack.d, ack.r)
    /\ ack' = NoAck
    /\ at' = "idle"
    /\ UNCHANGED <<sent, delivered, readAt, open, Cache, forgets, phase, disk,
                   shown, work, seen, wake, pressed, readBy, posted, excused, faults>>

DropAnswer == ack' = IF ack.at \in {"done", "refused"} THEN NoAck ELSE ack

\* No answer to the fetch or to the receipts.
GiveUp ==
    /\ at \in {"fetched", "ack"}
    /\ at' = "idle" /\ work' = {} /\ seen' = {}
    /\ DropAnswer
    /\ UNCHANGED <<sent, delivered, readAt, open, Cache, forgets, phase, mem, disk, shown, wake, pressed, readBy, posted, excused, faults>>

\* markReadNow, from the card or from the notification
Read(i) ==
    /\ phase = "BOUND" /\ i \in (mem["held"] \ mem["read"]) \cup shown
    /\ mem' = Flag(mem, {"read", "notified"}, {i})
    /\ readBy' = readBy \cup ({i} \cap mem["held"])
    /\ shown' = shown \ {i}
    /\ pressed' = TRUE
    /\ UNCHANGED <<server, phase, disk, at, work, seen, wake, posted, excused, faults>>

\* MessageActionReceiver gives the receipt eight seconds.
RunOutOfTime ==
    /\ pressed
    /\ pressed' = FALSE
    /\ UNCHANGED <<server, phase, mem, disk, shown, at, work, seen, wake, readBy, posted, excused, faults>>

PushRead ==
    /\ at = "idle" /\ pressed
    /\ pressed' = FALSE
    /\ at' = "push"
    /\ UNCHANGED <<server, phase, mem, disk, shown, work, seen, wake, readBy, posted, excused, faults>>

\* SharedPreferences.apply writes the file later.  What is in it matters only
\* while the process can still die.
Flush ==
    /\ "crash" \in Faults /\ faults < MaxFaults
    /\ disk # mem
    /\ disk' = mem
    /\ UNCHANGED <<server, phase, mem, shown, at, work, seen, wake, pressed, readBy, posted, excused, faults>>

-----------------------------------------------------------------------------
\* The process dies.  Notifications stay up.
Fail(kind) ==
    /\ kind \in Faults /\ faults < MaxFaults
    /\ faults' = faults + 1

Crash ==
    /\ phase = "BOUND" /\ Fail("crash")
    /\ mem' = disk
    /\ at' = "idle" /\ work' = {} /\ seen' = {} /\ wake' = FALSE /\ pressed' = FALSE
    /\ excused' = excused \cup (posted \ disk["notified"])
    /\ DropAnswer
    /\ UNCHANGED <<sent, delivered, readAt, open, Cache, forgets, phase, disk, shown, readBy, posted>>

\* The coroutine is cancelled, the screen that started the sync being gone, as
\* it waits for the state mutex.
Cancel ==
    /\ at \in {"mark", "push"} /\ Fail("cancel")
    /\ at' = "idle" /\ work' = {}
    /\ excused' = excused \cup (work \cap posted)
    /\ UNCHANGED <<server, phase, mem, disk, shown, seen, wake, pressed, readBy, posted>>

\* regenerateClaimCode and claim: another phone holds the session now.
HandOver ==
    /\ phase = "BOUND" /\ open /\ Fail("handover")
    /\ mem' = NoThread /\ disk' = NoThread /\ shown' = {}
    /\ at' = "idle" /\ work' = {} /\ seen' = {} /\ wake' = FALSE /\ pressed' = FALSE
    /\ posted' = {} /\ excused' = {}
    /\ DropAnswer
    /\ UNCHANGED <<sent, delivered, readAt, open, Cache, forgets, phase, readBy>>

\* endSession: the credentials first, the messages after.
End ==
    /\ "end" \in Faults /\ phase = "BOUND"
    /\ phase' = "ENDING"
    /\ UNCHANGED <<server, mem, disk, shown, at, work, seen, wake, pressed, readBy, posted, excused, faults>>

Clear ==
    /\ phase = "ENDING"
    /\ phase' = "ENDED"
    /\ Wipe
    /\ UNCHANGED <<server, disk, at, work, seen, wake, pressed, readBy, posted, excused, faults>>

Next ==
    \/ Send \/ ForgetAfterSend \/ Close \/ Lapse
    \/ HintFromCache \/ CountPending \/ FillHint
    \/ AckReads \/ AckDelivered \/ AckForget \/ AckFails \/ AckRefused
    \/ Ask \/ Fetch \/ Skip \/ Save \/ Post \/ Mark \/ Push \/ Settle \/ GiveUp
    \/ \E i \in Ids : Read(i)
    \/ RunOutOfTime \/ PushRead \/ Flush \/ Crash \/ Cancel \/ HandOver \/ End \/ Clear

Spec == Init /\ [][Next]_vars

\* An answer whose hint starts a sync.
Told == (HintFromCache \/ FillHint) /\ ~wake /\ wake'

\* A tracking phone uploads every ten to fifteen seconds, the key has a TTL,
\* requests time out, and of requests repeated for ever some are answered.
\* (Actions of one disjunction are never enabled together.)
Fairness ==
    /\ WF_vars(Lapse \/ CountPending \/ FillHint)
    /\ WF_vars(Post \/ Mark \/ Push \/ GiveUp)
    /\ SF_vars(Told) /\ SF_vars(Fetch) /\ SF_vars(Save)
    /\ SF_vars(AckReads) /\ SF_vars(AckDelivered \/ AckForget)

FairSpec == Spec /\ Fairness

-----------------------------------------------------------------------------
Running == open /\ phase = "BOUND"

(* The dispatcher's ticks never flatter: a message is shown as read only if *)
(* the driver pressed "read" on it, and is then also shown as delivered.   *)
TicksHonest == readAt \subseteq readBy \cap delivered

(* While the shipment runs, a receipt the phone considers settled is on    *)
(* record at the server: an unanswered or half-processed acknowledgement   *)
(* is sent again.                                                          *)
ReceiptsSettleLast ==
    Running => /\ mem["readAcked"] \subseteq readAt
               /\ mem["deliveryAcked"] \subseteq delivered

(* A cached count that is wrong is about to be deleted, or a DEL failed    *)
(* while it was there, or it was counted before a DEL and written after.   *)
StaleHintHasACause ==
    (hint # NoHint /\ hint # Undelivered) =>
        tainted \/ forgets > 0 \/ ForgetOwed

(* A message is announced to a driver a second time only when the pass     *)
(* that announced it was cut short before it could mark it.                *)
AnnouncedOnce ==
    [][(phase = "BOUND" /\ at = "announce" /\ at' = "mark") => work \cap posted \subseteq excused]_vars

(* Every message of a running shipment reaches its phone, although counts  *)
(* are cached stale, answers lost and the process killed.                  *)
EveryMessageArrives ==
    \A i \in Ids : (i <= sent) ~> (i \in delivered \/ ~Running)

(* A read that the phone keeps is reported in the end.                     *)
ReadsArrive ==
    \A i \in Ids : (i \in mem["read"]) ~> (i \in readAt \/ i \notin mem["read"] \/ ~Running)

(* What either side says gets through to the other.                        *)
MessagesGetThrough == EveryMessageArrives /\ ReadsArrive

(* A message whose delivery is on record was announced to the driver, or   *)
(* read.                                                                   *)
DeliveredMeansAnnounced == delivered \subseteq posted \cup readBy

(* A read the driver pressed is on the phone until the server has it.      *)
ReadIsKept == Running => readBy \subseteq readAt \cup mem["read"]

(* The notification of a message that was read is not up.                  *)
ReadTakesItDown == shown \cap mem["read"] = {}

(* Nothing of a shipment that ended on this phone is kept or shown.        *)
EndedStaysEmpty == phase = "ENDED" => shown = {} /\ mem = NoThread
=============================================================================

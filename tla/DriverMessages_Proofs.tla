----------------------- MODULE DriverMessages_Proofs -----------------------
(***************************************************************************)
(* Theorems about the messages of a shipment, for any number of messages,  *)
(* any size of the phone's thread and any failures.                        *)
(*                                                                         *)
(* Receipts follows a receipt along its way - the screen, the phone's copy *)
(* in memory and on disk, the request, the rows - and says at each stage   *)
(* which rows are already written.  Hints adds to the cached count the     *)
(* count that is under way.                                                *)
(***************************************************************************)
EXTENDS DriverMessages, FiniteSetTheorems, TLAPS

TicketsReal ==
    /\ readAt \subseteq delivered /\ readAt \subseteq readBy /\ seen \subseteq readAt
    /\ mem["read"] \subseteq readBy /\ disk["read"] \subseteq readBy /\ ack.r \subseteq readBy

RequestsKnown ==
    /\ ack.at \in {"delivered", "forget", "done"} => ack.r \subseteq readAt
    /\ ack.at \in {"forget", "done"} => ack.d \subseteq delivered
    /\ ack.at = "refused" => ~open

Acked(t) == t["readAcked"] \subseteq readAt /\ t["deliveryAcked"] \subseteq delivered

Receipts ==
    /\ TicketsReal
    /\ RequestsKnown
    /\ open => Acked(mem) /\ Acked(disk)

Cause == forgets > 0 \/ ForgetOwed

Hints ==
    /\ (hint # NoHint /\ hint # Undelivered) => tainted \/ Cause
    /\ (counting # NoHint /\ counting # Undelivered) => crossed \/ Cause

IInv == TypeOK /\ Receipts /\ Hints

-----------------------------------------------------------------------------
(* The thread.                                                             *)

LEMMA NoThreadFacts == NoThread \in Thread /\ \A f \in Flags : NoThread[f] = {}
  BY DEF NoThread, Thread

LEMMA NoAckFacts == NoAck \in [at : AckStages, d : SUBSET Ids, r : SUBSET Ids, hit : BOOLEAN]
  BY DEF NoAck, AckStages

LEMMA NewestIsPart == ASSUME NEW S PROVE Newest(S) \subseteq S
  BY DEF Newest

LEMMA MergeFacts ==
  ASSUME NEW t \in Thread, NEW ids \in SUBSET Ids, NEW read \in SUBSET Ids
  PROVE  /\ Merge(t, ids, read) \in Thread
         /\ \A f \in Flags \ {"held"} : Merge(t, ids, read)[f] \subseteq t[f] \cup read
<1>. DEFINE kept == Newest(t["held"] \cup ids)
<1>1. t["held"] \in SUBSET Ids /\ \A f \in Flags : t[f] \in SUBSET Ids
  BY DEF Thread, Flags
<1>2. kept \subseteq Ids
  BY <1>1, NewestIsPart
<1>. HIDE DEF kept
<1>3. Merge(t, ids, read) =
        [f \in Flags |-> (IF f = "held" THEN kept ELSE t[f] \cup read) \cap kept]
  BY DEF Merge, kept
<1>. QED
  BY <1>1, <1>2, <1>3 DEF Thread

LEMMA FlagFacts ==
  ASSUME NEW t \in Thread, NEW fs, NEW S
  PROVE  /\ Flag(t, fs, S) \in Thread
         /\ \A f \in Flags : Flag(t, fs, S)[f] \subseteq t[f] \cup (S \cap t["held"])
         /\ \A f \in Flags \ fs : Flag(t, fs, S)[f] = t[f]
<1>1. t["held"] \in SUBSET Ids /\ \A f \in Flags : t[f] \in SUBSET Ids
  BY DEF Thread, Flags
<1>. QED
  BY <1>1 DEF Flag, Thread

LEMMA SettledFacts ==
  ASSUME NEW t \in Thread, NEW d, NEW r
  PROVE  /\ Settled(t, d, r) \in Thread
         /\ Settled(t, d, r)["read"] = t["read"]
         /\ Settled(t, d, r)["readAcked"] \subseteq t["readAcked"] \cup r
         /\ Settled(t, d, r)["deliveryAcked"] \subseteq t["deliveryAcked"] \cup d \cup r
<1>. DEFINE u == Flag(t, {"deliveryAcked"}, d \cup r)
<1>1. u \in Thread
  BY FlagFacts
<1>2. /\ u["read"] = t["read"] /\ u["readAcked"] = t["readAcked"]
      /\ u["deliveryAcked"] \subseteq t["deliveryAcked"] \cup d \cup r
  BY FlagFacts DEF Flags
<1>. HIDE DEF u
<1>3. LET v == Flag(u, {"readAcked"}, r) IN
        /\ v \in Thread /\ v["read"] = u["read"] /\ v["deliveryAcked"] = u["deliveryAcked"]
        /\ v["readAcked"] \subseteq u["readAcked"] \cup r
  BY <1>1, FlagFacts DEF Flags
<1>4. Settled(t, d, r) = Flag(u, {"readAcked"}, r)
  BY DEF Settled, u
<1>. QED
  BY <1>2, <1>3, <1>4

LEMMA OwedFacts ==
  ASSUME NEW t \in Thread
  PROVE  /\ OwedRead(t) \subseteq t["read"] /\ OwedRead(t) \subseteq Ids
         /\ OwedDelivered(t) \subseteq Ids /\ ToAnnounce(t) \subseteq Ids
  BY DEF OwedRead, OwedDelivered, ToAnnounce, Thread, Flags

LEMMA CountFacts == TypeOK => Undelivered \in Ids \cup {0}
<1>. SUFFICES ASSUME TypeOK PROVE Undelivered \in Ids \cup {0}
  OBVIOUS
<1>1. sent \in Nat /\ sent <= MaxMessages /\ MaxMessages \in Nat
  BY ParameterAssumption DEF TypeOK
<1>2. IsFiniteSet(1..sent) /\ Cardinality(1..sent) = sent
  BY <1>1, FS_Interval
<1>3. Cardinality((1..sent) \ delivered) <= sent /\ IsFiniteSet((1..sent) \ delivered)
  BY <1>2, FS_Subset
<1>4. Cardinality((1..sent) \ delivered) \in Nat
  BY <1>3, FS_CardinalityType
<1>. QED
  BY <1>1, <1>3, <1>4 DEF Undelivered, Ids

-----------------------------------------------------------------------------
LEMMA InitHolds == Init => IInv
<1>. SUFFICES ASSUME Init PROVE IInv
  OBVIOUS
<1>1. TypeOK
  <2>1. sent \in 0..MaxMessages /\ forgets \in 0..1 /\ faults \in 0..MaxFaults
    BY ParameterAssumption DEF Init
  <2>2. mem \in Thread /\ disk \in Thread
    BY NoThreadFacts DEF Init
  <2>3. ack \in [at : AckStages, d : SUBSET Ids, r : SUBSET Ids, hit : BOOLEAN]
    BY NoAckFacts DEF Init
  <2>. QED
    BY <2>1, <2>2, <2>3 DEF Init, TypeOK
<1>2. Receipts
  BY NoThreadFacts DEF Init, Receipts, TicketsReal, RequestsKnown, Acked, NoAck, Flags
<1>. QED
  BY <1>1, <1>2 DEF IInv, Init, Hints



-----------------------------------------------------------------------------
(* Types.                                                                  *)

LEMMA CacheTypes ==
  ASSUME TypeOK, Forget \/ FailToForget \/ UNCHANGED Cache
  PROVE  /\ hint' \in Ids \cup {NoHint, 0} /\ counting' \in Ids \cup {NoHint, 0}
         /\ tainted' \in BOOLEAN /\ crossed' \in BOOLEAN
  BY DEF TypeOK, Forget, FailToForget, Cache

LEMMA AckTypes ==
  ASSUME TypeOK, NEW x \in AckStages, NEW b \in BOOLEAN,
         \/ ack' = [ack EXCEPT !.at = x] \/ ack' = [ack EXCEPT !.at = x, !.hit = b]
         \/ ack' = NoAck \/ ack' = ack
  PROVE  ack' \in [at : AckStages, d : SUBSET Ids, r : SUBSET Ids, hit : BOOLEAN]
  BY NoAckFacts DEF TypeOK

LEMMA HearType ==
  ASSUME wake \in BOOLEAN, NEW n, Hear(n)
  PROVE  wake' \in BOOLEAN
<1>. DEFINE heard == wake \/ n > 0 \/ Owes(mem)
<1>1. heard \in BOOLEAN
  BY Zenon
<1>2. wake' \in {wake, heard}
  BY DEF Hear, heard
<1>. HIDE DEF heard
<1>. QED
  BY <1>1, <1>2

LEMMA ServerTypes ==
  ASSUME TypeOK,
         \/ Send \/ ForgetAfterSend \/ Close \/ Lapse
         \/ HintFromCache \/ CountPending \/ FillHint
         \/ AckReads \/ AckDelivered \/ AckForget \/ AckFails \/ AckRefused
  PROVE  TypeOK'
<1>1. CASE Send
  BY <1>1, ParameterAssumption DEF Send, TypeOK, Cache, phone
<1>2. CASE ForgetAfterSend
  BY <1>2, CacheTypes DEF ForgetAfterSend, TypeOK, Cache, phone
<1>3. CASE Close
  <2>1. open' \in BOOLEAN
    BY <1>3 DEF Close
  <2>2. UNCHANGED <<sent, delivered, readAt, Cache, forgets, ack, phone, faults>>
    BY <1>3 DEF Close
  <2>. QED
    BY <2>1, <2>2 DEF TypeOK, Cache, phone
<1>10. CASE Lapse
  <2>1. hint' \in {NoHint} /\ tainted' \in BOOLEAN
    BY <1>10 DEF Lapse
  <2>. QED
    BY <1>10, <2>1 DEF Lapse, TypeOK, phone
<1>4. CASE HintFromCache
  <2>1. wake' \in BOOLEAN
    BY <1>4, HearType DEF HintFromCache, TypeOK
  <2>. QED
    BY <1>4, <2>1 DEF HintFromCache, Listening, TypeOK, server
<1>5. CASE CountPending
  BY <1>5, CountFacts DEF CountPending, TypeOK, phone
<1>6. CASE FillHint
  <2>1. wake' \in BOOLEAN
    BY <1>6, HearType DEF FillHint, TypeOK
  <2>. QED
    BY <1>6, <2>1 DEF FillHint, Listening, TypeOK
<1>7. CASE AckReads
  <2>1. ack' \in [at : AckStages, d : SUBSET Ids, r : SUBSET Ids, hit : BOOLEAN]
    BY <1>7, AckTypes DEF AckReads, AckStages
  <2>2. readAt' \subseteq Ids /\ delivered' \subseteq Ids
    BY <1>7 DEF AckReads, TypeOK
  <2>3. UNCHANGED <<sent, open, Cache, forgets, phone, faults>>
    BY <1>7 DEF AckReads
  <2>. QED
    BY <2>1, <2>2, <2>3 DEF TypeOK, Cache, phone
<1>8. CASE AckDelivered
  <2>1. ack' \in [at : AckStages, d : SUBSET Ids, r : SUBSET Ids, hit : BOOLEAN]
    BY <1>8, AckTypes DEF AckDelivered, Outcome, AckStages
  <2>2. delivered' \subseteq Ids
    BY <1>8 DEF AckDelivered, TypeOK
  <2>3. UNCHANGED <<sent, readAt, open, Cache, forgets, phone, faults>>
    BY <1>8 DEF AckDelivered
  <2>. QED
    BY <2>1, <2>2, <2>3 DEF TypeOK, Cache, phone
<1>9. CASE AckForget \/ AckFails \/ AckRefused
  <2>1. ack' \in [at : AckStages, d : SUBSET Ids, r : SUBSET Ids, hit : BOOLEAN]
    BY <1>9, AckTypes DEF AckForget, AckFails, AckRefused, Outcome, AckStages
  <2>2. Forget \/ FailToForget \/ UNCHANGED Cache
    BY <1>9 DEF AckForget, AckFails, AckRefused
  <2>3. /\ UNCHANGED <<sent, delivered, readAt, open, forgets, phone, faults>>
        /\ hint' \in Ids \cup {NoHint, 0} /\ counting' \in Ids \cup {NoHint, 0}
        /\ tainted' \in BOOLEAN /\ crossed' \in BOOLEAN
    BY <1>9, <2>2, CacheTypes DEF AckForget, AckFails, AckRefused
  <2>. QED
    BY <2>1, <2>3 DEF TypeOK, phone
<1>. QED
  BY <1>1, <1>2, <1>3, <1>4, <1>5, <1>6, <1>7, <1>8, <1>9, <1>10

LEMMA PhoneTypes ==
  ASSUME TypeOK,
         \/ Ask \/ Fetch \/ Skip \/ Save \/ Post \/ Mark \/ Push \/ Settle \/ GiveUp
         \/ \E i \in Ids : Read(i)
         \/ RunOutOfTime \/ PushRead \/ Flush \/ Crash \/ Cancel \/ HandOver \/ End \/ Clear
  PROVE  TypeOK'
<1>0. CASE Ask
  BY <1>0 DEF Ask, Listening, TypeOK, server
<1>1. CASE Post \/ RunOutOfTime \/ PushRead
  BY <1>1 DEF Post, RunOutOfTime, PushRead, TypeOK, server
<1>10. CASE Flush \/ End
  BY <1>10 DEF Flush, End, TypeOK, server
<1>2. CASE Fetch
  <2>1. work' \subseteq Ids
    <3>1. 1..sent \subseteq Ids
      BY ParameterAssumption DEF TypeOK, Ids
    <3>. QED
      BY <1>2, <3>1, NewestIsPart DEF Fetch
  <2>. QED
    BY <1>2, <2>1 DEF Fetch, TypeOK, server
<1>3. CASE Save
  <2>1. mem' \in Thread /\ work' \subseteq Ids
    BY <1>3, MergeFacts, OwedFacts DEF Save, TypeOK
  <2>. QED
    BY <1>3, <2>1 DEF Save, TypeOK, server
<1>4. CASE Mark \/ \E i \in Ids : Read(i)
  <2>1. mem \in Thread
    BY DEF TypeOK
  <2>2. Flag(mem, {"notified"}, work) \in Thread
    BY <2>1, FlagFacts
  <2>3. mem' \in Thread
    <3>1. ASSUME NEW i \in Ids, Read(i) PROVE mem' \in Thread
      BY <2>1, <3>1, FlagFacts DEF Read
    <3>. QED
      BY <1>4, <2>2, <3>1 DEF Mark
  <2>. QED
    BY <1>4, <2>3 DEF Mark, Read, TypeOK, server
<1>5. CASE Push
  <2>1. ack' \in [at : AckStages, d : SUBSET Ids, r : SUBSET Ids, hit : BOOLEAN]
    <3>1. OwedRead(mem) \subseteq Ids /\ OwedDelivered(mem) \subseteq Ids
      BY OwedFacts DEF TypeOK
    <3>2. CASE UNCHANGED ack
      BY <3>2 DEF TypeOK
    <3>3. CASE ack' = [at |-> "reads", d |-> OwedDelivered(mem), r |-> OwedRead(mem), hit |-> FALSE]
      BY <3>1, <3>3 DEF AckStages
    <3>. QED
      BY <1>5, <3>2, <3>3 DEF Push
  <2>. QED
    BY <1>5, <2>1 DEF Push, TypeOK, Cache
<1>6. CASE Settle
  <2>1. mem' \in Thread
    BY <1>6, SettledFacts DEF Settle, TypeOK
  <2>. QED
    BY <1>6, <2>1, NoAckFacts DEF Settle, TypeOK, Cache
<1>7. CASE GiveUp \/ Crash \/ HandOver
  <2>1. ack' \in [at : AckStages, d : SUBSET Ids, r : SUBSET Ids, hit : BOOLEAN]
    BY <1>7, AckTypes DEF GiveUp, Crash, HandOver, DropAnswer, TypeOK
  <2>2. faults' \in 0..MaxFaults
    BY <1>7, ParameterAssumption DEF GiveUp, Crash, HandOver, Fail, TypeOK
  <2>. QED
    BY <1>7, <2>1, <2>2, NoThreadFacts DEF GiveUp, Crash, HandOver, TypeOK, Cache
<1>8. CASE Cancel
  BY <1>8, ParameterAssumption DEF Cancel, Fail, TypeOK, server
<1>9. CASE Skip \/ Clear
  BY <1>9, NoThreadFacts DEF Skip, Clear, Wipe, TypeOK, server
<1>. QED
  BY <1>0, <1>1, <1>2, <1>3, <1>4, <1>5, <1>6, <1>7, <1>8, <1>9, <1>10

LEMMA TypeStep == TypeOK /\ [Next]_vars => TypeOK'
<1>1. CASE UNCHANGED vars
  BY <1>1 DEF TypeOK, vars, server, phone
<1>. QED
  BY <1>1, ServerTypes, PhoneTypes DEF Next

-----------------------------------------------------------------------------
(* Receipts.                                                               *)

\* Most steps touch no receipt; rows are only ever added to.
ReceiptVars == <<delivered, readAt, open, ack, mem, disk, seen, readBy>>

LEMMA ReceiptsStay == Receipts /\ UNCHANGED ReceiptVars => Receipts'
  BY DEF Receipts, TicketsReal, RequestsKnown, Acked, ReceiptVars

LEMMA ServerReceipts ==
  ASSUME TypeOK, Receipts,
         \/ Send \/ ForgetAfterSend \/ Close \/ Lapse
         \/ HintFromCache \/ CountPending \/ FillHint
         \/ AckReads \/ AckDelivered \/ AckForget \/ AckFails \/ AckRefused
  PROVE  Receipts'
<1>. USE DEF Receipts, TicketsReal, RequestsKnown, Acked
<1>1. CASE Send \/ ForgetAfterSend \/ Lapse \/ HintFromCache \/ CountPending \/ FillHint
  <2>1. UNCHANGED ReceiptVars
    BY <1>1 DEF Send, ForgetAfterSend, Lapse, HintFromCache, CountPending, FillHint,
       Listening, ReceiptVars, server, phone
  <2>. QED
    BY <2>1, ReceiptsStay
<1>2. CASE Close
  BY <1>2 DEF Close, phone
<1>3. CASE AckReads
  <2>1. /\ ack'.at = "delivered" /\ ack'.r = ack.r
        /\ readAt' = readAt \cup ack.r /\ delivered' = delivered \cup ack.r
        /\ UNCHANGED <<open, mem, disk, seen, readBy>>
    BY <1>3 DEF AckReads, TypeOK, phone
  <2>. QED
    BY <2>1
<1>4. CASE AckDelivered
  <2>1. /\ \/ ack'.at \in {"forget", "done"} /\ ack'.r = ack.r /\ ack'.d = ack.d
           \/ ack'.at = "none" /\ ack'.r = {}
        /\ ack.at = "delivered"
        /\ delivered' = delivered \cup ack.d
        /\ UNCHANGED <<readAt, open, mem, disk, seen, readBy>>
    <3>1. CASE ack' = [ack EXCEPT !.at = "forget", !.hit = TRUE]
      BY <1>4, <3>1 DEF AckDelivered, TypeOK, phone
    <3>2. CASE Outcome("done")
      BY <1>4, <3>2 DEF AckDelivered, Outcome, NoAck, TypeOK, phone
    <3>. QED
      BY <1>4, <3>1, <3>2 DEF AckDelivered
  <2>. QED
    BY <2>1
<1>5. CASE AckForget
  <2>1. /\ \/ ack'.at = "done" /\ ack'.r = ack.r /\ ack'.d = ack.d
           \/ ack'.at = "none" /\ ack'.r = {}
        /\ ack.at = "forget"
        /\ UNCHANGED <<delivered, readAt, open, mem, disk, seen, readBy>>
    BY <1>5 DEF AckForget, Outcome, NoAck, TypeOK, phone
  <2>. QED
    BY <2>1
<1>6. CASE AckFails \/ AckRefused
  <2>1. /\ \/ ack'.at = "refused" /\ ack'.r = ack.r /\ ~open
           \/ ack'.at = "none" /\ ack'.r = {}
        /\ UNCHANGED <<delivered, readAt, open, mem, disk, seen, readBy>>
    BY <1>6 DEF AckFails, AckRefused, Outcome, NoAck, TypeOK, phone
  <2>. QED
    BY <2>1
<1>. QED
  BY <1>1, <1>2, <1>3, <1>4, <1>5, <1>6

LEMMA PhoneReceipts ==
  ASSUME TypeOK, Receipts,
         \/ Ask \/ Fetch \/ Skip \/ Save \/ Post \/ Mark \/ Push \/ Settle \/ GiveUp
         \/ \E i \in Ids : Read(i)
         \/ RunOutOfTime \/ PushRead \/ Flush \/ Crash \/ Cancel \/ HandOver \/ End \/ Clear
  PROVE  Receipts'
<1>. USE DEF Receipts, TicketsReal, RequestsKnown, Acked
<1>0. mem \in Thread /\ disk \in Thread
  BY DEF TypeOK
<1>1. CASE Ask \/ Post \/ RunOutOfTime \/ PushRead \/ Cancel \/ End
  <2>1. UNCHANGED ReceiptVars
    BY <1>1 DEF Ask, Post, RunOutOfTime, PushRead, Cancel, End, Listening, ReceiptVars, server
  <2>. QED
    BY <2>1, ReceiptsStay
<1>2. CASE Fetch
  BY <1>2 DEF Fetch, server
<1>3. CASE Save
  <2>1. /\ mem'["read"] \subseteq mem["read"] \cup seen
        /\ mem'["readAcked"] \subseteq mem["readAcked"] \cup seen
        /\ mem'["deliveryAcked"] \subseteq mem["deliveryAcked"] \cup seen
    BY <1>0, <1>3, MergeFacts DEF Save, TypeOK, Flags
  <2>. QED
    BY <1>3, <2>1 DEF Save, server
<1>4. CASE Mark
  <2>1. /\ mem'["read"] = mem["read"] /\ mem'["readAcked"] = mem["readAcked"]
        /\ mem'["deliveryAcked"] = mem["deliveryAcked"]
    BY <1>0, <1>4, FlagFacts DEF Mark, Flags
  <2>. QED
    BY <1>4, <2>1 DEF Mark, server
<1>5. ASSUME NEW i \in Ids, Read(i) PROVE Receipts'
  <2>1. /\ mem'["read"] \subseteq mem["read"] \cup ({i} \cap mem["held"])
        /\ mem'["readAcked"] = mem["readAcked"]
        /\ mem'["deliveryAcked"] = mem["deliveryAcked"]
    BY <1>0, <1>5, FlagFacts DEF Read, Flags
  <2>. QED
    BY <1>5, <2>1 DEF Read, server
<1>6. CASE Push
  <2>1. /\ \/ UNCHANGED ack
           \/ ack'.at = "reads" /\ ack'.r = OwedRead(mem)
        /\ UNCHANGED <<delivered, readAt, open, mem, disk, seen, readBy>>
    BY <1>6 DEF Push
  <2>. QED
    BY <1>0, <2>1, OwedFacts
<1>7. CASE Settle
  <2>1. /\ mem'["read"] = mem["read"]
        /\ mem'["readAcked"] \subseteq mem["readAcked"] \cup ack.r
        /\ mem'["deliveryAcked"] \subseteq mem["deliveryAcked"] \cup ack.d \cup ack.r
    BY <1>0, <1>7, SettledFacts DEF Settle
  <2>2. ack'.at = "none" /\ ack'.r = {}
    BY <1>7 DEF Settle, NoAck
  <2>. QED
    BY <1>7, <2>1, <2>2 DEF Settle
<1>8. CASE GiveUp \/ Crash \/ HandOver
  <2>1. UNCHANGED ack \/ (ack'.at = "none" /\ ack'.r = {})
    BY <1>8 DEF GiveUp, Crash, HandOver, DropAnswer, NoAck
  <2>2. /\ mem' \in {mem, disk, NoThread} /\ disk' \in {disk, NoThread}
        /\ seen' = {}
        /\ UNCHANGED <<delivered, readAt, open, readBy>>
    BY <1>8 DEF GiveUp, Crash, HandOver
  <2>. QED
    BY <2>1, <2>2, NoThreadFacts DEF Flags
<1>9. CASE Flush
  BY <1>9 DEF Flush, server
<1>10. CASE Skip \/ Clear
  BY <1>10, NoThreadFacts DEF Skip, Clear, Wipe, server, Flags
<1>. QED
  BY <1>1, <1>2, <1>3, <1>4, <1>5, <1>6, <1>7, <1>8, <1>9, <1>10

LEMMA ReceiptsStep == TypeOK /\ Receipts /\ [Next]_vars => Receipts'
<1>1. CASE UNCHANGED vars
  BY <1>1, ReceiptsStay DEF vars, server, phone, ReceiptVars
<1>. QED
  BY <1>1, ServerReceipts, PhoneReceipts DEF Next

-----------------------------------------------------------------------------
(* Hints.                                                                  *)

HintVars == <<Cache, forgets, sent, delivered>>

\* Nothing is counted differently and no DEL stops being owed.
LEMMA HintsStay ==
  ASSUME Hints, UNCHANGED HintVars, ForgetOwed => ForgetOwed'
  PROVE  Hints'
  BY DEF Hints, HintVars, Cache, Cause, Undelivered

\* A DEL, done or failed, settles what was owed before.
LEMMA HintsCleared ==
  ASSUME TypeOK, Hints, Forget \/ FailToForget
  PROVE  Hints'
  BY DEF TypeOK, Hints, Forget, FailToForget

LEMMA ServerHints ==
  ASSUME TypeOK, Receipts, Hints,
         \/ Send \/ ForgetAfterSend \/ Close \/ Lapse
         \/ HintFromCache \/ CountPending \/ FillHint
         \/ AckReads \/ AckDelivered \/ AckForget \/ AckFails \/ AckRefused
  PROVE  Hints'
<1>1. CASE Send
  BY <1>1 DEF Send, Hints, Cause, TypeOK
<1>2. CASE ForgetAfterSend \/ AckForget
  BY <1>2, HintsCleared DEF ForgetAfterSend, AckForget
<1>3. CASE Close \/ HintFromCache
  <2>1. UNCHANGED HintVars /\ UNCHANGED ack
    BY <1>3 DEF Close, HintFromCache, server, HintVars, Cache
  <2>. QED
    BY <2>1, HintsStay DEF ForgetOwed
<1>4. CASE Lapse
  BY <1>4 DEF Lapse, Hints, Cause, ForgetOwed, Undelivered
<1>5. CASE CountPending
  BY <1>5 DEF CountPending, Hints, Cause, ForgetOwed, Undelivered
<1>6. CASE FillHint
  BY <1>6 DEF FillHint, Hints, Cause, ForgetOwed, Undelivered
<1>7. CASE AckReads
  <2>1. ack'.at = "delivered" /\ ack'.hit = ~(ack.r \subseteq readAt)
    BY <1>7 DEF AckReads, TypeOK
  <2>2. CASE ack.r \subseteq readAt
    <3>1. UNCHANGED HintVars
      BY <1>7, <2>2 DEF AckReads, Receipts, TicketsReal, HintVars
    <3>2. ~ForgetOwed
      BY <1>7 DEF AckReads, ForgetOwed
    <3>. QED
      BY <3>1, <3>2, HintsStay
  <2>3. CASE ~(ack.r \subseteq readAt)
    BY <2>1, <2>3 DEF Hints, Cause, ForgetOwed
  <2>. QED
    BY <2>2, <2>3
<1>8. CASE AckDelivered
  <2>1. CASE ack.hit \/ ~(ack.d \subseteq delivered)
    <3>1. ack'.at = "forget"
      BY <1>8, <2>1 DEF AckDelivered, TypeOK
    <3>. QED
      BY <3>1 DEF Hints, Cause, ForgetOwed
  <2>2. CASE ~ack.hit /\ ack.d \subseteq delivered
    <3>1. UNCHANGED HintVars
      BY <1>8, <2>2 DEF AckDelivered, HintVars
    <3>2. ~ForgetOwed
      BY <1>8, <2>2 DEF AckDelivered, ForgetOwed
    <3>. QED
      BY <3>1, <3>2, HintsStay
  <2>. QED
    BY <2>1, <2>2
<1>9. CASE AckFails
  <2>1. CASE ForgetOwed
    BY <1>9, <2>1, HintsCleared DEF AckFails
  <2>2. CASE ~ForgetOwed
    BY <1>9, <2>2, HintsStay DEF AckFails, HintVars
  <2>. QED
    BY <2>1, <2>2
<1>10. CASE AckRefused
  BY <1>10, HintsStay DEF AckRefused, HintVars, ForgetOwed
<1>. QED
  BY <1>1, <1>2, <1>3, <1>4, <1>5, <1>6, <1>7, <1>8, <1>9, <1>10

LEMMA PhoneHints ==
  ASSUME TypeOK, Hints,
         \/ Ask \/ Fetch \/ Skip \/ Save \/ Post \/ Mark \/ Push \/ Settle \/ GiveUp
         \/ \E i \in Ids : Read(i)
         \/ RunOutOfTime \/ PushRead \/ Flush \/ Crash \/ Cancel \/ HandOver \/ End \/ Clear
  PROVE  Hints'
<1>1. UNCHANGED HintVars
  BY DEF Ask, Fetch, Skip, Save, Post, Mark, Push, Settle, GiveUp, Read, RunOutOfTime,
     PushRead, Flush, Crash, Cancel, HandOver, End, Clear, server, HintVars, Cache
<1>2. UNCHANGED ack \/ ack = NoAck \/ ack.at \in {"done", "refused"}
  BY DEF Ask, Fetch, Skip, Save, Post, Mark, Push, Settle, GiveUp, Read, RunOutOfTime,
     PushRead, Flush, Crash, Cancel, HandOver, End, Clear, server, DropAnswer
<1>3. ForgetOwed => ForgetOwed'
  BY <1>2 DEF ForgetOwed, NoAck
<1>. QED
  BY <1>1, <1>3, HintsStay

LEMMA HintsStep == TypeOK /\ Receipts /\ Hints /\ [Next]_vars => Hints'
<1>1. CASE UNCHANGED vars
  BY <1>1, HintsStay DEF vars, server, HintVars, Cache, ForgetOwed
<1>. QED
  BY <1>1, ServerHints, PhoneHints DEF Next

-----------------------------------------------------------------------------
(* Announcements.  The phone holds the newest messages up to one number, so *)
(* a message that was announced and is marked no more has left the thread   *)
(* for good.                                                                *)

Window(d) == {i \in Ids : d - MaxKept < i /\ i <= d}

Windows ==
    /\ disk["notified"] \subseteq disk["held"] /\ mem["notified"] \subseteq mem["held"]
    /\ \E c \in 0..sent : disk["held"] = Window(c)
    /\ \E b \in 0..sent : /\ mem["held"] = Window(b)
                          /\ at = "fetched" => \E d \in b..sent : work = Window(d)

Marked(i) ==
    \/ i \in mem["notified"]
    \/ at = "mark" /\ i \in work
    \/ \E j \in mem["held"] : i + MaxKept <= j

Announcing ==
    /\ \A i \in posted \ excused : Marked(i)
    /\ at \in {"announce", "mark"} => work \subseteq mem["held"]
    /\ at = "announce" => work \cap posted \subseteq excused

Announcements == Windows /\ (phase = "BOUND" => Announcing)

LEMMA NewestIsWindow ==
  ASSUME NEW d \in 0..MaxMessages, NEW S, Window(d) \subseteq S, S \subseteq 1..d
  PROVE  Newest(S) = Window(d)
<1>. DEFINE Later(i) == {j \in S : j >= i}
<1>0. d \in Nat /\ d <= MaxMessages /\ MaxKept \in Nat \ {0} /\ MaxMessages \in Nat
  BY ParameterAssumption
<1>a. \A j \in S : j \in Int /\ 1 <= j /\ j <= d
  BY <1>0
<1>1. ASSUME NEW i \in Window(d) PROVE i \in Newest(S)
  <2>1. i \in Int /\ i <= d /\ d - MaxKept < i /\ i \in S
    BY <1>0 DEF Window, Ids
  <2>2. Later(i) \subseteq i..d
    <3>1. ASSUME NEW j \in Later(i) PROVE j \in i..d
      <4>1. j \in S /\ j >= i
        OBVIOUS
      <4>. QED
        BY <1>a, <2>1, <4>1
    <3>. QED
      BY <3>1
  <2>3. IsFiniteSet(i..d) /\ Cardinality(i..d) = d - i + 1
    BY <1>0, <2>1, FS_Interval
  <2>. HIDE DEF Later
  <2>4. Cardinality(Later(i)) <= d - i + 1 /\ Cardinality(Later(i)) \in Nat
    <3>1. Later(i) \in SUBSET (i..d)
      BY <2>2
    <3>2. IsFiniteSet(Later(i)) /\ Cardinality(Later(i)) <= Cardinality(i..d)
      BY <3>1, <2>3, FS_Subset, Zenon
    <3>. QED
      BY <2>3, <3>2, FS_CardinalityType
  <2>5. Cardinality(Later(i)) <= MaxKept
    BY <1>0, <2>1, <2>4
  <2>. QED
    BY <2>1, <2>5 DEF Newest, Later
<1>2. ASSUME NEW i \in Newest(S), i \notin Window(d) PROVE FALSE
  <2>1. i \in S /\ Cardinality(Later(i)) <= MaxKept
    BY <1>2 DEF Newest
  <2>2. i \in Int /\ 1 <= i /\ i <= d - MaxKept
    BY <1>0, <1>2, <2>1 DEF Window, Ids
  <2>. DEFINE T == (d - MaxKept + 1) .. d
  <2>3. IsFiniteSet(T) /\ Cardinality(T) = MaxKept
    BY <1>0, FS_Interval
  <2>4. i \notin T
    BY <1>0, <2>2
  <2>5. IsFiniteSet(T \cup {i}) /\ Cardinality(T \cup {i}) = MaxKept + 1
    BY <2>3, <2>4, FS_AddElement
  <2>6. T \cup {i} \subseteq Later(i)
    BY <1>0, <2>1, <2>2 DEF Window, Ids
  <2>7. IsFiniteSet(Later(i))
    <3>1. IsFiniteSet(1..d)
      BY <1>0, FS_Interval
    <3>2. Later(i) \in SUBSET (1..d)
      BY <1>a
    <3>. QED
      BY <3>1, <3>2, FS_Subset, Zenon
  <2>. HIDE DEF Later, T
  <2>8. MaxKept + 1 <= Cardinality(Later(i)) /\ Cardinality(Later(i)) \in Nat
    BY <2>5, <2>6, <2>7, FS_Subset, FS_CardinalityType
  <2>. QED
    BY <1>0, <2>1, <2>8
<1>3. Newest(S) \subseteq Window(d)
  BY <1>2
<1>4. Window(d) \subseteq Newest(S)
  BY <1>1
<1>. QED
  BY <1>3, <1>4

LEMMA EmptyWindow == Window(0) = {}
  BY ParameterAssumption DEF Window, Ids

\* What the merge keeps: the fetched window, and of it every flag.
LEMMA MergeKeeps ==
  ASSUME NEW t \in Thread, NEW read \in SUBSET Ids,
         NEW b \in Nat, NEW d \in b..MaxMessages, t["held"] = Window(b)
  PROVE  /\ Merge(t, Window(d), read)["held"] = Window(d)
         /\ t["notified"] \cap Window(d) \subseteq Merge(t, Window(d), read)["notified"]
         /\ Merge(t, Window(d), read)["notified"] \subseteq Window(d)
<1>1. MaxMessages \in Nat /\ MaxKept \in Nat \ {0}
  BY ParameterAssumption
<1>2. d \in 0..MaxMessages /\ Window(d) \subseteq t["held"] \cup Window(d)
      /\ t["held"] \cup Window(d) \subseteq 1..d
  BY <1>1 DEF Window, Ids
<1>3. Newest(t["held"] \cup Window(d)) = Window(d)
  BY <1>2, NewestIsWindow
<1>4. Merge(t, Window(d), read) = [f \in Flags |->
          (IF f = "held" THEN Window(d) ELSE t[f] \cup read) \cap Window(d)]
  BY <1>3 DEF Merge
<1>. QED
  BY <1>4 DEF Flags

LEMMA FlagGrows ==
  ASSUME NEW t \in Thread, NEW fs, NEW S, "held" \notin fs
  PROVE  /\ Flag(t, fs, S)["held"] = t["held"]
         /\ t["notified"] \subseteq Flag(t, fs, S)["notified"]
         /\ "notified" \in fs => S \cap t["held"] \subseteq Flag(t, fs, S)["notified"]
         /\ Flag(t, fs, S)["notified"] \subseteq t["notified"] \cup t["held"]
  BY DEF Flag, Flags

LEMMA SettledGrows ==
  ASSUME NEW t \in Thread, NEW d, NEW r
  PROVE  Settled(t, d, r)["held"] = t["held"] /\ Settled(t, d, r)["notified"] = t["notified"]
  BY DEF Settled, Flag, Flags

-----------------------------------------------------------------------------
\* What the announcements depend on.
AnnounceVars == <<phase, mem, disk, at, work, posted, excused>>

LEMMA AnnouncementsStay ==
  ASSUME TypeOK, Announcements, UNCHANGED AnnounceVars, sent' \in {sent, sent + 1}
  PROVE  Announcements'
<1>1. sent \in Nat /\ \A b \in 0..sent : b..sent \subseteq b..sent' /\ b \in 0..sent'
  BY DEF TypeOK
<1>. QED
  BY <1>1 DEF Announcements, Windows, Announcing, Marked, AnnounceVars, Window

LEMMA ServerAnnouncements ==
  ASSUME TypeOK, Announcements,
         \/ Send \/ ForgetAfterSend \/ Close \/ Lapse
         \/ HintFromCache \/ CountPending \/ FillHint
         \/ AckReads \/ AckDelivered \/ AckForget \/ AckFails \/ AckRefused
  PROVE  Announcements'
<1>1. UNCHANGED AnnounceVars
  BY DEF Send, ForgetAfterSend, Close, Lapse, HintFromCache, CountPending, FillHint,
     AckReads, AckDelivered, AckForget, AckFails, AckRefused, Listening, phone, AnnounceVars
<1>2. sent' \in {sent, sent + 1}
  BY DEF Send, ForgetAfterSend, Close, Lapse, HintFromCache, CountPending, FillHint,
     AckReads, AckDelivered, AckForget, AckFails, AckRefused, server
<1>. QED
  BY <1>1, <1>2, AnnouncementsStay

\* The fetch answers with the newest messages, and what the phone holds is older.
LEMMA FetchAnnouncements ==
  ASSUME TypeOK, Announcements, Fetch
  PROVE  Announcements'
<1>1. /\ work' = Newest(1..sent) /\ at' = "fetched"
      /\ UNCHANGED <<sent, phase, mem, disk, posted, excused>>
  BY DEF Fetch, server
<1>2. sent \in 0..MaxMessages /\ MaxMessages \in Nat
  BY ParameterAssumption DEF TypeOK
<1>3. Window(sent) \subseteq 1..sent
  BY <1>2 DEF Window, Ids
<1>4. work' = Window(sent)
  BY <1>1, <1>2, <1>3, NewestIsWindow
<1>5. Windows'
  <2>1. PICK b \in 0..sent : mem["held"] = Window(b)
    BY DEF Announcements, Windows
  <2>2. sent \in b..sent
    BY <1>2, <2>1
  <2>. QED
    BY <1>1, <1>4, <2>1, <2>2 DEF Announcements, Windows, Window
<1>6. phase = "BOUND" => Announcing'
  BY <1>1 DEF Announcements, Announcing, Marked, Fetch
<1>. QED
  BY <1>1, <1>5, <1>6 DEF Announcements

\* The merge announces nothing the phone has announced and marked.
LEMMA SaveAnnouncements ==
  ASSUME TypeOK, Announcements, Save
  PROVE  Announcements'
<1>1. /\ mem' = Merge(mem, work, seen) /\ work' = ToAnnounce(mem')
      /\ at' \in {"announce", "push"} /\ at = "fetched"
      /\ UNCHANGED <<sent, phase, disk, posted, excused>>
  BY DEF Save, server
<1>2. sent \in 0..MaxMessages /\ MaxMessages \in Nat /\ MaxKept \in Nat \ {0}
  BY ParameterAssumption DEF TypeOK
<1>3. PICK b \in 0..sent : mem["held"] = Window(b)
                           /\ \E d \in b..sent : work = Window(d)
  BY <1>1 DEF Announcements, Windows
<1>4. PICK d \in b..sent : work = Window(d)
  BY <1>3
<1>5. b \in Nat /\ d \in Nat /\ b <= d /\ d <= sent /\ d \in b..MaxMessages
  BY <1>2, <1>3, <1>4
<1>6. /\ mem'["held"] = Window(d)
      /\ mem["notified"] \cap Window(d) \subseteq mem'["notified"]
      /\ mem'["notified"] \subseteq Window(d)
  <2>1. mem \in Thread /\ work \in SUBSET Ids /\ seen \in SUBSET Ids
    BY DEF TypeOK
  <2>2. mem["held"] = Window(b) /\ mem' = Merge(mem, Window(d), seen)
    BY <1>1, <1>3, <1>4
  <2>. QED
    BY <1>5, <2>1, <2>2, MergeKeeps
<1>7. Windows'
  BY <1>1, <1>5, <1>6 DEF Announcements, Windows, Window
<1>8. ASSUME phase = "BOUND" PROVE Announcing'
  <2>1. ASSUME NEW i \in posted \ excused
        PROVE  i \in mem'["notified"] \/ (i \notin Window(d) /\ \E j \in Window(d) : i + MaxKept <= j)
    <3>0. i \in Ids
      BY DEF TypeOK
    <3>1. i \in mem["notified"] \/ \E j \in Window(b) : i + MaxKept <= j
      BY <1>1, <1>3, <1>8 DEF Announcements, Announcing, Marked
    <3>2. CASE \E j \in Window(b) : i + MaxKept <= j
      <4>1. i + MaxKept <= d /\ d \in Window(d)
        BY <1>2, <1>5, <3>0, <3>2 DEF Window, Ids
      <4>2. i \notin Window(d)
        BY <1>2, <1>5, <3>0, <4>1 DEF Window, Ids
      <4>. QED
        BY <4>1, <4>2
    <3>3. CASE i \in mem["notified"] /\ i \in Window(d)
      BY <1>6, <3>3
    <3>4. CASE i \in mem["notified"] /\ i \notin Window(d)
      <4>1. i <= d
        <5>1. i \in Window(b)
          BY <1>3, <3>4 DEF Announcements, Windows
        <5>. QED
          BY <1>5, <3>0, <5>1 DEF Window, Ids
      <4>. QED
        BY <1>2, <1>5, <3>0, <3>4, <4>1 DEF Window, Ids
    <3>. QED
      BY <3>1, <3>2, <3>3, <3>4
  <2>2. work' \subseteq Window(d) \ mem'["notified"]
    BY <1>1, <1>6 DEF ToAnnounce
  <2>3. work' \cap posted \subseteq excused
    BY <2>1, <2>2
  <2>. QED
    BY <1>1, <1>6, <2>1, <2>2, <2>3 DEF Announcing, Marked
<1>. QED
  BY <1>1, <1>7, <1>8 DEF Announcements

\* Steps that flag messages of the thread, and keep it otherwise.
LEMMA FlagAnnouncements ==
  ASSUME TypeOK, Announcements, Mark \/ Settle \/ \E i \in Ids : Read(i)
  PROVE  Announcements'
<1>0. mem \in Thread
  BY DEF TypeOK
<1>1. /\ mem'["held"] = mem["held"] /\ mem["notified"] \subseteq mem'["notified"]
      /\ mem'["notified"] \subseteq mem["notified"] \cup mem["held"]
  <2>1. CASE Mark
    BY <1>0, <2>1, FlagGrows DEF Mark
  <2>2. CASE Settle
    BY <1>0, <2>2, SettledGrows DEF Settle
  <2>3. ASSUME NEW i \in Ids, Read(i)
        PROVE  /\ mem'["held"] = mem["held"] /\ mem["notified"] \subseteq mem'["notified"]
               /\ mem'["notified"] \subseteq mem["notified"] \cup mem["held"]
    BY <1>0, <2>3, FlagGrows DEF Read
  <2>. QED
    BY <2>1, <2>2, <2>3
<1>2. UNCHANGED <<sent, phase, disk, posted, excused>>
  BY DEF Mark, Settle, Read, server
<1>3. at' # "fetched" \/ UNCHANGED <<at, work>>
  BY DEF Mark, Settle, Read
<1>4. Windows'
  BY <1>1, <1>2, <1>3 DEF Announcements, Windows, Window
<1>5. ASSUME phase = "BOUND" PROVE Announcing'
  <2>1. CASE Mark
    <3>1. at = "mark" /\ at' = "push" /\ work \subseteq mem["held"]
      BY <1>5, <2>1 DEF Mark, Announcements, Announcing
    <3>2. work \subseteq mem'["notified"]
      BY <1>0, <2>1, <3>1, FlagGrows DEF Mark
    <3>. QED
      BY <1>1, <1>2, <1>5, <3>1, <3>2 DEF Announcements, Announcing, Marked
  <2>2. CASE Settle
    BY <1>1, <1>2, <1>5, <2>2 DEF Settle, Announcements, Announcing, Marked
  <2>3. ASSUME NEW i \in Ids, Read(i) PROVE Announcing'
    <3>1. UNCHANGED <<at, work>>
      BY <2>3 DEF Read
    <3>. QED
      BY <1>1, <1>2, <1>5, <3>1 DEF Announcements, Announcing, Marked
  <2>. QED
    BY <2>1, <2>2, <2>3
<1>. QED
  BY <1>2, <1>4, <1>5 DEF Announcements

\* Steps that leave the thread alone.
LEMMA QuietAnnouncements ==
  ASSUME TypeOK, Announcements,
         Ask \/ Post \/ Push \/ GiveUp \/ RunOutOfTime \/ PushRead \/ Flush \/ Cancel \/ End
  PROVE  Announcements'
<1>0. (UNCHANGED <<sent, mem>> /\ at' # "fetched") \/ UNCHANGED <<sent, mem, at, work>>
  BY DEF Ask, Post, Push, GiveUp, RunOutOfTime, PushRead, Flush, Cancel, End, Listening, server
<1>1. disk' \in {disk, mem}
  BY DEF Ask, Post, Push, GiveUp, RunOutOfTime, PushRead, Flush, Cancel, End, Listening
<1>2. Windows'
  BY <1>0, <1>1 DEF Announcements, Windows, Window
<1>3. ASSUME phase' = "BOUND" PROVE Announcing'
  <2>0. phase = "BOUND"
    BY <1>3 DEF Ask, Post, Push, GiveUp, RunOutOfTime, PushRead, Flush, Cancel, End, Listening
  <2>1. CASE Post
    BY <2>0, <2>1 DEF Post, Announcements, Announcing, Marked
  <2>2. CASE Cancel
    BY <2>0, <2>2 DEF Cancel, Announcements, Announcing, Marked
  <2>3. CASE Push \/ PushRead \/ GiveUp
    BY <2>0, <2>3 DEF Push, PushRead, GiveUp, Announcements, Announcing, Marked
  <2>4. CASE Ask \/ RunOutOfTime \/ Flush \/ End
    <3>1. UNCHANGED <<mem, at, work, posted, excused>>
      BY <2>4 DEF Ask, RunOutOfTime, Flush, End, Listening
    <3>. QED
      BY <2>0, <3>1 DEF Announcements, Announcing, Marked
  <2>. QED
    BY <2>1, <2>2, <2>3, <2>4
<1>. QED
  BY <1>2, <1>3 DEF Announcements

\* Steps that replace the thread.
LEMMA WipeAnnouncements ==
  ASSUME TypeOK, Announcements, Skip \/ Crash \/ HandOver \/ Clear
  PROVE  Announcements'
<1>1. sent' = sent /\ 0 \in 0..sent
  BY DEF Skip, Crash, HandOver, Clear, server, TypeOK
<1>2. /\ NoThread["held"] = Window(0) /\ NoThread["notified"] = {}
  BY NoThreadFacts, EmptyWindow DEF Flags
<1>3. /\ mem' \in {mem, disk, NoThread} /\ disk' \in {disk, NoThread}
      /\ at' # "fetched" \/ (UNCHANGED <<at, work>> /\ mem' \in {mem, NoThread})
  BY DEF Skip, Crash, HandOver, Clear, Wipe
<1>4. Windows'
  <2>1. PICK c \in 0..sent : disk["held"] = Window(c)
    BY DEF Announcements, Windows
  <2>2. PICK b \in 0..sent : /\ mem["held"] = Window(b)
                             /\ at = "fetched" => \E d \in b..sent : work = Window(d)
    BY DEF Announcements, Windows
  <2>3. \E x \in 0..sent : disk'["held"] = Window(x)
    BY <1>1, <1>2, <1>3, <2>1
  <2>4. CASE at' # "fetched"
    BY <1>1, <1>2, <1>3, <2>1, <2>2, <2>3, <2>4 DEF Announcements, Windows, Window
  <2>5. CASE UNCHANGED <<at, work>> /\ mem' = mem
    BY <1>1, <1>2, <1>3, <2>2, <2>3, <2>5 DEF Announcements, Windows, Window
  <2>6. CASE UNCHANGED <<at, work>> /\ mem' = NoThread
    <3>1. \A d \in b..sent : d \in 0..sent
      BY <2>2
    <3>. QED
      BY <1>1, <1>2, <1>3, <2>2, <2>3, <2>6, <3>1 DEF Announcements, Windows, Window
  <2>. QED
    BY <1>3, <2>4, <2>5, <2>6
<1>5. ASSUME phase' = "BOUND" PROVE Announcing'
  <2>1. CASE Skip
    BY <1>5, <2>1 DEF Skip, Announcements, Announcing, Marked
  <2>2. CASE Crash
    BY <1>5, <2>2 DEF Crash, Announcements, Announcing, Marked
  <2>3. CASE HandOver
    BY <1>5, <2>3 DEF HandOver, Announcing, Marked
  <2>4. CASE Clear
    BY <1>5, <2>4 DEF Clear
  <2>. QED
    BY <2>1, <2>2, <2>3, <2>4
<1>. QED
  BY <1>4, <1>5 DEF Announcements

LEMMA AnnouncementsStep == TypeOK /\ Announcements /\ [Next]_vars => Announcements'
<1>1. CASE UNCHANGED vars
  BY <1>1, AnnouncementsStay DEF vars, server, phone, AnnounceVars
<1>. QED
  BY <1>1, ServerAnnouncements, FetchAnnouncements, SaveAnnouncements, FlagAnnouncements,
     QuietAnnouncements, WipeAnnouncements DEF Next

LEMMA AnnouncementsInit == Init => Announcements
<1>. SUFFICES ASSUME Init PROVE Announcements
  OBVIOUS
<1>1. 0 \in 0..sent /\ NoThread["held"] = Window(0) /\ NoThread["notified"] = {}
  BY NoThreadFacts, EmptyWindow DEF Init, Flags
<1>2. Windows
  BY <1>1 DEF Init, Windows
<1>. QED
  BY <1>2 DEF Init, Announcements, Announcing

-----------------------------------------------------------------------------
(* The inductive invariant holds in every reachable state.                 *)
THEOREM Invariance == Spec => []IInv
<1>1. IInv /\ [Next]_vars => IInv'
  BY TypeStep, ReceiptsStep, HintsStep DEF IInv
<1>. QED
  BY InitHolds, <1>1, PTL DEF Spec

(* The variables of the desk, the cache and the phone keep their types     *)
(* (MessagesService, MessageRepository).                                   *)
THEOREM TypeCorrect == Spec => []TypeOK
<1>1. IInv => TypeOK
  BY DEF IInv
<1>. QED
  BY <1>1, Invariance, PTL

(* A message is shown as read only if the driver pressed "read" on it      *)
(* (acknowledge and the merge of what the server knows).                   *)
THEOREM TicksAreHonest == Spec => []TicksHonest
<1>1. IInv => TicksHonest
  BY DEF IInv, Receipts, TicketsReal, TicksHonest
<1>. QED
  BY <1>1, Invariance, PTL

(* The phone forgets that it owes a receipt only once the row has it       *)
(* (pushReceipts and settle against the two UPDATEs of acknowledge).       *)
THEOREM ReceiptsAreKept == Spec => []ReceiptsSettleLast
<1>1. IInv => ReceiptsSettleLast
  BY DEF IInv, Receipts, Acked, ReceiptsSettleLast, Running
<1>. QED
  BY <1>1, Invariance, PTL

(* The hint of an ingest answer is wrong only while a DEL is on its way,   *)
(* or because one failed or was passed by an older count (pendingCount).   *)
THEOREM StaleHintsHaveACause == Spec => []StaleHintHasACause
<1>1. IInv => StaleHintHasACause
  BY DEF IInv, Hints, Cause, StaleHintHasACause
<1>. QED
  BY <1>1, Invariance, PTL

(* No message is announced twice unless the pass that announced it was cut *)
(* short before it could mark it, however often the thread was fetched,    *)
(* trimmed, wiped and handed over (syncNow, notifyUnannounced).            *)
THEOREM EachIsAnnouncedOnce == Spec => AnnouncedOnce
<1>1. Announcements => (phase = "BOUND" /\ at = "announce" /\ at' = "mark"
                           => work \cap posted \subseteq excused)
  BY DEF Announcements, Announcing
<1>2. Spec => []Announcements
  BY AnnouncementsInit, AnnouncementsStep, TypeCorrect, PTL DEF Spec
<1>. QED
  BY <1>1, <1>2, PTL DEF Spec, AnnouncedOnce

=============================================================================

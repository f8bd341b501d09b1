-------------------------- MODULE Delivery_Proofs --------------------------
(***************************************************************************)
(* Theorems about the pipeline from fix to database row: first what the     *)
(* phone keeps on its own (PointBuffer), for any network and any server,    *)
(* then the two ends together.  Every step of Delivery is a step of the     *)
(* phone or leaves it alone; of the server no more is needed here than the  *)
(* types of its rows.                                                      *)
(***************************************************************************)
EXTENDS Delivery, FiniteSetTheorems, WellFoundedInduction, TLAPS

\* tlapm takes the Cardinality of an instance for an operator of its own.
LEMMA PhoneCount == \A S : Phone!Cardinality(S) = Cardinality(S)
  BY DEF Phone!Cardinality, Cardinality

-----------------------------------------------------------------------------
(* Helpers: the oldest rows, and the rows in flight after an update.        *)

LEMMA OldestSubset == ASSUME NEW S, NEW n PROVE Phone!Oldest(S, n) \subseteq S
  BY DEF Phone!Oldest

\* LIMIT 1 takes the one oldest row of a table that is not empty.
LEMMA OldestOne ==
    ASSUME NEW S, S \subseteq Nat, S # {}
    PROVE  \E p \in S : Phone!Oldest(S, 1) = {p} /\ \A q \in S : p <= q
<1>1. PICK p \in S : \A q \in S : <<q, p>> \notin OpToRel(<, Nat)
  BY NatLessThanWellFounded, WFMin, Zenon
<1>2. \A q \in S : ~(q < p)
  BY <1>1, Zenon DEF OpToRel
<1>3. {q \in S : q < p} = {}
  BY <1>2, Zenon
<1>4. p \in Phone!Oldest(S, 1)
  BY PhoneCount, <1>3, FS_EmptySet DEF Phone!Oldest
<1>5. \A q \in S : p <= q
  BY <1>2
<1>6. ASSUME NEW q \in Phone!Oldest(S, 1) PROVE q = p
  <2>1. q \in S /\ Cardinality({r \in S : r < q}) < 1
    BY PhoneCount DEF Phone!Oldest
  <2>2. SUFFICES ASSUME q # p PROVE FALSE
    OBVIOUS
  <2>3. p \in {r \in S : r < q}
    BY <1>5, <2>1, <2>2
  <2>4. IsFiniteSet({r \in S : r < q})
    BY <2>1, FS_BoundedSetOfNaturals
  <2>5. Cardinality({r \in S : r < q}) \in Nat \ {0}
    BY <2>3, <2>4, FS_EmptySet, FS_CardinalityType
  <2>. QED
    BY <2>1, <2>5
<1>. QED
  BY <1>4, <1>5, <1>6

LEMMA InFlightSet ==
    ASSUME NEW b \in Batches, NEW X,
           claimed \in [Batches -> SUBSET Points], claimed[b] = {},
           claimed' = [claimed EXCEPT ![b] = X]
    PROVE  Phone!InFlight' = Phone!InFlight \cup X
  BY DEF Phone!InFlight

LEMMA InFlightCleared ==
    ASSUME NEW b \in Batches,
           claimed \in [Batches -> SUBSET Points],
           claimed' = [claimed EXCEPT ![b] = {}]
    PROVE  Phone!InFlight' \cup claimed[b] = Phone!InFlight
  BY DEF Phone!InFlight

LEMMA InFlightReset ==
    ASSUME claimed \in [Batches -> SUBSET Points], stale \subseteq Batches,
           claimed' = [b \in Batches |-> IF b \in stale THEN {} ELSE claimed[b]]
    PROVE  Phone!InFlight' \cup UNION {claimed[b] : b \in stale} = Phone!InFlight
  BY DEF Phone!InFlight

-----------------------------------------------------------------------------
(* Type correctness.                                                       *)

LEMMA PhoneInitTypes == Phone!Init => Phone!TypeOK
<1>1. Phone!Init => entered \in BOOLEAN
  BY Zenon DEF Phone!Init
<1>. QED
  BY <1>1, SizeAssumption DEF Phone!Init, Phone!TypeOK

LEMMA PhoneTypeStep == Phone!TypeOK /\ [Phone!Next]_(Phone!bufferVars) => Phone!TypeOK'
<1>. SUFFICES ASSUME Phone!TypeOK, [Phone!Next]_(Phone!bufferVars) PROVE Phone!TypeOK'
  OBVIOUS
<1>. USE DEF Phone!TypeOK
<1>1. ASSUME NEW p \in Points, Phone!StoreFix(p) PROVE Phone!TypeOK'
  BY <1>1, OldestSubset DEF Phone!StoreFix
<1>2. ASSUME NEW p \in Points, Phone!LogOverflow(p) PROVE Phone!TypeOK'
  BY <1>2 DEF Phone!LogOverflow
<1>3. ASSUME NEW b \in Batches, Phone!ClaimBatch(b) PROVE Phone!TypeOK'
  BY <1>3, OldestSubset DEF Phone!ClaimBatch, Phone!NextChunk
<1>4. ASSUME NEW b \in Batches, Phone!DeleteBatch(b) PROVE Phone!TypeOK'
  BY <1>4, SizeAssumption DEF Phone!DeleteBatch
<1>5. ASSUME NEW b \in Batches, NEW answer \in Phone!Replies, Phone!ReleaseBatch(b, answer)
      PROVE  Phone!TypeOK'
  <2>1. Phone!Shrink(answer) \in 1..SyncBatch
    BY SizeAssumption DEF Phone!Shrink
  <2>. QED
    BY <1>5, <2>1 DEF Phone!ReleaseBatch
<1>6. CASE Phone!TimePasses
  BY <1>6 DEF Phone!TimePasses
<1>7. CASE Phone!ClockJump
  BY <1>7 DEF Phone!ClockJump
<1>8. CASE Phone!ResetStaleInFlight
  BY <1>8 DEF Phone!ResetStaleInFlight
<1>9. CASE Phone!ProcessDeath
  <2>1. entered' \in BOOLEAN
    BY <1>9, Zenon DEF Phone!ProcessDeath
  <2>. QED
    BY <1>9, <2>1, SizeAssumption DEF Phone!ProcessDeath
<1>10. CASE Phone!CancelUpload
  <2>1. entered' \in BOOLEAN
    BY <1>10, Zenon DEF Phone!CancelUpload
  <2>. QED
    BY <1>10, <2>1 DEF Phone!CancelUpload
<1>11. ASSUME NEW s \in Sessions, Phone!SaveCredentials(s) PROVE Phone!TypeOK'
  BY <1>11 DEF Phone!SaveCredentials
<1>12. CASE Phone!ClearSession
  BY <1>12 DEF Phone!ClearSession
<1>13. CASE Phone!EnterSync \/ Phone!LeaveSync
  BY <1>13 DEF Phone!EnterSync, Phone!LeaveSync
<1>14. CASE UNCHANGED Phone!bufferVars
  BY <1>14 DEF Phone!bufferVars
<1>. QED
  BY <1>1, <1>2, <1>3, <1>4, <1>5, <1>6, <1>7, <1>8, <1>9, <1>10, <1>11, <1>12,
     <1>13, <1>14 DEF Phone!Next

\* The buffer's variables keep their types (LocationPointDao.kt, TrackingRepository.kt).
THEOREM PhoneTypes == Phone!Spec => []Phone!TypeOK
<1>1. Phone!Init => Phone!TypeOK
  BY PhoneInitTypes
<1>. QED
  BY <1>1, PhoneTypeStep, PTL DEF Phone!Spec

-----------------------------------------------------------------------------
(* The cap.  BufferBounded alone is not inductive: a row claimed twice, or a *)
(* pending row that is claimed as well, would stay after its eviction.       *)

PhoneInv == Phone!TypeOK /\ Phone!OneHome /\ Phone!BufferBounded

LEMMA RowsFinite == ASSUME Phone!TypeOK PROVE IsFiniteSet(Phone!Rows)
<1>1. Phone!Rows \subseteq Points
  BY DEF Phone!TypeOK, Phone!Rows, Phone!InFlight
<1>. QED
  BY <1>1, PointsAssumption, FS_Subset

\* One insert at the cap evicts exactly one row, below it none.
LEMMA StoreFixRows ==
    ASSUME PhoneInv, NEW p \in Points, Phone!StoreFix(p)
    PROVE  \/ Cardinality(Phone!Rows) < MaxRows /\ Phone!Rows' = Phone!Rows \cup {p}
           \/ \E gone \in pending \cup {p} :
                 /\ Cardinality(Phone!Rows) = MaxRows
                 /\ Phone!Rows' = (Phone!Rows \cup {p}) \ {gone}
                 /\ evicted' = evicted \cup {gone}
<1>. DEFINE n == Cardinality(Phone!Rows)
<1>1. n \in Nat /\ n <= MaxRows /\ MaxRows \in Nat
  BY PhoneCount, RowsFinite, FS_CardinalityType, SizeAssumption DEF PhoneInv,
     Phone!BufferBounded
<1>2. Phone!InFlight' = Phone!InFlight /\ p \notin Phone!Rows
  BY DEF Phone!StoreFix, Phone!InFlight, PhoneInv, Phone!OneHome
<1>3. Phone!InFlight \cap pending = {}
  BY DEF PhoneInv, Phone!OneHome, Phone!InFlight
<1>4. CASE n < MaxRows
  <2>1. Phone!Oldest(pending \cup {p}, Phone!Overflow(n + 1)) = {}
    <3>1. Phone!Overflow(n + 1) = 0
      BY <1>1, <1>4 DEF Phone!Overflow
    <3>2. \A q \in pending \cup {p} :
              Cardinality({r \in pending \cup {p} : r < q}) \in Nat
      <4>0. pending \cup {p} \in SUBSET Points
        BY DEF PhoneInv, Phone!TypeOK
      <4>1. IsFiniteSet(pending \cup {p})
        BY <4>0, PointsAssumption, FS_Subset
      <4>. QED
        BY <4>1, FS_Subset, FS_CardinalityType
    <3>. QED
      BY PhoneCount, <3>1, <3>2 DEF Phone!Oldest
  <2>2. pending' = pending \cup {p}
    BY PhoneCount, <2>1 DEF Phone!StoreFix
  <2>. QED
    BY <1>2, <1>4, <2>2 DEF Phone!Rows
<1>5. CASE n = MaxRows
  <2>1. Phone!Overflow(n + 1) = 1
    BY <1>1, <1>5 DEF Phone!Overflow
  <2>2. pending \cup {p} \subseteq Nat /\ pending \cup {p} # {}
    BY PointsAssumption DEF PhoneInv, Phone!TypeOK
  <2>3. PICK gone \in pending \cup {p} : Phone!Oldest(pending \cup {p}, 1) = {gone}
    BY <2>2, OldestOne
  <2>4. /\ pending' = (pending \cup {p}) \ {gone}
        /\ evicted' = evicted \cup {gone}
    BY PhoneCount, <2>1, <2>3 DEF Phone!StoreFix
  <2>5. gone \notin Phone!InFlight
    BY <1>2, <1>3 DEF Phone!Rows
  <2>. QED
    BY <1>2, <1>5, <2>4, <2>5 DEF Phone!Rows
<1>. QED
  BY <1>1, <1>4, <1>5

\* Claiming, releasing and recovering move rows between their two states.
Moves ==
    \/ \E p \in Points : Phone!LogOverflow(p)
    \/ \E b \in Batches : Phone!ClaimBatch(b)
    \/ \E b \in Batches, answer \in Phone!Replies : Phone!ReleaseBatch(b, answer)
    \/ Phone!EnterSync \/ Phone!LeaveSync
    \/ Phone!TimePasses \/ Phone!ClockJump \/ Phone!ResetStaleInFlight \/ Phone!ProcessDeath
    \/ Phone!CancelUpload \/ Phone!ClearSession \/ \E s \in Sessions : Phone!SaveCredentials(s)

LEMMA PhoneSplit ==
    ASSUME Phone!Next
    PROVE  \/ \E p \in Points : Phone!StoreFix(p)
           \/ \E b \in Batches : Phone!DeleteBatch(b)
           \/ Moves
  BY DEF Phone!Next, Moves

LEMMA OtherStays == ASSUME PhoneInv, Moves PROVE Phone!Rows' = Phone!Rows
<1>1. ASSUME NEW p \in Points, Phone!LogOverflow(p) PROVE Phone!Rows' = Phone!Rows
  BY <1>1 DEF Phone!LogOverflow, Phone!Rows, Phone!InFlight
<1>2. ASSUME NEW b \in Batches, Phone!ClaimBatch(b) PROVE Phone!Rows' = Phone!Rows
  <2>1. Phone!InFlight' = Phone!InFlight \cup Phone!NextChunk /\ pending' = pending \ Phone!NextChunk
    BY <1>2, InFlightSet DEF Phone!ClaimBatch, PhoneInv, Phone!TypeOK
  <2>2. Phone!NextChunk \subseteq pending
    BY OldestSubset DEF Phone!NextChunk
  <2>. QED
    BY <2>1, <2>2 DEF Phone!Rows
<1>3. ASSUME NEW b \in Batches, NEW answer \in Phone!Replies, Phone!ReleaseBatch(b, answer)
      PROVE  Phone!Rows' = Phone!Rows
  <2>1. Phone!InFlight' \cup claimed[b] = Phone!InFlight /\ pending' = pending \cup claimed[b]
    BY <1>3, InFlightCleared DEF Phone!ReleaseBatch, PhoneInv, Phone!TypeOK
  <2>. QED
    BY <2>1 DEF Phone!Rows
<1>4. CASE Phone!ResetStaleInFlight
  <2>1. /\ Phone!InFlight' \cup UNION {claimed[b] : b \in stale} = Phone!InFlight
        /\ pending' = pending \cup UNION {claimed[b] : b \in stale}
    BY <1>4, InFlightReset DEF Phone!ResetStaleInFlight, PhoneInv, Phone!TypeOK
  <2>. QED
    BY <2>1 DEF Phone!Rows
<1>5. CASE \/ Phone!TimePasses \/ Phone!ClockJump \/ Phone!ProcessDeath \/ Phone!CancelUpload
           \/ Phone!ClearSession \/ (\E s \in Sessions : Phone!SaveCredentials(s))
           \/ Phone!EnterSync \/ Phone!LeaveSync
  BY <1>5 DEF Phone!TimePasses, Phone!ClockJump, Phone!ProcessDeath,
     Phone!CancelUpload, Phone!ClearSession, Phone!SaveCredentials,
     Phone!EnterSync, Phone!LeaveSync, Phone!Rows, Phone!InFlight
<1>. QED
  BY <1>1, <1>2, <1>3, <1>4, <1>5 DEF Moves

LEMMA DeleteRows ==
    ASSUME PhoneInv, NEW b \in Batches, Phone!DeleteBatch(b)
    PROVE  Phone!Rows' = Phone!Rows \ claimed[b]
<1>1. /\ claimed' = [claimed EXCEPT ![b] = {}] /\ pending' = pending
      /\ \A c \in Batches : c # b => claimed[c] \cap claimed[b] = {}
      /\ claimed[b] \cap pending = {}
  BY DEF Phone!DeleteBatch, PhoneInv, Phone!OneHome
<1>2. Phone!InFlight' = Phone!InFlight \ claimed[b]
  BY <1>1 DEF Phone!InFlight, PhoneInv, Phone!TypeOK
<1>. QED
  BY <1>1, <1>2 DEF Phone!Rows

LEMMA BoundStep == PhoneInv /\ [Phone!Next]_(Phone!bufferVars) => Phone!BufferBounded'
<1>. SUFFICES ASSUME PhoneInv, [Phone!Next]_(Phone!bufferVars) PROVE Phone!BufferBounded'
  OBVIOUS
<1>1. /\ IsFiniteSet(Phone!Rows) /\ Cardinality(Phone!Rows) \in Nat
      /\ Cardinality(Phone!Rows) <= MaxRows /\ MaxRows \in Nat
  BY PhoneCount, RowsFinite, FS_CardinalityType, SizeAssumption DEF PhoneInv,
     Phone!BufferBounded
<1>2. ASSUME NEW p \in Points, Phone!StoreFix(p) PROVE Phone!BufferBounded'
  <2>. DEFINE c == Cardinality(Phone!Rows)
  <2>0. Cardinality(Phone!Rows \cup {p}) = IF p \in Phone!Rows THEN c ELSE c + 1
    BY <1>1, FS_AddElement
  <2>1. Cardinality(Phone!Rows \cup {p}) <= c + 1
    BY <1>1, <2>0
  <2>2. CASE Cardinality(Phone!Rows) < MaxRows /\ Phone!Rows' = Phone!Rows \cup {p}
    BY PhoneCount, <1>1, <2>1, <2>2, FS_AddElement, FS_CardinalityType
       DEF Phone!BufferBounded
  <2>3. ASSUME NEW gone \in Phone!Rows \cup {p}, Phone!Rows' = (Phone!Rows \cup {p}) \ {gone}
        PROVE  Phone!BufferBounded'
    <3>1. IsFiniteSet(Phone!Rows \cup {p}) /\ Cardinality(Phone!Rows \cup {p}) \in Nat
      BY <1>1, FS_AddElement, FS_CardinalityType
    <3>2. Cardinality(Phone!Rows') = Cardinality(Phone!Rows \cup {p}) - 1
      BY <2>3, <3>1, FS_RemoveElement
    <3>. QED
      BY PhoneCount, <1>1, <2>1, <3>1, <3>2 DEF Phone!BufferBounded
  <2>. QED
    BY <1>2, <2>2, <2>3, StoreFixRows DEF Phone!Rows
<1>3. CASE Phone!Next /\ ~ \E p \in Points : Phone!StoreFix(p)
  <2>0. Phone!Rows' \subseteq Phone!Rows
    BY <1>3, PhoneSplit, OtherStays, DeleteRows
  <2>1. Cardinality(Phone!Rows') <= Cardinality(Phone!Rows) /\ Cardinality(Phone!Rows') \in Nat
    BY <1>1, <2>0, FS_Subset, FS_CardinalityType
  <2>. QED
    BY PhoneCount, <1>1, <2>1 DEF Phone!BufferBounded
<1>4. CASE UNCHANGED Phone!bufferVars
  BY PhoneCount, <1>1, <1>4 DEF Phone!bufferVars, Phone!BufferBounded,
     Phone!Rows, Phone!InFlight
<1>. QED
  BY <1>2, <1>3, <1>4

LEMMA HomeStep == PhoneInv /\ [Phone!Next]_(Phone!bufferVars) => Phone!OneHome'
<1>. SUFFICES ASSUME PhoneInv, [Phone!Next]_(Phone!bufferVars) PROVE Phone!OneHome'
  OBVIOUS
<1>. USE DEF PhoneInv, Phone!TypeOK, Phone!OneHome, Phone!Rows, Phone!InFlight
<1>1. ASSUME NEW p \in Points, Phone!StoreFix(p) PROVE Phone!OneHome'
  BY <1>1, OldestSubset DEF Phone!StoreFix
<1>2. ASSUME NEW b \in Batches, Phone!ClaimBatch(b) PROVE Phone!OneHome'
  <2>1. Phone!NextChunk \subseteq pending
    BY OldestSubset DEF Phone!NextChunk
  <2>. QED
    BY <1>2, <2>1 DEF Phone!ClaimBatch
<1>3. ASSUME NEW b \in Batches, Phone!DeleteBatch(b) PROVE Phone!OneHome'
  BY <1>3 DEF Phone!DeleteBatch
<1>4. ASSUME NEW b \in Batches, NEW answer \in Phone!Replies, Phone!ReleaseBatch(b, answer)
      PROVE  Phone!OneHome'
  BY <1>4 DEF Phone!ReleaseBatch
<1>5. CASE Phone!ResetStaleInFlight
  BY <1>5 DEF Phone!ResetStaleInFlight
<1>6. CASE \/ Phone!TimePasses \/ Phone!ClockJump \/ Phone!ProcessDeath \/ Phone!CancelUpload
           \/ Phone!ClearSession \/ (\E s \in Sessions : Phone!SaveCredentials(s))
           \/ Phone!EnterSync \/ Phone!LeaveSync
           \/ \E p \in Points : Phone!LogOverflow(p)
           \/ UNCHANGED Phone!bufferVars
  BY <1>6 DEF Phone!TimePasses, Phone!ClockJump, Phone!ProcessDeath,
     Phone!CancelUpload, Phone!ClearSession, Phone!SaveCredentials,
     Phone!EnterSync, Phone!LeaveSync, Phone!LogOverflow, Phone!bufferVars
<1>. QED
  BY <1>1, <1>2, <1>3, <1>4, <1>5, <1>6 DEF Phone!Next

LEMMA PhoneHolds == Phone!Spec => []PhoneInv
<1>1. Phone!Init => PhoneInv
  <2>1. ASSUME Phone!Init PROVE Phone!Rows = {} /\ Phone!OneHome
    BY <2>1 DEF Phone!Init, Phone!OneHome, Phone!Rows, Phone!InFlight
  <2>2. Phone!Init => Phone!TypeOK
    BY PhoneInitTypes
  <2>3. ASSUME Phone!Init PROVE Phone!BufferBounded
    BY PhoneCount, <2>1, <2>3, FS_EmptySet, SizeAssumption
       DEF Phone!BufferBounded
  <2>. QED
    BY <2>1, <2>2, <2>3 DEF PhoneInv
<1>2. PhoneInv /\ [Phone!Next]_(Phone!bufferVars) => PhoneInv'
  BY PhoneTypeStep, HomeStep, BoundStep DEF PhoneInv
<1>. QED
  BY <1>1, <1>2, PTL DEF Phone!Spec

\* No fix is uploaded under two batch ids at once (claimBatch, releaseBatch,
\* resetStaleInFlight), whatever dies, jumps or is cancelled.
THEOREM RowsHaveOneHome == Phone!Spec => []Phone!OneHome
  BY PhoneHolds, PTL DEF PhoneInv

\* The table never exceeds BUFFER_MAX_ROWS, although insertWithCap counts the
\* rows in flight and may only evict the others.
THEOREM BufferStaysBounded == Phone!Spec => []Phone!BufferBounded
  BY PhoneHolds, PTL DEF PhoneInv

-----------------------------------------------------------------------------
(* The ways out of the table.                                              *)

\* A row leaves by eviction or by an acknowledgement of the batch that claims
\* it, never by a failure, a timeout, a crash or a recovery.
THEOREM OnlyAckDeletes == Phone!Spec => Phone!DeletedOnlyOnAck
<1>. DEFINE Out == \A p \in Phone!Rows \ Phone!Rows' :
                      \/ p \in evicted'
                      \/ upload # NoBatch /\ upload' = NoBatch /\ p \in claimed[upload]
<1>1. PhoneInv /\ [Phone!Next]_(Phone!bufferVars) => [Out]_(Phone!bufferVars)
  <2>. SUFFICES ASSUME PhoneInv, Phone!Next PROVE Out
    BY DEF Phone!bufferVars
  <2>1. ASSUME NEW p \in Points, Phone!StoreFix(p) PROVE Out
    BY <2>1, StoreFixRows
  <2>2. ASSUME NEW b \in Batches, Phone!DeleteBatch(b) PROVE Out
    <3>1. Phone!Rows \ Phone!Rows' \subseteq claimed[b]
      BY <2>2, DeleteRows
    <3>. QED
      BY <2>2, <3>1, BatchAssumption DEF Phone!DeleteBatch
  <2>. QED
    BY <2>1, <2>2, PhoneSplit, OtherStays
<1>. QED
  BY <1>1, PhoneHolds, PTL DEF Phone!Spec, Phone!DeletedOnlyOnAck

\* What Oldest takes is older than what it leaves.
LEMMA OldestFirst ==
    ASSUME NEW S \in SUBSET Points, NEW n \in Nat,
           NEW g \in Phone!Oldest(S, n), NEW q \in S \ Phone!Oldest(S, n)
    PROVE  g < q
<1>. DEFINE Before(x) == {y \in S : y < x}
<1>1. g \in Nat /\ q \in Nat /\ S \subseteq Nat /\ IsFiniteSet(S)
  BY PointsAssumption, FS_Subset DEF Phone!Oldest
<1>2. IsFiniteSet(Before(g)) /\ IsFiniteSet(Before(q))
  BY <1>1, FS_Subset
<1>3. Cardinality(Before(g)) \in Nat /\ Cardinality(Before(q)) \in Nat
  BY <1>2, FS_CardinalityType
<1>4. Cardinality(Before(g)) < n /\ ~(Cardinality(Before(q)) < n)
  BY PhoneCount DEF Phone!Oldest
<1>5. ASSUME ~(g < q) PROVE FALSE
  <2>1. \A y \in Nat : y < q => y < g
    BY <1>1, <1>5
  <2>2. Before(q) \subseteq Before(g)
    BY <1>1, <2>1
  <2>3. Cardinality(Before(q)) <= Cardinality(Before(g))
    BY <1>2, <2>2, FS_Subset
  <2>. QED
    BY <1>3, <1>4, <2>3
<1>. QED
  BY <1>5

\* The cap takes no row whose upload is running, and none that is younger than
\* a row it leaves waiting.
THEOREM EvictionTakesTheOldest == Phone!Spec => Phone!EvictsOldestWaiting
<1>. DEFINE Out == \A p \in evicted' \ evicted :
                      /\ \A b \in Batches : p \notin claimed[b]
                      /\ \A q \in pending' : p < q
<1>1. PhoneInv /\ [Phone!Next]_(Phone!bufferVars) => [Out]_(Phone!bufferVars)
  <2>. SUFFICES ASSUME PhoneInv, Phone!Next PROVE Out
    BY DEF Phone!bufferVars
  <2>1. ASSUME NEW p \in Points, Phone!StoreFix(p) PROVE Out
    <3>. DEFINE n == Phone!Overflow(Cardinality(Phone!Rows) + 1)
                S == pending \cup {p}
    <3>1. evicted' = evicted \cup Phone!Oldest(S, n) /\ pending' = S \ Phone!Oldest(S, n)
      BY PhoneCount, <2>1 DEF Phone!StoreFix
    <3>2. Cardinality(Phone!Rows) \in Nat /\ MaxRows \in Nat
      BY RowsFinite, FS_CardinalityType, SizeAssumption DEF PhoneInv
    <3>3. n \in Nat
      BY <3>2 DEF Phone!Overflow
    <3>4. S \in SUBSET Points
      BY DEF PhoneInv, Phone!TypeOK
    <3>5. \A g \in S, b \in Batches : g \notin claimed[b]
      BY <2>1 DEF PhoneInv, Phone!OneHome, Phone!StoreFix, Phone!Rows,
         Phone!InFlight
    <3>6. Phone!Oldest(S, n) \subseteq S
      BY DEF Phone!Oldest
    <3>. QED
      BY <3>1, <3>3, <3>4, <3>5, <3>6, OldestFirst
  <2>2. ASSUME UNCHANGED evicted PROVE Out
    BY <2>2
  <2>3. (\E p \in Points : Phone!StoreFix(p)) \/ UNCHANGED evicted
    BY DEF Phone!Next, Phone!LogOverflow, Phone!ClaimBatch, Phone!DeleteBatch,
       Phone!ReleaseBatch, Phone!EnterSync, Phone!LeaveSync, Phone!TimePasses,
       Phone!ClockJump, Phone!ResetStaleInFlight, Phone!ProcessDeath,
       Phone!CancelUpload, Phone!SaveCredentials, Phone!ClearSession
  <2>. QED
    BY <2>1, <2>2, <2>3
<1>. QED
  BY <1>1, PhoneHolds, PTL DEF Phone!Spec, Phone!EvictsOldestWaiting

-----------------------------------------------------------------------------
(* The phone's end within the pipeline.                                    *)

\* Steps of the phone that neither insert nor delete a row.
LEMMA PhoneMoves ==
    \/ Age \/ Recover \/ Rebind \/ Fault \/ Sync
    \/ \E b \in Batches : Claim(b) \/ ReadError(b) \/ GiveUp(b)
    => Moves
<1>1. ASSUME Age \/ Recover \/ Rebind \/ Fault \/ Sync PROVE Moves
  BY <1>1 DEF Age, Recover, Rebind, Fault, Sync, Moves
<1>2. ASSUME NEW b \in Batches, Claim(b) PROVE Moves
  BY <1>2 DEF Claim, Moves
<1>3. ASSUME NEW b \in Batches, ReadError(b) \/ GiveUp(b) PROVE Moves
  BY <1>3 DEF ReadError, GiveUp, Moves, Phone!Replies
<1>. QED
  BY <1>1, <1>2, <1>3

LEMMA PhoneStep == [Next]_vars => [Phone!Next]_(Phone!bufferVars)
<1>. SUFFICES ASSUME [Next]_vars PROVE [Phone!Next]_(Phone!bufferVars)
  OBVIOUS
<1>1. Moves => Phone!Next
  BY DEF Moves, Phone!Next
<1>2. ASSUME Capture PROVE Phone!Next
  BY <1>2 DEF Capture, Phone!Next
<1>3. ASSUME NEW b \in Batches, Acknowledge(b) PROVE Phone!Next
  BY <1>3 DEF Acknowledge, Phone!Next
<1>4. ASSUME \/ \E b \in Batches : Send(b)
             \/ \E m \in net : Accept(m) \/ TooLarge(m) \/ Decline(m) \/ Lose(m)
             \/ \E s \in Sessions : Finish(s)
             \/ UNCHANGED vars
      PROVE  UNCHANGED Phone!bufferVars
  BY <1>4 DEF Send, Accept, TooLarge, Decline, Lose, Finish, vars, phoneVars,
     Phone!bufferVars
<1>. QED
  BY <1>1, <1>2, <1>3, <1>4, PhoneMoves DEF Next

LEMMA PhoneInductive == Spec => []PhoneInv
<1>1. Init => Phone!Init
  BY DEF Init, Phone!Init
<1>2. Phone!Spec => []PhoneInv
  BY PhoneHolds, PTL
<1>. QED
  BY <1>1, <1>2, PhoneStep, PTL DEF Spec, Phone!Spec

-----------------------------------------------------------------------------
(* The server's end, and the requests between the two.                     *)

\* The newest of some fixes is one of them: the set of fixes later than p
\* shrinks as p grows, and finite sets ordered by strict inclusion are well
\* founded.
LEMMA NewestIsOne ==
    ASSUME NEW S \in SUBSET Points, S # {}
    PROVE  Server!Newest(S) \in S
<1>. DEFINE Later(p) == {q \in S : p < q}
            T == {Later(p) : p \in S}
            R == StrictSubsetOrdering(Points)
<1>1. S \subseteq Nat /\ T \subseteq FiniteSubsetsOf(Points) /\ T # {}
  <2>1. ASSUME NEW p \in S PROVE Later(p) \in FiniteSubsetsOf(Points)
    <3>1. Later(p) \in SUBSET Points
      OBVIOUS
    <3>. QED
      BY <3>1, PointsAssumption, FS_Subset DEF FiniteSubsetsOf
  <2>. QED
    BY <2>1, PointsAssumption
<1>2. IsWellFoundedOn(R, FiniteSubsetsOf(Points))
  BY FS_StrictSubsetOrderingWellFounded
<1>. HIDE DEF T, R
<1>3. PICK L \in T : \A M \in T : <<M, L>> \notin R
  BY <1>1, <1>2, WFMin, Zenon
<1>4. PICK p \in S : L = Later(p)
  BY <1>3 DEF T
<1>5. ASSUME NEW q \in S, p < q PROVE FALSE
  <2>1. Later(q) \in T
    BY DEF T
  <2>2. Later(q) \subseteq Later(p) /\ Later(q) # Later(p)
    <3>1. \A r \in S : q < r => p < r
      BY <1>1, <1>5
    <3>2. q \in Later(p) /\ q \notin Later(q)
      BY <1>1, <1>5
    <3>. QED
      BY <3>1, <3>2
  <2>3. <<Later(q), L>> \in R
    BY <1>4, <2>2 DEF R, StrictSubsetOrdering
  <2>. QED
    BY <1>3, <2>1, <2>3
<1>6. \A q \in S : q <= p
  BY <1>1, <1>5
<1>. QED
  BY <1>6 DEF Server!Newest

LEMMA OldestIsOne ==
    ASSUME NEW S \in SUBSET Points, S # {}
    PROVE  Server!Oldest(S) \in S
<1>1. \E p \in S : \A q \in S : p <= q
  BY PointsAssumption, OldestOne
<1>. QED
  BY <1>1 DEF Server!Oldest

\* Nothing but what the phone captured travels, and the request of the running
\* upload still names every row claimed under its id: a claim only ever loses
\* rows (to recoverOrphanedBatches) until its batch is answered.
NetInv ==
    /\ \A m \in net : /\ m.id \in Batches /\ m.to \in Sessions
                      /\ m.pts \subseteq captured
                      /\ m.id = upload => claimed[upload] \subseteq m.pts
    /\ captured \subseteq Points
    /\ Delivered \subseteq captured
    /\ refused \subseteq Suspect

LEMMA IngestTypes ==
    ASSUME Server!TypeOK, NEW s \in Sessions, NEW pts \in SUBSET Points,
           NEW bad, Server!Ingest(s, pts, bad)
    PROVE  Server!TypeOK'
<1>. DEFINE new == Server!Accepted(s, pts, bad)
<1>1. new \in SUBSET Points
  BY DEF Server!Accepted
<1>2. new # {} => Server!Newest(new) \in Points /\ Server!Oldest(new) \in Points
  BY <1>1, NewestIsOne, OldestIsOne
<1>3. /\ stored' \in [Sessions -> SUBSET Points]
      /\ status' \in [Sessions -> Server!Status]
  BY <1>1 DEF Server!Ingest, Server!TypeOK, Server!Status, Server!OpenStatus
<1>4. /\ anchor' \in [Sessions -> Points \cup {0}]
      /\ started' \in [Sessions -> Points \cup {0}]
  BY <1>2 DEF Server!Ingest, Server!TypeOK, Server!Advanced
<1>5. firstAt' \in [Sessions -> Points \cup {0}]
  <2>1. Server!Earliest(firstAt[s], new) \in Points \cup {0}
    BY <1>2 DEF Server!Earliest, Server!TypeOK
  <2>. QED
    BY <2>1 DEF Server!Ingest, Server!TypeOK
<1>6. total' \in [Sessions -> Nat]
  <2>1. Server!Cardinality(new) = Cardinality(new)
    BY DEF Server!Cardinality, Cardinality
  <2>2. Server!Cardinality(new) \in Nat
    BY <1>1, <2>1, PointsAssumption, FS_Subset, FS_CardinalityType
  <2>. QED
    BY <2>2 DEF Server!Ingest, Server!TypeOK
<1>. QED
  BY <1>3, <1>4, <1>5, <1>6 DEF Server!TypeOK

LEMMA ServerStep == NetInv /\ Server!TypeOK /\ [Next]_vars => Server!TypeOK'
<1>. SUFFICES ASSUME NetInv, Server!TypeOK, [Next]_vars PROVE Server!TypeOK'
  OBVIOUS
<1>1. ASSUME NEW m \in net, Accept(m) PROVE Server!TypeOK'
  <2>1. m.to \in Sessions /\ m.pts \in SUBSET Points
    BY DEF NetInv
  <2>. QED
    BY <1>1, <2>1, IngestTypes DEF Accept
<1>2. ASSUME NEW s \in Sessions, Finish(s) PROVE Server!TypeOK'
  BY <1>2 DEF Finish, Server!Close, Server!TypeOK, Server!Status
<1>3. ASSUME \/ Capture \/ Age \/ Recover \/ Rebind \/ Fault \/ Sync
             \/ \E b \in Batches : \/ Claim(b) \/ Send(b)
                                  \/ Acknowledge(b) \/ ReadError(b) \/ GiveUp(b)
             \/ \E m \in net : TooLarge(m) \/ Decline(m) \/ Lose(m)
             \/ UNCHANGED vars
      PROVE  Server!TypeOK'
  <2>1. UNCHANGED serverVars
    BY <1>3 DEF Capture, Age, Recover, Rebind, Fault, Sync, Claim, Send,
       Acknowledge, ReadError, GiveUp, TooLarge, Decline, Lose, vars, serverVars
  <2>. QED
    BY <2>1 DEF serverVars, Server!TypeOK
<1>. QED
  BY <1>1, <1>2, <1>3 DEF Next

LEMMA DeliverRows ==
    ASSUME stored \in [Sessions -> SUBSET Points], NEW s \in Sessions,
           NEW pts, NEW bad, Server!Ingest(s, pts, bad)
    PROVE  Delivered' = Delivered \cup (pts \ bad)
<1>1. stored' = [stored EXCEPT ![s] = @ \cup ((pts \ bad) \ stored[s])]
  BY DEF Server!Ingest, Server!Accepted
<1>. QED
  BY <1>1 DEF Delivered

Ends == PhoneInv /\ Server!TypeOK

LEMMA EndsTypes ==
    ASSUME Ends
    PROVE  /\ pending \subseteq captured /\ captured \subseteq Points
           /\ claimed \in [Batches -> SUBSET Points] /\ stale \subseteq Batches
           /\ \A b \in Batches : claimed[b] \subseteq Rows
           /\ Rows \subseteq captured
           /\ session \in Sessions \cup {NoSession}
           /\ upload \in Batches \cup {NoBatch}
           /\ stored \in [Sessions -> SUBSET Points]
  BY DEF Ends, PhoneInv, Phone!TypeOK, Phone!OneHome, Phone!Rows,
     Phone!InFlight, Rows, Server!TypeOK

LEMMA NetStep == Ends /\ NetInv /\ [Next]_vars => NetInv'
<1>. SUFFICES ASSUME Ends, NetInv, [Next]_vars PROVE NetInv'
  OBVIOUS
<1>. USE DEF NetInv
<1>1. CASE Capture
  <2>1. /\ captured \subseteq captured' /\ captured' \subseteq Points
        /\ UNCHANGED <<claimed, upload, net, stored, refused>>
    BY <1>1, EndsTypes
       DEF Capture, serverVars, Phone!StoreFix, Phone!LogOverflow
  <2>. QED
    BY <2>1 DEF Delivered
<1>2. CASE Recover
  <2>1. /\ \A b \in Batches : claimed'[b] \subseteq claimed[b]
        /\ UNCHANGED <<captured, upload, net, stored, refused>>
    BY <1>2, EndsTypes DEF Recover, serverVars, Phone!ResetStaleInFlight
  <2>. QED
    BY <2>1 DEF Delivered
<1>3. CASE Age \/ Rebind \/ Fault \/ Sync
  <2>1. /\ upload' \in {upload, NoBatch}
        /\ UNCHANGED <<captured, claimed, net, stored, refused>>
    BY <1>3 DEF Age, Rebind, Fault, Sync, serverVars, Phone!TimePasses,
       Phone!ClockJump, Phone!SaveCredentials, Phone!ClearSession,
       Phone!ProcessDeath, Phone!CancelUpload, Phone!EnterSync, Phone!LeaveSync
  <2>. QED
    BY <2>1, BatchAssumption, SessionAssumption DEF Delivered
<1>4. ASSUME NEW b \in Batches, Claim(b) PROVE NetInv'
  <2>1. /\ upload' = b /\ \A m \in net : m.id # b
        /\ UNCHANGED <<captured, net, stored, refused>>
    BY <1>4 DEF Claim, serverVars, Phone!ClaimBatch
  <2>. QED
    BY <2>1 DEF Delivered
<1>8. ASSUME NEW b \in Batches, Send(b) PROVE NetInv'
  <2>1. /\ upload = b /\ claimed[b] \subseteq captured
        /\ UNCHANGED <<captured, claimed, upload, stored, refused>>
        /\ \/ UNCHANGED net
           \/ /\ session \in Sessions
              /\ net' = net \cup {[id |-> b, to |-> session, pts |-> claimed[b]]}
    BY <1>8, EndsTypes DEF Send, phoneVars, serverVars
  <2>. QED
    BY <2>1 DEF Delivered
<1>5. ASSUME NEW b \in Batches, Acknowledge(b) \/ ReadError(b) \/ GiveUp(b)
      PROVE  NetInv'
  <2>1. upload' = NoBatch /\ UNCHANGED <<captured, net, stored, refused>>
    BY <1>5 DEF Acknowledge, ReadError, GiveUp, serverVars, Phone!DeleteBatch,
       Phone!ReleaseBatch
  <2>. QED
    BY <2>1, BatchAssumption, SessionAssumption DEF Delivered
<1>6. ASSUME NEW m \in net, Accept(m) PROVE NetInv'
  <2>1. PICK bad \in SUBSET (m.pts \cap Suspect) :
            Server!Ingest(m.to, m.pts, bad) /\ refused' = refused \cup bad
    BY <1>6 DEF Accept
  <2>2. Delivered' = Delivered \cup (m.pts \ bad)
    BY <2>1, EndsTypes, DeliverRows
  <2>3. net' \subseteq net /\ UNCHANGED <<captured, upload, claimed>>
    BY <1>6 DEF Accept, phoneVars
  <2>. QED
    BY <2>1, <2>2, <2>3
<1>7. CASE \/ \E m \in net : TooLarge(m) \/ Decline(m) \/ Lose(m)
           \/ \E s \in Sessions : Finish(s)
           \/ UNCHANGED vars
  <2>1. net' \subseteq net /\ UNCHANGED <<captured, upload, claimed, stored, refused>>
    BY <1>7 DEF TooLarge, Decline, Lose, Finish, Server!Close, vars, phoneVars,
       serverVars
  <2>. QED
    BY <2>1 DEF Delivered
<1>. QED
  BY <1>1, <1>2, <1>3, <1>4, <1>5, <1>6, <1>7, <1>8 DEF Next

LEMMA EndsInductive == Spec => [](Ends /\ NetInv)
<1>1. Init => NetInv
  BY DEF Init, Phone!Init, Server!Init, NetInv, Delivered
<1>2. Init => Server!TypeOK
  BY DEF Init, Server!Init, Server!TypeOK, Server!Status, Server!OpenStatus
<1>. QED
  BY <1>1, <1>2, PhoneInductive, ServerStep, NetStep, PTL DEF Spec, Ends

-----------------------------------------------------------------------------
(* The pipeline.                                                           *)

LEMMA RowsAgree == Phone!Rows = Rows /\ Phone!Rows' = Rows'
  BY DEF Phone!Rows, Phone!InFlight, Rows

\* A capture adds its fix and costs at most one row, and only at the cap.
LEMMA CaptureRows ==
    ASSUME Ends, NEW p \in Points, Phone!StoreFix(p)
    PROVE  /\ p \notin captured /\ captured' = captured \cup {p}
           /\ \/ /\ Cardinality(Rows) < MaxRows /\ Rows' = Rows \cup {p}
                 /\ evicted \subseteq evicted'
              \/ \E gone \in Rows \cup {p} :
                    /\ Cardinality(Rows) = MaxRows
                    /\ Rows' = (Rows \cup {p}) \ {gone}
                    /\ evicted' = evicted \cup {gone}
<1>1. p \notin captured /\ captured' = captured \cup {p} /\ evicted \subseteq evicted'
  BY DEF Phone!StoreFix
<1>2. pending \cup {p} \subseteq Rows \cup {p}
  BY DEF Rows, Phone!Rows
<1>. QED
  BY <1>1, <1>2, RowsAgree, StoreFixRows DEF Ends

\* A 2xx deletes what is claimed under its batch id.
LEMMA AcknowledgeRows ==
    ASSUME Ends, NEW b \in Batches, Phone!DeleteBatch(b)
    PROVE  Rows' = Rows \ claimed[b] /\ b = upload
  BY RowsAgree, DeleteRows DEF Ends, Phone!DeleteBatch

\* No other step of the phone loses or adds a row.
LEMMA OtherRows ==
    ASSUME Ends,
           \/ Age \/ Recover \/ Rebind \/ Fault \/ Sync
           \/ \E p \in Points : Phone!LogOverflow(p)
           \/ \E b \in Batches : Claim(b) \/ ReadError(b) \/ GiveUp(b)
    PROVE  Rows' = Rows /\ UNCHANGED <<captured, evicted>>
<1>1. CASE \E p \in Points : Phone!LogOverflow(p)
  BY <1>1 DEF Phone!LogOverflow, Rows, Phone!Rows, Phone!InFlight
<1>2. CASE \/ Age \/ Recover \/ Rebind \/ Fault \/ Sync
           \/ \E b \in Batches : Claim(b) \/ ReadError(b) \/ GiveUp(b)
  <2>1. Moves
    BY <1>2, PhoneMoves
  <2>2. Rows' = Rows
    BY <2>1, RowsAgree, OtherStays DEF Ends
  <2>. QED
    BY <1>2, <2>2 DEF Age, Recover, Rebind, Fault, Sync, Claim, ReadError,
       GiveUp, Phone!EnterSync, Phone!LeaveSync, Phone!TimePasses,
       Phone!ClockJump, Phone!ResetStaleInFlight, Phone!SaveCredentials,
       Phone!ClearSession, Phone!ProcessDeath, Phone!CancelUpload,
       Phone!ClaimBatch, Phone!ReleaseBatch
<1>. QED
  BY <1>1, <1>2

\* The server gains what it did not refuse of a request; nothing else moves.
LEMMA AcceptRows ==
    ASSUME Ends, NetInv, NEW m \in net, Accept(m)
    PROVE  \E bad \in SUBSET Suspect :
              /\ Delivered' = Delivered \cup (m.pts \ bad)
              /\ refused' = refused \cup bad
              /\ m.pts \subseteq captured
              /\ m.pts \subseteq Delivered' \cup refused'
              /\ UNCHANGED <<Rows, phoneVars>>
<1>1. PICK bad \in SUBSET (m.pts \cap Suspect) :
          Server!Ingest(m.to, m.pts, bad) /\ refused' = refused \cup bad
  BY DEF Accept
<1>2. Delivered' = Delivered \cup (m.pts \ bad)
  BY <1>1, EndsTypes, DeliverRows DEF NetInv
<1>3. UNCHANGED <<Rows, phoneVars>>
  BY DEF Accept, phoneVars, Rows, Phone!Rows, Phone!InFlight
<1>. QED
  BY <1>1, <1>2, <1>3 DEF NetInv

-----------------------------------------------------------------------------
(* AckCoversBatch and NoLoss.  NoLoss needs AckCoversBatch, because the phone *)
(* deletes what the answer is about without asking what that is; and         *)
(* AckCoversBatch needs NetInv, because the answer is to a request that may   *)
(* have left when the batch still had more rows.                            *)

IInv == Ends /\ NetInv /\ AckCoversBatch /\ NoLoss

LEMMA AckStep == IInv /\ [Next]_vars => AckCoversBatch'
<1>. SUFFICES ASSUME IInv, [Next]_vars, upload' # NoBatch, reply' = "OK"
              PROVE  claimed[upload]' \subseteq Delivered' \cup refused'
  BY DEF AckCoversBatch
<1>. USE DEF IInv
<1>1. CASE \/ Capture \/ Age \/ Rebind \/ Sync
           \/ (\E s \in Sessions : Finish(s)) \/ UNCHANGED vars
  <2>1. UNCHANGED <<upload, reply, claimed, stored, refused>>
    BY <1>1 DEF Capture, Age, Rebind, Sync, Finish, serverVars, phoneVars,
       vars, Phone!EnterSync, Phone!LeaveSync, Phone!StoreFix,
       Phone!LogOverflow, Phone!TimePasses, Phone!SaveCredentials,
       Phone!ClearSession, Server!Close
  <2>. QED
    BY <2>1 DEF AckCoversBatch, Delivered
<1>2. CASE Fault \/ \E b \in Batches : Send(b)
  <2>1. UNCHANGED <<upload, reply, claimed, stored, refused>>
    BY <1>2 DEF Fault, Idle, Send, phoneVars, serverVars, Phone!ProcessDeath,
       Phone!CancelUpload, Phone!ClockJump
  <2>. QED
    BY <2>1 DEF AckCoversBatch, Delivered
<1>3. CASE Recover
  <2>1. /\ \A b \in Batches : claimed'[b] \subseteq claimed[b]
        /\ UNCHANGED <<upload, reply, stored, refused>>
    BY <1>3, EndsTypes DEF Recover, serverVars, Phone!ResetStaleInFlight
  <2>2. upload \in Batches
    BY <2>1, EndsTypes
  <2>. QED
    BY <2>1, <2>2 DEF AckCoversBatch, Delivered
<1>4. CASE \E b \in Batches : Claim(b) \/ Acknowledge(b) \/ ReadError(b) \/ GiveUp(b)
  BY <1>4 DEF Claim, Acknowledge, ReadError, GiveUp, Idle
<1>5. ASSUME NEW m \in net, Accept(m)
      PROVE  claimed[upload]' \subseteq Delivered' \cup refused'
  <2>1. /\ m.pts \subseteq Delivered' \cup refused' /\ upload' = upload
        /\ claimed' = claimed /\ Delivered \cup refused \subseteq Delivered' \cup refused'
    BY <1>5, AcceptRows DEF phoneVars
  <2>2. CASE upload = m.id
    BY <2>1, <2>2 DEF NetInv
  <2>3. CASE upload # m.id
    <3>1. reply = "OK"
      BY <1>5, <2>3 DEF Accept, Answer
    <3>. QED
      BY <2>1, <3>1 DEF AckCoversBatch
  <2>. QED
    BY <2>2, <2>3
<1>6. ASSUME NEW m \in net, TooLarge(m) \/ Decline(m) \/ Lose(m)
      PROVE  claimed[upload]' \subseteq Delivered' \cup refused'
  <2>1. reply = "OK" /\ UNCHANGED <<upload, claimed, stored, refused>>
    BY <1>6 DEF TooLarge, Decline, Lose, Answer, phoneVars, serverVars
  <2>. QED
    BY <2>1 DEF AckCoversBatch, Delivered
<1>. QED
  BY <1>1, <1>2, <1>3, <1>4, <1>5, <1>6 DEF Next

LEMMA LossStep == IInv /\ [Next]_vars => NoLoss'
<1>. SUFFICES ASSUME IInv, [Next]_vars PROVE NoLoss'
  OBVIOUS
<1>. USE DEF IInv, NoLoss
<1>1. ASSUME NEW p \in Points, Phone!StoreFix(p), Capture PROVE NoLoss'
  <2>1. UNCHANGED <<stored, refused>>
    BY <1>1 DEF Capture, serverVars
  <2>. QED
    BY <1>1, <2>1, CaptureRows DEF Delivered
<1>2. CASE \/ Age \/ Recover \/ Rebind \/ Fault \/ Sync
           \/ Capture /\ \E p \in Points : Phone!LogOverflow(p)
           \/ \E b \in Batches : Claim(b) \/ ReadError(b) \/ GiveUp(b)
  <2>1. UNCHANGED <<stored, refused>>
    BY <1>2 DEF Capture, Age, Recover, Rebind, Fault, Sync, Claim, ReadError,
       GiveUp, serverVars
  <2>2. Rows' = Rows /\ UNCHANGED <<captured, evicted>>
    BY <1>2, OtherRows
  <2>. QED
    BY <2>1, <2>2 DEF Delivered
<1>3. ASSUME NEW b \in Batches, Acknowledge(b) PROVE NoLoss'
  <2>1. /\ UNCHANGED <<captured, evicted, stored, refused>>
        /\ reply = "OK" /\ Phone!DeleteBatch(b)
    BY <1>3 DEF Acknowledge, serverVars, Phone!DeleteBatch
  <2>2. Rows' = Rows \ claimed[b] /\ b = upload
    BY <2>1, AcknowledgeRows
  <2>3. claimed[b] \subseteq Delivered \cup refused
    BY <2>1, <2>2, BatchAssumption, SessionAssumption DEF AckCoversBatch
  <2>. QED
    BY <2>1, <2>2, <2>3 DEF Delivered
<1>4. ASSUME NEW m \in net, Accept(m) PROVE NoLoss'
  BY <1>4, AcceptRows DEF phoneVars
<1>5. CASE \/ \E m \in net : TooLarge(m) \/ Decline(m) \/ Lose(m)
           \/ \E b \in Batches : Send(b)
           \/ \E s \in Sessions : Finish(s)
           \/ UNCHANGED vars
  BY <1>5 DEF Send, TooLarge, Decline, Lose, Finish, Server!Close, vars,
     phoneVars, serverVars, Rows, Phone!Rows, Phone!InFlight, Delivered
<1>6. Capture => \E p \in Points : Phone!StoreFix(p) \/ Phone!LogOverflow(p)
  BY DEF Capture
<1>. QED
  BY <1>1, <1>2, <1>3, <1>4, <1>5, <1>6 DEF Next

LEMMA Inductive == Spec => []IInv
<1>1. Init => AckCoversBatch /\ NoLoss
  BY DEF Init, Phone!Init, AckCoversBatch, NoLoss
<1>. QED
  BY <1>1, EndsInductive, AckStep, LossStep, PTL DEF IInv, Spec

\* A 2xx covers every row the phone is about to delete for it, although rows
\* are taken back, sent again and claimed anew while answers are under way.
THEOREM AcksCover == Spec => []AckCoversBatch
  BY Inductive, PTL DEF IInv

\* No fix is lost between capture and database but to the cap and to the
\* validity predicate ("Nothing ... can delete a point", TrackingRepository.kt).
THEOREM NothingIsLost == Spec => []NoLoss
  BY Inductive, PTL DEF IInv

-----------------------------------------------------------------------------
(* Type correctness of the composition.                                     *)

\* Requests, answers and the variables of both ends keep their types.
THEOREM TypeCorrect == Spec => []TypeOK
<1>1. Ends => Phone!TypeOK /\ Server!TypeOK
  BY DEF Ends, PhoneInv, Phone!TypeOK
<1>. DEFINE Traffic == /\ net \subseteq Request /\ sent \in BOOLEAN
                       /\ reply \in Reply
                       /\ refused \subseteq Points /\ faults \in 0..MaxFaults
<1>2. Init => Traffic
  <2>1. Init => sent \in BOOLEAN
    BY Zenon DEF Init
  <2>. QED
    BY <2>1, SizeAssumption, FaultsAssumption DEF Init, Reply
<1>3. Ends /\ NetInv /\ Traffic /\ [Next]_vars => Traffic'
  <2>. SUFFICES ASSUME Ends, NetInv, Traffic, [Next]_vars PROVE Traffic'
    OBVIOUS
  <2>1. ASSUME NEW b \in Batches, Send(b) PROVE Traffic'
    <3>1. claimed[b] \in SUBSET Points
      BY EndsTypes
    <3>2. session # NoSession => session \in Sessions
      BY EndsTypes
    <3>. QED
      BY <2>1, <3>1, <3>2 DEF Send, Request, Reply
  <2>2. ASSUME NEW m \in net, Accept(m) PROVE Traffic'
    BY <2>2, AcceptRows, PointsAssumption, SuspectAssumption DEF Accept,
       Answer, Reply
  <2>3. ASSUME NEW m \in net, TooLarge(m) \/ Decline(m) \/ Lose(m) PROVE Traffic'
    BY <2>3 DEF TooLarge, Decline, Lose, Answer, Reply
  <2>4. CASE \/ Capture \/ Age \/ Recover \/ Rebind \/ Fault \/ Sync
             \/ \E b \in Batches : Claim(b) \/ Acknowledge(b) \/ ReadError(b) \/ GiveUp(b)
             \/ \E s \in Sessions : Finish(s)
             \/ UNCHANGED vars
    <3>1. sent' \in BOOLEAN
      BY <2>4, Zenon DEF Capture, Age, Recover, Rebind, Fault, Sync, Claim,
         Acknowledge, ReadError, GiveUp, Idle, Finish, vars
    <3>. QED
      BY <2>4, <3>1, SizeAssumption, FaultsAssumption DEF Capture, Age,
         Recover, Rebind, Fault, Sync, Claim, Acknowledge, ReadError, GiveUp,
         Idle, Finish, vars, Reply
  <2>. QED
    BY <2>1, <2>2, <2>3, <2>4 DEF Next
<1>4. Ends /\ Traffic => TypeOK
  BY <1>1 DEF TypeOK
<1>. QED
  BY <1>2, <1>3, <1>4, EndsInductive, PTL DEF Spec

-----------------------------------------------------------------------------
(* The pipeline implements the reliable log.                                *)

LEMMA LogStep == IInv /\ [Next]_vars => [Log!Next]_(Log!logVars)
<1>. SUFFICES ASSUME IInv, [Next]_vars PROVE [Log!Next]_(Log!logVars)
  OBVIOUS
<1>. USE DEF IInv
<1>1. ASSUME NEW p \in Points, Phone!StoreFix(p), Capture PROVE Log!Next
  <2>1. Delivered' = Delivered
    BY <1>1 DEF Capture, serverVars, Delivered
  <2>2. Log!Cardinality(Rows) = Cardinality(Rows)
    BY DEF Log!Cardinality, Cardinality
  <2>3. Cardinality(Rows) = MaxRows => ~(Cardinality(Rows) < MaxRows)
    BY SizeAssumption, FaultsAssumption
  <2>4. Log!Capture(p)
    BY <1>1, <2>1, <2>2, <2>3, CaptureRows DEF Log!Capture
  <2>. QED
    BY <2>4 DEF Log!Next
<1>2. CASE \/ Age \/ Recover \/ Rebind \/ Fault \/ Sync
           \/ Capture /\ \E p \in Points : Phone!LogOverflow(p)
           \/ \E b \in Batches : Claim(b) \/ ReadError(b) \/ GiveUp(b)
  <2>1. UNCHANGED stored
    BY <1>2 DEF Capture, Age, Recover, Rebind, Fault, Sync, Claim, ReadError,
       GiveUp, serverVars
  <2>2. Rows' = Rows /\ UNCHANGED captured
    BY <1>2, OtherRows
  <2>. QED
    BY <2>1, <2>2 DEF Delivered, Log!logVars
<1>3. ASSUME NEW b \in Batches, Acknowledge(b) PROVE Log!Next
  <2>1. /\ UNCHANGED <<captured, stored>> /\ reply = "OK" /\ Phone!DeleteBatch(b)
    BY <1>3 DEF Acknowledge, serverVars, Phone!DeleteBatch
  <2>2. Rows' = Rows \ claimed[b] /\ b = upload
    BY <2>1, AcknowledgeRows
  <2>3. claimed[b] \subseteq Delivered \cup Suspect
    BY <2>1, <2>2, BatchAssumption, SessionAssumption DEF AckCoversBatch, NetInv
  <2>4. claimed[b] \in SUBSET Rows
    BY EndsTypes
  <2>5. Log!LetGo(claimed[b])
    BY <2>1, <2>2, <2>3, <2>4 DEF Log!LetGo, Delivered
  <2>. QED
    BY <2>4, <2>5 DEF Log!Next
<1>4. ASSUME NEW m \in net, Accept(m) PROVE Log!Next
  <2>1. PICK bad \in SUBSET Suspect :
            /\ Delivered' = Delivered \cup (m.pts \ bad)
            /\ m.pts \subseteq captured
            /\ UNCHANGED <<Rows, phoneVars>>
    BY <1>4, AcceptRows
  <2>2. Log!Deliver(m.pts \ bad)
    BY <2>1 DEF Log!Deliver, phoneVars
  <2>3. m.pts \ bad \in SUBSET captured
    BY <2>1
  <2>. QED
    BY <2>2, <2>3 DEF Log!Next
<1>5. CASE \/ \E m \in net : TooLarge(m) \/ Decline(m) \/ Lose(m)
           \/ \E b \in Batches : Send(b)
           \/ \E s \in Sessions : Finish(s)
           \/ UNCHANGED vars
  BY <1>5 DEF Send, TooLarge, Decline, Lose, Finish, Server!Close, vars,
     phoneVars, serverVars, Rows, Phone!Rows, Phone!InFlight, Delivered,
     Log!logVars
<1>6. Capture => \E p \in Points : Phone!StoreFix(p) \/ Phone!LogOverflow(p)
  BY DEF Capture
<1>. QED
  BY <1>1, <1>2, <1>3, <1>4, <1>5, <1>6 DEF Next

\* Batches, retries, crashes, lost answers and recoveries together do no more
\* than ReliableLog allows.
THEOREM Refinement == Spec => ImplementsLog
<1>1. Init => Log!Init
  BY DEF Init, Phone!Init, Server!Init, Log!Init, Rows, Phone!Rows,
     Phone!InFlight, Delivered
<1>. QED
  BY <1>1, LogStep, Inductive, PTL DEF Spec, ImplementsLog, Log!Spec

-----------------------------------------------------------------------------
(* What the phone keeps on its own, kept within the pipeline.               *)

LEMMA PhoneSpec == Spec => Phone!Spec
<1>1. Init => Phone!Init
  BY DEF Init, Phone!Init
<1>. QED
  BY <1>1, PhoneStep, PTL DEF Spec, Phone!Spec

\* One home for a row and a table within its cap, whatever the network does.
THEOREM BufferIsSound == Spec => []BufferHolds
<1>1. PhoneInv => BufferHolds
  BY DEF PhoneInv, BufferHolds
<1>. QED
  BY <1>1, PhoneInductive, PTL

\* Acknowledgement and eviction are the ways out of the table.
THEOREM RowsLeaveSoundly == Spec => RowsLeaveForACause
<1>1. Phone!Spec => Phone!DeletedOnlyOnAck
  BY OnlyAckDeletes
<1>2. Phone!Spec => Phone!EvictsOldestWaiting
  BY EvictionTakesTheOldest
<1>. QED
  BY <1>1, <1>2, PhoneSpec DEF RowsLeaveForACause

=============================================================================

--------------------------- MODULE LiveFeed_Proofs ---------------------------
(***************************************************************************)
(* Theorems about the path of a fix from its commit to a dispatcher's      *)
(* screen, for any number of shipments, any fixes, any order of the        *)
(* broadcasts and any outages; and, first, about the write path they start *)
(* from, kh.ingest_points, for every answer of the validity predicate.      *)
(*                                                                         *)
(* FeedInv has one part per question.  Chain orders everything that still  *)
(* carries a position of a session: the page, the frames on the way, the   *)
(* fleet buffer and the broadcast under way, each no newer than the next.  *)
(* Drawn says where a fix that went out in a segment is, if the page has   *)
(* not drawn it yet.  Joined predicts the rooms of the socket from the     *)
(* last request for each that is still on the way.  Truthful and Informed  *)
(* follow a status from its commit to the page.                            *)
(***************************************************************************)
EXTENDS LiveFeed, SequenceTheorems, FiniteSetTheorems, WellFoundedInduction, TLAPS

-----------------------------------------------------------------------------
(* min(recorded_at) and max(recorded_at) of a set of fixes.                 *)

LEMMA OldestExists ==
    ASSUME NEW S \in SUBSET Points, S # {}
    PROVE  \E p \in S : \A q \in S : p <= q
<1>1. S \subseteq Nat
  BY PointsAssumption
<1>2. PICK p \in S : \A q \in S : <<q, p>> \notin OpToRel(<, Nat)
  BY <1>1, NatLessThanWellFounded, WFMin, Zenon
<1>3. \A q \in S : ~(q < p)
  BY <1>1, <1>2, Zenon DEF OpToRel
<1>. QED
  BY <1>1, <1>3

\* The set of fixes newer than p shrinks as p grows, and finite sets ordered by
\* strict inclusion are well founded.
LEMMA NewestExists ==
    ASSUME NEW S \in SUBSET Points, S # {}
    PROVE  \E p \in S : \A q \in S : q <= p
<1>. DEFINE Later(p) == {q \in S : p < q}
            T == {Later(p) : p \in S}
            R == StrictSubsetOrdering(Points)
<1>1. S \subseteq Nat /\ T \subseteq FiniteSubsetsOf(Points) /\ T # {}
  <2>1. ASSUME NEW p \in S PROVE Later(p) \in FiniteSubsetsOf(Points)
    <3>1. Later(p) \in SUBSET Points
      OBVIOUS
    <3>. QED
      BY <3>1, PointsAssumption, FS_Subset DEF FiniteSubsetsOf
  <2>. QED
    BY <2>1, PointsAssumption
<1>2. IsWellFoundedOn(R, FiniteSubsetsOf(Points))
  BY FS_StrictSubsetOrderingWellFounded
<1>. HIDE DEF T, R
<1>3. PICK L \in T : \A M \in T : <<M, L>> \notin R
  BY <1>1, <1>2, WFMin, Zenon
<1>4. PICK p \in S : L = Later(p)
  BY <1>3 DEF T
<1>5. ASSUME NEW q \in S, p < q PROVE FALSE
  <2>1. Later(q) \in T
    BY DEF T
  <2>2. Later(q) \subseteq Later(p) /\ Later(q) # Later(p)
    <3>1. \A r \in S : q < r => p < r
      BY <1>1, <1>5
    <3>2. q \in Later(p) /\ q \notin Later(q)
      BY <1>1, <1>5
    <3>. QED
      BY <3>1, <3>2
  <2>3. <<Later(q), L>> \in R
    BY <1>4, <2>2 DEF R, StrictSubsetOrdering
  <2>. QED
    BY <1>3, <2>1, <2>3
<1>. QED
  BY <1>1, <1>5

LEMMA OldestIs ==
    ASSUME NEW S \in SUBSET Points, S # {}
    PROVE  Oldest(S) \in S /\ \A q \in S : Oldest(S) <= q
  BY OldestExists DEF Oldest

LEMMA NewestIs ==
    ASSUME NEW S \in SUBSET Points, S # {}
    PROVE  Newest(S) \in S /\ \A q \in S : q <= Newest(S)
  BY NewestExists DEF Newest

\* Adding fixes to a set moves its newest and oldest fix as a comparison says.
LEMMA NewestOfUnion ==
    ASSUME NEW S \in SUBSET Points, NEW T \in SUBSET Points, T # {}
    PROVE  Newest(S \cup T) =
               IF S = {} \/ Newest(T) > Newest(S) THEN Newest(T) ELSE Newest(S)
<1>1. S \cup T \in SUBSET Points /\ Points \subseteq Nat
  BY PointsAssumption
<1>2. Newest(S \cup T) \in S \cup T /\ \A q \in S \cup T : q <= Newest(S \cup T)
  BY <1>1, NewestIs
<1>3. Newest(T) \in T /\ \A q \in T : q <= Newest(T)
  BY NewestIs
<1>4. CASE S = {}
  BY <1>4
<1>5. CASE S # {}
  <2>1. Newest(S) \in S /\ \A q \in S : q <= Newest(S)
    BY <1>5, NewestIs
  <2>. DEFINE u == Newest(S \cup T)
              s == Newest(S)
              t == Newest(T)
  <2>2. u \in Nat /\ s \in Nat /\ t \in Nat /\ s \in S /\ t \in T
    BY <1>1, <1>2, <1>3, <2>1
  <2>3. s <= u /\ t <= u
    BY <1>2, <2>2
  <2>4. u <= s \/ u <= t
    BY <1>2, <1>3, <2>1
  <2>5. u = IF t > s THEN t ELSE s
    BY <2>2, <2>3, <2>4
  <2>. QED
    BY <1>5, <2>5
<1>. QED
  BY <1>4, <1>5

LEMMA OldestOfUnion ==
    ASSUME NEW S \in SUBSET Points, NEW T \in SUBSET Points, T # {}
    PROVE  Oldest(S \cup T) =
               IF S = {} \/ Oldest(T) < Oldest(S) THEN Oldest(T) ELSE Oldest(S)
<1>1. S \cup T \in SUBSET Points /\ Points \subseteq Nat
  BY PointsAssumption
<1>2. Oldest(S \cup T) \in S \cup T /\ \A q \in S \cup T : Oldest(S \cup T) <= q
  BY <1>1, OldestIs
<1>3. Oldest(T) \in T /\ \A q \in T : Oldest(T) <= q
  BY OldestIs
<1>4. CASE S = {}
  BY <1>4
<1>5. CASE S # {}
  <2>1. Oldest(S) \in S /\ \A q \in S : Oldest(S) <= q
    BY <1>5, OldestIs
  <2>. DEFINE u == Oldest(S \cup T)
              s == Oldest(S)
              t == Oldest(T)
  <2>2. u \in Nat /\ s \in Nat /\ t \in Nat /\ s \in S /\ t \in T
    BY <1>1, <1>2, <1>3, <2>1
  <2>3. u <= s /\ u <= t
    BY <1>2, <2>2
  <2>4. s <= u \/ t <= u
    BY <1>2, <1>3, <2>1
  <2>5. u = IF t < s THEN t ELSE s
    BY <2>2, <2>3, <2>4
  <2>. QED
    BY <1>5, <2>5
<1>. QED
  BY <1>4, <1>5

-----------------------------------------------------------------------------
(* What one step does to the figures of one session.                        *)

IInv == TypeOK /\ TotalCountsStored /\ MarkerIsNewest /\ FirstIsOldest

\* Either the step stores new fixes of one session, or no figure moves.
LEMMA IngestFigures ==
    ASSUME IInv, NEW s \in Sessions, NEW pts \in SUBSET Points,
           NEW refused \in SUBSET Points, Ingest(s, pts, refused),
           NEW t \in Sessions
    PROVE  /\ stored'[t] \in SUBSET Points
           /\ total'[t] = Cardinality(stored'[t])
           /\ IF stored'[t] = {} THEN anchor'[t] = 0
                                 ELSE anchor'[t] = Newest(stored'[t])
           /\ IF stored'[t] = {} THEN firstAt'[t] = 0
                                 ELSE firstAt'[t] = Oldest(stored'[t])
<1>. DEFINE new == Accepted(s, pts, refused)
            old == stored[s]
<1>1. /\ new \in SUBSET Points /\ old \in SUBSET Points /\ new \cap old = {}
      /\ Points \subseteq Nat \ {0}
  BY PointsAssumption DEF IInv, TypeOK, Accepted
<1>2. CASE t # s
  BY <1>2 DEF Ingest, IInv, TypeOK, TotalCountsStored, MarkerIsNewest, FirstIsOldest
<1>3. CASE t = s /\ new = {}
  <2>1. /\ stored'[t] = stored[t] /\ anchor'[t] = anchor[t]
        /\ firstAt'[t] = firstAt[t]
    BY <1>3 DEF Earliest, Ingest, Advanced, IInv, TypeOK
  <2>2. total'[t] = total[t]
    BY <1>3, FS_EmptySet DEF Ingest, IInv, TypeOK
  <2>. QED
    BY <1>1, <1>3, <2>1, <2>2 DEF IInv, TotalCountsStored, MarkerIsNewest, FirstIsOldest
<1>4. CASE t = s /\ new # {}
  <2>1. stored'[s] = old \cup new /\ stored'[s] # {}
    BY <1>4 DEF Ingest, IInv, TypeOK
  <2>2. total'[s] = Cardinality(old) + Cardinality(new)
    BY DEF Ingest, IInv, TypeOK, TotalCountsStored
  <2>3. Cardinality(old \cup new) = Cardinality(old) + Cardinality(new)
    <3>1. IsFiniteSet(old) /\ IsFiniteSet(new)
      BY <1>1, PointsAssumption, FS_Subset
    <3>2. /\ Cardinality(old) \in Nat /\ Cardinality(new) \in Nat
          /\ Cardinality(old \cap new) = 0
      BY <1>1, <3>1, FS_CardinalityType, FS_EmptySet
    <3>3. Cardinality(old \cup new) =
              Cardinality(old) + Cardinality(new) - Cardinality(old \cap new)
      BY <3>1, FS_Union
    <3>. QED
      BY <3>2, <3>3
  <2>4. anchor'[s] = Newest(old \cup new)
    <3>1. anchor'[s] = IF anchor[s] = 0 \/ Newest(new) > anchor[s]
                       THEN Newest(new) ELSE anchor[s]
      BY <1>4 DEF Ingest, Advanced, IInv, TypeOK
    <3>2. Newest(old \cup new) = IF old = {} \/ Newest(new) > Newest(old)
                                 THEN Newest(new) ELSE Newest(old)
      BY <1>1, <1>4, NewestOfUnion
    <3>3. CASE old = {}
      BY <3>1, <3>2, <3>3 DEF IInv, MarkerIsNewest
    <3>4. CASE old # {}
      <4>1. anchor[s] = Newest(old) /\ Newest(old) \in Nat \ {0}
        BY <1>1, <3>4, NewestIs DEF IInv, MarkerIsNewest
      <4>. QED
        BY <3>1, <3>2, <3>4, <4>1
    <3>. QED
      BY <3>3, <3>4
  <2>5. firstAt'[s] = Oldest(old \cup new)
    <3>1. firstAt'[s] = IF firstAt[s] = 0 THEN Oldest(new)
                        ELSE IF Oldest(new) < firstAt[s] THEN Oldest(new)
                                                         ELSE firstAt[s]
      BY <1>4 DEF Earliest, Ingest, IInv, TypeOK
    <3>2. Oldest(old \cup new) = IF old = {} \/ Oldest(new) < Oldest(old)
                                 THEN Oldest(new) ELSE Oldest(old)
      BY <1>1, <1>4, OldestOfUnion
    <3>3. CASE old = {}
      BY <3>1, <3>2, <3>3 DEF IInv, FirstIsOldest
    <3>4. CASE old # {}
      <4>1. firstAt[s] = Oldest(old) /\ Oldest(old) \in Nat \ {0}
        BY <1>1, <3>4, OldestIs DEF IInv, FirstIsOldest
      <4>. QED
        BY <3>1, <3>2, <3>4, <4>1
    <3>. QED
      BY <3>3, <3>4
  <2>. QED
    BY <1>1, <1>4, <2>1, <2>2, <2>3, <2>4, <2>5
<1>. QED
  BY <1>2, <1>3, <1>4

StatusStep(s) == Pause(s) \/ Resume(s) \/ Close(s) \/ Regenerate(s) \/ Claim(s)

\* The other writers of status leave the figures alone.
LEMMA StatusSteps ==
    ASSUME TypeOK, NEW s \in Sessions, StatusStep(s)
    PROVE  /\ status' \in [Sessions -> Status]
           /\ UNCHANGED <<stored, anchor, total, started, firstAt>>
  BY DEF TypeOK, StatusStep, Pause, Resume, Close, Regenerate, Claim, Status, OpenStatus

LEMMA TypeStep == IInv /\ [Next]_serverVars => TypeOK'
<1>. SUFFICES ASSUME IInv, [Next]_serverVars PROVE TypeOK'
  OBVIOUS
<1>. USE DEF IInv
<1>1. ASSUME NEW s \in Sessions, NEW pts \in SUBSET Points,
             NEW refused \in SUBSET (pts \cap Suspect), Ingest(s, pts, refused)
      PROVE  TypeOK'
  <2>. DEFINE new == Accepted(s, pts, refused)
  <2>1. new \in SUBSET Points /\ refused \in SUBSET Points
    BY DEF Accepted
  <2>2. new # {} => Newest(new) \in Points /\ Oldest(new) \in Points
    BY <2>1, NewestIs, OldestIs
  <2>3. /\ stored' \in [Sessions -> SUBSET Points]
        /\ status' \in [Sessions -> Status]
    BY <1>1, <2>1 DEF Ingest, TypeOK, Status, OpenStatus
  <2>4. /\ anchor' \in [Sessions -> Points \cup {0}]
        /\ started' \in [Sessions -> Points \cup {0}]
    BY <1>1, <2>2 DEF Ingest, TypeOK, Advanced
  <2>5. Earliest(firstAt[s], new) \in Points \cup {0}
    <3>1. firstAt[s] \in Points \cup {0}
      BY DEF TypeOK
    <3>. QED
      BY <2>2, <3>1 DEF Earliest
  <2>6. firstAt' \in [Sessions -> Points \cup {0}]
    BY <1>1, <2>5 DEF Ingest, TypeOK
  <2>7. Cardinality(new) \in Nat
    BY <2>1, PointsAssumption, FS_Subset, FS_CardinalityType
  <2>8. total' \in [Sessions -> Nat]
    BY <1>1, <2>7 DEF Ingest, TypeOK
  <2>. QED
    BY <2>3, <2>4, <2>6, <2>8 DEF TypeOK
<1>2. ASSUME NEW s \in Sessions, StatusStep(s)
      PROVE  TypeOK'
  BY <1>2, StatusSteps DEF TypeOK
<1>3. CASE UNCHANGED serverVars
  BY <1>3 DEF serverVars, TypeOK
<1>. QED
  BY <1>1, <1>2, <1>3 DEF Next, StatusStep

LEMMA InductiveInit == Init => IInv
  BY FS_EmptySet DEF Init, IInv, TypeOK, TotalCountsStored, MarkerIsNewest,
                     FirstIsOldest, Status, OpenStatus

LEMMA InductiveStep == IInv /\ [Next]_serverVars => IInv'
<1>. SUFFICES ASSUME IInv, [Next]_serverVars PROVE IInv'
  OBVIOUS
<1>1. ASSUME NEW s \in Sessions, NEW pts \in SUBSET Points,
             NEW refused \in SUBSET (pts \cap Suspect), Ingest(s, pts, refused)
      PROVE  (TotalCountsStored /\ MarkerIsNewest /\ FirstIsOldest)'
  BY <1>1, IngestFigures DEF TotalCountsStored, MarkerIsNewest, FirstIsOldest
<1>2. ASSUME UNCHANGED <<stored, anchor, total, started, firstAt>>
      PROVE  (TotalCountsStored /\ MarkerIsNewest /\ FirstIsOldest)'
  BY <1>2 DEF IInv, TotalCountsStored, MarkerIsNewest, FirstIsOldest
<1>3. (TotalCountsStored /\ MarkerIsNewest /\ FirstIsOldest)'
  BY <1>1, <1>2, StatusSteps DEF Next, StatusStep, serverVars, IInv
<1>. QED
  BY <1>3, TypeStep DEF IInv

LEMMA Inductive == Spec => []IInv
  BY InductiveInit, InductiveStep, PTL DEF Spec

\* The session row and the stored fixes keep their types (ingest_points).
THEOREM TypeCorrect == Spec => []TypeOK
  BY Inductive, PTL DEF IInv

\* points_total is the number of fixes stored, for every order and repetition
\* of batches.
THEOREM TotalIsExact == Spec => []TotalCountsStored
  BY Inductive, PTL DEF IInv

\* last_point_at is the newest fix stored, so the live marker never rewinds.
THEOREM MarkerIsExact == Spec => []MarkerIsNewest
  BY Inductive, PTL DEF IInv

\* first_point_at is the oldest fix stored.
THEOREM FirstIsExact == Spec => []FirstIsOldest
  BY Inductive, PTL DEF IInv

\* The figures of the session row are those of the stored fixes.
THEOREM RowIsExact == Spec => []RowIsTheStore
  BY Inductive, PTL DEF IInv, RowIsTheStore

\* What ReplayIsFree says of one step.
Free == \A s \in Sessions : stored'[s] = stored[s] =>
    /\ anchor'[s] = anchor[s] /\ total'[s] = total[s]
    /\ started'[s] = started[s] /\ firstAt'[s] = firstAt[s]

LEMMA ReplayStep ==
  ASSUME IInv, Next
  PROVE  Free
<1>1. ASSUME NEW s \in Sessions, NEW pts \in SUBSET Points,
             NEW refused \in SUBSET (pts \cap Suspect), Ingest(s, pts, refused),
             NEW t \in Sessions, stored'[t] = stored[t]
      PROVE  /\ anchor'[t] = anchor[t] /\ total'[t] = total[t]
             /\ started'[t] = started[t] /\ firstAt'[t] = firstAt[t]
  <2>1. CASE t # s
    BY <1>1, <2>1 DEF Ingest, IInv, TypeOK
  <2>2. CASE t = s
    <3>1. Accepted(s, pts, refused) = {}
      BY <1>1, <2>2 DEF Ingest, Accepted, IInv, TypeOK
    <3>2. /\ anchor'[s] = anchor[s] /\ started'[s] = started[s]
          /\ firstAt'[s] = firstAt[s]
      BY <1>1, <3>1 DEF Earliest, Ingest, Advanced, IInv, TypeOK
    <3>3. total'[s] = total[s]
      BY <1>1, <3>1, FS_EmptySet DEF Ingest, IInv, TypeOK
    <3>. QED
      BY <2>2, <3>2, <3>3
  <2>. QED
    BY <2>1, <2>2
<1>. QED
  BY <1>1, StatusSteps DEF Next, StatusStep, IInv, Free

\* Uploading a batch again changes no figure of the session.
THEOREM ReplaysAreFree == Spec => ReplayIsFree
<1>1. IInv /\ [Next]_serverVars => [Free]_serverVars
  BY ReplayStep
<1>. QED
  BY <1>1, Inductive, PTL DEF Spec, ReplayIsFree, Free

-----------------------------------------------------------------------------
(* The way to the page.                                                     *)

Requests == {"sub", "unsub"} \X Views

FeedTypes == FeedTypeOK /\ wire \in Seq(Frames) /\ asks \in Seq(Requests)

\* The position of session s that a frame carries, 0 for none.
At(f, s) == IF f.kind = "position" /\ f.session = s THEN f.at
            ELSE IF f.kind = "positions" THEN f.at[s] ELSE 0

\* Nothing on its way to the page is newer than p.
Shown(s, p) == live[s] <= p /\ \A i \in DOMAIN wire : At(wire[i], s) <= p

Heads(t, s) == t.kind = "batch" /\ t.session = s /\ ~t.headed /\ t.live # 0

Chain(s) ==
    /\ Shown(s, anchor[s]) /\ pending[s] <= anchor[s]
    /\ \A t \in tasks : Heads(t, s) =>
          Shown(s, t.live) /\ pending[s] <= t.live /\ t.live <= anchor[s]
    /\ pending[s] # 0 => Shown(s, pending[s])
    /\ \A i \in DOMAIN wire : At(wire[i], s) # 0 => live[s] <= At(wire[i], s)
    /\ \A i, j \in DOMAIN wire : i < j /\ At(wire[j], s) # 0 =>
          At(wire[i], s) <= At(wire[j], s)

\* One broadcast at a time.
Lone(s) == \A t, u \in tasks : t.session = s /\ u.session = s => t = u

Chains == \A s \in Sessions : s \notin overtaken => Chain(s) /\ Lone(s)

Covers(f, s, p) == /\ f.kind = "backfill" /\ f.session = s
                   /\ f.truncated \/ (p \in f.points /\ Cardinality(f.points) > 1)

Drawn == (view \in Sessions /\ ~needsRefetch /\ "segment" \notin missed) =>
    \A p \in emitted[view] :
        \/ p \in route
        \/ \E b \in backfills : p \in b /\ Cardinality(b) > 1
        \/ \E i \in DOMAIN wire : Covers(wire[i], view, p)

Kept == /\ \A s \in Sessions : emitted[s] \subseteq stored[s]
        /\ \A t \in tasks : t.kind = "batch" => t.segment \subseteq stored[t.session]

\* The last request for room r that is still on the way, if there is one.
LastFor(r, i) == /\ i \in DOMAIN asks /\ asks[i][2] = r
                 /\ \A j \in DOMAIN asks : j > i => asks[j][2] # r

Unasked(r) == \A i \in DOMAIN asks : asks[i][2] # r

Joined ==
    IF conn = "up"
    THEN \A r \in Views :
            /\ Unasked(r) => (r \in rooms <=> r = view)
            /\ \A i \in DOMAIN asks : LastFor(r, i) => (asks[i][1] = "sub" <=> r = view)
    ELSE rooms = {} /\ \A i \in DOMAIN asks : asks[i][1] = "unsub"

\* v is the status of session s, or the ACTIVE that STARTED reports.
Agree(v, x) == v = x \/ (v = "ACTIVE" /\ x \in OpenStatus)
Fits(v, s) == Agree(v, status[s])

\* A broadcast that tells a status, and which.
Talks(t) == t.kind = "status" \/ t.active
Says(t) == IF t.kind = "status" THEN t.status ELSE "ACTIVE"

Truthful == \A t \in tasks : Talks(t) /\ t.session \notin overtaken => Fits(Says(t), t.session)

Speaks(f) == f.kind = "state" /\ f.session = view

\* The last status on the way to the page is so, or the one it shows if none is.
Latest ==
    /\ \A i \in DOMAIN wire :
          Speaks(wire[i]) /\ (\A j \in DOMAIN wire : j > i => ~Speaks(wire[j]))
             => Fits(wire[i].status, view)
    /\ (\A i \in DOMAIN wire : ~Speaks(wire[i])) /\ told # None => Fits(told, view)

Informed ==
    (/\ view \in Sessions /\ view \notin overtaken /\ "status" \notin missed
     /\ \A t \in tasks : t.session = view => ~Talks(t)) => Latest

FeedInv == IInv /\ FeedTypes /\ Chains /\ Kept /\ Drawn /\ Joined /\ Truthful /\ Informed

-----------------------------------------------------------------------------
(* Sequences.                                                              *)

\* What w \o f holds, from either side.
LEMMA Joining ==
  ASSUME NEW S, NEW w \in Seq(S), NEW f \in Seq(S)
  PROVE  /\ w \o f \in Seq(S) /\ Len(w) \in Nat
         /\ \A i \in DOMAIN (w \o f) :
               \/ i \in DOMAIN w /\ i <= Len(w) /\ (w \o f)[i] = w[i]
               \/ i > Len(w) /\ i - Len(w) \in DOMAIN f /\ (w \o f)[i] = f[i - Len(w)]
         /\ \A i \in DOMAIN w : i \in DOMAIN (w \o f) /\ i <= Len(w) /\ (w \o f)[i] = w[i]
         /\ \A i \in DOMAIN f : /\ Len(w) + i \in DOMAIN (w \o f)
                                /\ (w \o f)[Len(w) + i] = f[i]
<1>1. /\ w \o f \in Seq(S) /\ Len(w \o f) = Len(w) + Len(f)
      /\ \A i \in 1 .. Len(w) + Len(f) : (w \o f)[i] =
                     IF i <= Len(w) THEN w[i] ELSE f[i - Len(w)]
  BY ConcatProperties
<1>2. /\ Len(w) \in Nat /\ Len(f) \in Nat /\ DOMAIN w = 1..Len(w) /\ DOMAIN f = 1..Len(f)
      /\ DOMAIN (w \o f) = 1..(Len(w) + Len(f))
  BY <1>1, LenProperties
<1>3. ASSUME NEW i \in DOMAIN (w \o f)
      PROVE  \/ i \in DOMAIN w /\ i <= Len(w) /\ (w \o f)[i] = w[i]
             \/ i > Len(w) /\ i - Len(w) \in DOMAIN f /\ (w \o f)[i] = f[i - Len(w)]
  <2>1. i \in Int /\ (w \o f)[i] = IF i <= Len(w) THEN w[i] ELSE f[i - Len(w)]
    BY <1>1, <1>2
  <2>. QED
    BY <1>2, <2>1
<1>4. ASSUME NEW i \in DOMAIN w
      PROVE  i \in DOMAIN (w \o f) /\ i <= Len(w) /\ (w \o f)[i] = w[i]
  BY <1>1, <1>2
<1>5. ASSUME NEW i \in DOMAIN f
      PROVE  Len(w) + i \in DOMAIN (w \o f) /\ (w \o f)[Len(w) + i] = f[i]
  <2>1. /\ i \in 1..Len(f) /\ Len(w) + i \in 1 .. Len(w) + Len(f)
        /\ ~(Len(w) + i <= Len(w)) /\ (Len(w) + i) - Len(w) = i
    BY <1>2
  <2>. QED
    BY <1>1, <1>2, <2>1
<1>. QED
  BY <1>1, <1>2, <1>3, <1>4, <1>5

LEMMA Falling ==
  ASSUME NEW S, NEW w \in Seq(S), w # <<>>
  PROVE  /\ Head(w) \in S /\ Tail(w) \in Seq(S) /\ Head(w) = w[1] /\ 1 \in DOMAIN w
         /\ \A i \in DOMAIN Tail(w) : i + 1 \in DOMAIN w /\ i >= 1 /\ Tail(w)[i] = w[i + 1]
         /\ \A i \in DOMAIN w : i = 1 \/ (i - 1 \in DOMAIN Tail(w) /\ i > 1)
<1>1. /\ Head(w) \in S /\ Tail(w) \in Seq(S) /\ Len(Tail(w)) = Len(w) - 1
      /\ \A i \in 1 .. Len(Tail(w)) : Tail(w)[i] = w[i + 1]
  BY HeadTailProperties
<1>2. /\ Len(w) \in Nat \ {0} /\ DOMAIN w = 1..Len(w) /\ DOMAIN Tail(w) = 1..Len(Tail(w))
  BY <1>1, LenProperties, EmptySeq
<1>3. Head(w) = w[1]
  OBVIOUS
<1>. QED
  BY <1>1, <1>2, <1>3

LEMMA One ==
  ASSUME NEW S, NEW x \in S
  PROVE  /\ <<x>> \in Seq(S) /\ DOMAIN <<x>> = {1} /\ <<x>>[1] = x
  OBVIOUS

LEMMA None0 ==
  ASSUME NEW S
  PROVE  <<>> \in Seq(S) /\ DOMAIN <<>> = {}
  OBVIOUS

LEMMA Points0 == Points \cup {0} \subseteq Nat /\ Points \subseteq Nat /\ 0 \notin Points
  BY PointsAssumption

-----------------------------------------------------------------------------
(* The server half.                                                        *)

NoServer == UNCHANGED serverVars

\* Either the server stands still or it takes a step of its own; the STARTED
\* event is one that ingest_points alone does not have.
LEMMA ServerMoves ==
  ASSUME [FeedNext]_vars
  PROVE  NoServer \/ Next \/ \E s \in Sessions : Started(s)
<1>1. UNCHANGED vars => NoServer
  BY DEF vars, NoServer
<1>2. ASSUME NEW s \in Sessions, NEW pts \in SUBSET Points,
             NEW refused \in SUBSET (pts \cap Suspect), Post(s, pts, refused)
      PROVE  Next
  BY <1>2 DEF Post, Next
<1>3. ASSUME NEW s \in Sessions, Announce(s) PROVE Next
  BY <1>3 DEF Announce, Next
<1>4. ASSUME NEW t, EmitHead(t) \/ EmitTail(t) \/ EmitStatus(t) PROVE NoServer
  BY <1>4 DEF EmitHead, EmitTail, EmitStatus, NoServer
<1>5. FlushFleet \/ Serve \/ AnswerSnapshot \/ Drop \/ Reconnect => NoServer
  BY DEF FlushFleet, Serve, AnswerSnapshot, Drop, Reconnect, NoServer
<1>6. Deliver \/ ReadRoute \/ ReadFleet \/ (\E v \in Views : Navigate(v)) => NoServer
  BY DEF Deliver, ReadRoute, ReadFleet, Navigate, NoServer
<1>. QED
  BY <1>1, <1>2, <1>3, <1>4, <1>5, <1>6 DEF FeedNext

\* STARTED changes one status and none of the figures.
LEMMA StartedMoves ==
  ASSUME TypeOK, NEW s \in Sessions, Started(s)
  PROVE  /\ status' \in [Sessions -> Status]
         /\ UNCHANGED <<stored, anchor, total, started, firstAt>>
  BY DEF TypeOK, Started, Status, OpenStatus

LEMMA ServerInv ==
  ASSUME IInv, [FeedNext]_vars
  PROVE  IInv'
<1>1. ASSUME NEW s \in Sessions, Started(s) PROVE IInv'
  BY <1>1, StartedMoves DEF IInv, TypeOK, TotalCountsStored, MarkerIsNewest, FirstIsOldest
<1>. QED
  BY <1>1, ServerMoves, InductiveStep DEF NoServer

\* A commit only adds fixes and moves the marker forward.
LEMMA Forward ==
  ASSUME IInv, [FeedNext]_vars, NEW s \in Sessions
  PROVE  /\ stored[s] \subseteq stored'[s]
         /\ anchor[s] \in Nat /\ anchor'[s] \in Nat /\ anchor[s] <= anchor'[s]
<1>0. anchor[s] \in Nat /\ anchor'[s] \in Nat
  <2>1. anchor \in [Sessions -> Points \cup {0}] /\ anchor' \in [Sessions -> Points \cup {0}]
    BY ServerInv DEF IInv, TypeOK
  <2>. QED
    BY <2>1, Points0
<1>1. ASSUME NEW t \in Sessions, NEW pts \in SUBSET Points,
             NEW refused \in SUBSET (pts \cap Suspect), Ingest(t, pts, refused)
      PROVE  stored[s] \subseteq stored'[s] /\ anchor[s] <= anchor'[s]
  <2>. DEFINE new == Accepted(t, pts, refused)
  <2>1. stored'[s] = IF s = t THEN stored[s] \cup new ELSE stored[s]
    BY <1>1 DEF Ingest, IInv, TypeOK
  <2>2. anchor'[s] = IF s = t /\ Advanced(s, new) THEN Newest(new) ELSE anchor[s]
    BY <1>1 DEF Ingest, IInv, TypeOK
  <2>3. CASE s = t /\ Advanced(s, new)
    <3>1. anchor[s] = 0 \/ Newest(new) > anchor[s]
      BY <2>3 DEF Advanced
    <3>. QED
      BY <1>0, <2>1, <2>2, <2>3, <3>1
  <2>4. CASE ~(s = t /\ Advanced(s, new))
    BY <1>0, <2>1, <2>2, <2>4
  <2>. QED
    BY <2>3, <2>4
<1>2. ASSUME UNCHANGED <<stored, anchor>>
      PROVE  stored[s] \subseteq stored'[s] /\ anchor[s] <= anchor'[s]
  BY <1>0, <1>2
<1>3. ASSUME NEW t \in Sessions, StatusStep(t) \/ Started(t) PROVE UNCHANGED <<stored, anchor>>
  BY <1>3, StatusSteps, StartedMoves DEF IInv
<1>. QED
  BY <1>0, <1>1, <1>2, <1>3, ServerMoves DEF Next, StatusStep, NoServer, serverVars

-----------------------------------------------------------------------------
(* Types.                                                                  *)

NodeTypes == /\ tasks \subseteq Tasks /\ pending \in [Sessions -> Points \cup {0}]
             /\ rooms \subseteq Views /\ snapshotDue \in BOOLEAN
NetTypes == /\ wire \in Seq(Frames) /\ asks \in Seq(Requests)
            /\ conn \in {"up", "down"} /\ upsets \in 0 .. MaxUpsets
PageTypes == /\ view \in Views /\ live \in [Sessions -> Points \cup {0}]
             /\ rows \in [Sessions -> Points \cup {0}] /\ route \subseteq Points
             /\ backfills \subseteq SUBSET Points /\ needsRefetch \in BOOLEAN
             /\ told \in Status \cup {None}
GhostTypes == /\ overtaken \subseteq Sessions /\ emitted \in [Sessions -> SUBSET Points]
              /\ missed \subseteq {"segment", "status"}

LEMMA Groups == FeedTypes <=> TypeOK /\ NodeTypes /\ NetTypes /\ PageTypes /\ GhostTypes
<1>1. wire \in Seq(Frames) => \A i \in DOMAIN wire : wire[i] \in Frames
  BY ElementOfSeq, LenProperties
<1>2. asks \in Seq(Requests) => \A i \in DOMAIN asks : asks[i] \in Requests
  BY ElementOfSeq, LenProperties
<1>. QED
  BY <1>1, <1>2, Zenon DEF FeedTypes, FeedTypeOK, NodeTypes, NetTypes, PageTypes, GhostTypes,
     Requests

LEMMA NextGroups ==
  ASSUME TypeOK', NodeTypes', NetTypes', PageTypes', GhostTypes'
  PROVE  FeedTypes'
<1>1. wire' \in Seq(Frames) /\ asks' \in Seq(Requests)
  BY DEF NetTypes
<1>2. \A i \in DOMAIN wire' : wire'[i] \in Frames
  BY <1>1, ElementOfSeq, LenProperties
<1>3. \A i \in DOMAIN asks' : asks'[i] \in Requests
  BY <1>1, ElementOfSeq, LenProperties
<1>. QED
  BY <1>1, <1>2, <1>3, Zenon DEF FeedTypes, FeedTypeOK, NodeTypes, NetTypes, PageTypes,
     GhostTypes, Requests

LEMMA BatchTask ==
  ASSUME NEW t \in Tasks, t.kind = "batch"
  PROVE  /\ t.session \in Sessions /\ t.live \in Points \cup {0} /\ t.segment \in SUBSET Points
         /\ t.active \in BOOLEAN /\ t.headed \in BOOLEAN
         /\ [t EXCEPT !.headed = TRUE] \in Tasks
<1>1. t \in [kind : {"batch"}, session : Sessions, live : Points \cup {0},
             segment : SUBSET Points, active : BOOLEAN, headed : BOOLEAN]
  BY DEF Tasks
<1>2. /\ t.session \in Sessions /\ t.live \in Points \cup {0} /\ t.segment \in SUBSET Points
      /\ t.active \in BOOLEAN /\ t.headed \in BOOLEAN
  BY <1>1
<1>3. [t EXCEPT !.headed = TRUE] \in [kind : {"batch"}, session : Sessions,
         live : Points \cup {0}, segment : SUBSET Points, active : BOOLEAN, headed : BOOLEAN]
  BY <1>1
<1>. QED
  BY <1>2, <1>3 DEF Tasks

\* What is left of a task whose head went out.
LEMMA HeadedTask ==
  ASSUME NEW t \in Tasks, t.kind = "batch"
  PROVE  LET u == [t EXCEPT !.headed = TRUE]
         IN  u.kind = "batch" /\ u.headed = TRUE /\ u.session = t.session /\ u.segment = t.segment
<1>1. t \in [kind : {"batch"}, session : Sessions, live : Points \cup {0},
             segment : SUBSET Points, active : BOOLEAN, headed : BOOLEAN]
  BY DEF Tasks
<1>. QED
  BY <1>1

LEMMA StatusTask ==
  ASSUME NEW t \in Tasks, t.kind = "status"
  PROVE  t.session \in Sessions /\ t.status \in Status
  BY DEF Tasks

LEMMA PositionFrame ==
  ASSUME NEW t \in Tasks, t.kind = "batch"
  PROVE  /\ PositionFrames(t) \in Seq(Frames)
         /\ \A i \in DOMAIN PositionFrames(t) :
               /\ t.live # 0 /\ i = 1
               /\ PositionFrames(t)[i].kind = "position"
               /\ PositionFrames(t)[i].session = t.session /\ PositionFrames(t)[i].at = t.live
<1>. DEFINE f == [kind |-> "position", session |-> t.session, at |-> t.live]
<1>1. CASE t.live = 0
  BY <1>1, None0 DEF PositionFrames
<1>2. CASE t.live # 0
  <2>1. f \in Frames /\ f.kind = "position" /\ f.session = t.session /\ f.at = t.live
    BY <1>2, BatchTask DEF Frames
  <2>2. PositionFrames(t) = <<f>>
    BY <1>2 DEF PositionFrames
  <2>. HIDE DEF f
  <2>. QED
    BY <1>2, <2>1, <2>2, One
<1>. QED
  BY <1>1, <1>2

LEMMA StateFrame ==
  ASSUME NEW t \in Tasks, t.kind = "batch"
  PROVE  /\ StateFrames(t) \in Seq(Frames)
         /\ \A i \in DOMAIN StateFrames(t) : StateFrames(t)[i].kind = "state"
<1>. DEFINE f == [kind |-> "state", session |-> t.session, status |-> "ACTIVE"]
<1>1. f \in Frames /\ f.kind = "state"
  BY BatchTask DEF Frames, Status, OpenStatus
<1>2. StateFrames(t) = <<>> \/ StateFrames(t) = <<f>>
  BY DEF StateFrames
<1>. HIDE DEF f
<1>. QED
  BY <1>1, <1>2, One, None0

LEMMA StatusFrame ==
  ASSUME NEW t \in Tasks, t.kind = "status"
  PROVE  /\ StatusFrames(t) \in Seq(Frames)
         /\ \A i \in DOMAIN StatusFrames(t) : StatusFrames(t)[i].kind = "state"
<1>. DEFINE f == [kind |-> "state", session |-> t.session, status |-> t.status]
<1>1. f \in Frames /\ f.kind = "state"
  BY StatusTask DEF Frames
<1>2. StatusFrames(t) = <<f>>
  BY DEF StatusFrames
<1>. HIDE DEF f
<1>. QED
  BY <1>1, <1>2, One

LEMMA BackfillFrame ==
  ASSUME NEW t \in Tasks, t.kind = "batch"
  PROVE  \E f \in Frames :
            /\ BackfillFrames(t) = <<f>> /\ BackfillFrames(t) \in Seq(Frames)
            /\ f.kind = "backfill" /\ f.session = t.session
            /\ f.truncated \/ f.points = t.segment
<1>. DEFINE b == Cardinality(t.segment) > Cap
            f == [kind |-> "backfill", session |-> t.session, truncated |-> b,
                  points |-> IF b THEN {} ELSE t.segment]
<1>1. t.session \in Sessions /\ t.segment \in SUBSET Points
  BY BatchTask
<1>2. b \in BOOLEAN
  OBVIOUS
<1>3. BackfillFrames(t) = <<f>>
  BY DEF BackfillFrames
<1>. HIDE DEF b
<1>4. /\ f \in Frames /\ f.kind = "backfill" /\ f.session = t.session
      /\ f.truncated \/ f.points = t.segment
  BY <1>1, <1>2 DEF Frames
<1>. HIDE DEF f
<1>. QED
  BY <1>3, <1>4, One

LEMMA SaidTypes ==
  ASSUME wire \in Seq(Frames), NEW frames \in Seq(Frames), NEW room, Say(room, frames)
  PROVE  wire' \in Seq(Frames)
  BY Joining DEF Say

LEMMA LossTypes ==
  ASSUME NEW s, NEW frames
  PROVE  Unheard(s, frames) \subseteq {"segment", "status"}
         /\ Losses(frames) \subseteq {"segment", "status"}
  BY DEF Unheard, Losses

LEMMA UpsetTypes ==
  ASSUME upsets \in 0 .. MaxUpsets, Upset \/ UNCHANGED upsets
  PROVE  upsets' \in 0 .. MaxUpsets
  BY CapsAssumption DEF Upset

\* A commit leaves the network and the page alone; it starts one broadcast.
Commits(t) ==
    /\ tasks' = tasks \cup {t}
    /\ overtaken' = IF Busy(t.session) THEN overtaken \cup {t.session} ELSE overtaken

LEMMA BatchStarts ==
  ASSUME IInv, NEW s \in Sessions, NEW pts \in SUBSET Points,
         NEW refused \in SUBSET (pts \cap Suspect), Post(s, pts, refused)
  PROVE  \/ UNCHANGED <<tasks, overtaken>>
         \/ \E t \in Tasks :
               /\ Commits(t) /\ t.kind = "batch" /\ t.session = s
               /\ t.segment \subseteq stored'[s]
               /\ t.live # 0 => (anchor[s] = 0 \/ t.live > anchor[s]) /\ anchor'[s] = t.live
<1>. DEFINE new == Accepted(s, pts, refused)
            a == status'[s] = "ACTIVE"
            t == [kind |-> "batch", session |-> s, live |-> LiveHead(s, new),
                  segment |-> Segment(s, new), active |-> a, headed |-> FALSE]
<1>1. new \in SUBSET Points /\ Ingest(s, pts, refused)
  BY DEF Accepted, Post
<1>2. CASE new = {}
  BY <1>2 DEF Post
<1>3. CASE new # {}
  <2>1. Start(t)
    BY <1>3 DEF Post
  <2>2. Newest(new) \in Points
    BY <1>1, <1>3, NewestIs
  <2>3. LiveHead(s, new) \in Points \cup {0} /\ Segment(s, new) \in SUBSET Points
    BY <1>1, <2>2 DEF LiveHead, Segment
  <2>4. stored'[s] = stored[s] \cup new /\ Segment(s, new) \subseteq new
    BY <1>1 DEF Ingest, IInv, TypeOK, Segment
  <2>5. LiveHead(s, new) # 0 =>
           /\ anchor[s] = 0 \/ LiveHead(s, new) > anchor[s]
           /\ anchor'[s] = LiveHead(s, new)
    <3>1. anchor'[s] = IF Advanced(s, new) THEN Newest(new) ELSE anchor[s]
      BY <1>1 DEF Ingest, IInv, TypeOK
    <3>. QED
      BY <3>1 DEF LiveHead, Advanced
  <2>6. a \in BOOLEAN
    OBVIOUS
  <2>. HIDE DEF a, new
  <2>7. /\ t \in Tasks /\ t.kind = "batch" /\ t.session = s
        /\ t.segment = Segment(s, new) /\ t.live = LiveHead(s, new)
    BY <2>3, <2>6 DEF Tasks
  <2>8. Commits(t)
    BY <2>1 DEF Start, Commits
  <2>. HIDE DEF t
  <2>9. t.segment \subseteq stored'[s]
    BY <2>4, <2>7
  <2>. QED
    BY <2>5, <2>7, <2>8, <2>9
<1>. QED
  BY <1>2, <1>3

LEMMA StatusStarts ==
  ASSUME TypeOK, NEW s \in Sessions, Announce(s) \/ Started(s)
  PROVE  \E t \in Tasks : Commits(t) /\ t.kind = "status" /\ t.session = s
<1>1. ASSUME NEW v \in Status, Start([kind |-> "status", session |-> s, status |-> v])
      PROVE  \E t \in Tasks : Commits(t) /\ t.kind = "status" /\ t.session = s
  <2>. DEFINE t == [kind |-> "status", session |-> s, status |-> v]
  <2>1. t \in Tasks /\ t.kind = "status" /\ t.session = s
    BY DEF Tasks
  <2>2. Start(t)
    BY <1>1
  <2>. HIDE DEF t
  <2>. QED
    BY <2>1, <2>2 DEF Start, Commits
<1>2. CASE Announce(s)
  <2>1. status'[s] \in Status
    BY <1>2, StatusSteps DEF Announce, StatusStep
  <2>. QED
    BY <1>1, <1>2, <2>1 DEF Announce
<1>3. CASE Started(s)
  BY <1>1, <1>3 DEF Started, Status, OpenStatus
<1>. QED
  BY <1>2, <1>3

LEMMA InitTypes ==
  ASSUME FeedInit
  PROVE  IInv /\ FeedTypes
<1>1. IInv
  BY InductiveInit DEF FeedInit
<1>2. NodeTypes
  BY DEF FeedInit, NodeTypes, Nothing
<1>3. NetTypes
  <2>1. <<"sub", view>> \in Requests
    BY DEF FeedInit, Requests, Views
  <2>2. asks \in Seq(Requests)
    BY <2>1, One DEF FeedInit
  <2>3. wire \in Seq(Frames)
    BY None0 DEF FeedInit
  <2>4. upsets \in 0 .. MaxUpsets /\ conn \in {"up", "down"}
    BY CapsAssumption DEF FeedInit
  <2>. QED
    BY <2>2, <2>3, <2>4 DEF NetTypes
<1>4. PageTypes
  BY DEF FeedInit, PageTypes, Nothing, Views
<1>5. GhostTypes
  BY DEF FeedInit, GhostTypes
<1>. QED
  BY <1>1, <1>2, <1>3, <1>4, <1>5, Groups DEF IInv

\* The three steps of a broadcast.
LEMMA EmitTypes ==
  ASSUME NodeTypes, NetTypes, PageTypes, GhostTypes, NEW t \in tasks,
         EmitHead(t) \/ EmitTail(t) \/ EmitStatus(t)
  PROVE  NodeTypes' /\ NetTypes' /\ PageTypes' /\ GhostTypes'
<1>0. t \in Tasks
  BY DEF NodeTypes
<1>1. CASE EmitHead(t)
  <2>. DEFINE st == IF t.segment = {} THEN StateFrames(t) ELSE <<>>
              u == [t EXCEPT !.headed = TRUE]
  <2>1. /\ t.kind = "batch" /\ Say(t.session, PositionFrames(t) \o st)
        /\ pending' = IF t.live = 0 THEN pending ELSE [pending EXCEPT ![t.session] = t.live]
        /\ tasks' = (tasks \ {t}) \cup (IF t.segment = {} THEN {} ELSE {u})
        /\ missed' = missed \cup Unheard(t.session, st)
        /\ UNCHANGED <<rooms, snapshotDue, asks, conn, upsets, pageVars, overtaken, emitted>>
    BY <1>1 DEF EmitHead
  <2>2. st \in Seq(Frames)
    BY <1>0, <2>1, StateFrame, None0
  <2>3. wire' \in Seq(Frames)
    BY <1>0, <2>1, <2>2, PositionFrame, Joining, SaidTypes DEF NetTypes
  <2>4. u \in Tasks /\ t.live \in Points \cup {0}
    BY <1>0, <2>1, BatchTask
  <2>. HIDE DEF st, u
  <2>5. NodeTypes'
    BY <2>1, <2>4 DEF NodeTypes
  <2>6. NetTypes' /\ PageTypes'
    BY <2>1, <2>3 DEF NetTypes, PageTypes, pageVars
  <2>7. GhostTypes'
    BY <2>1, LossTypes DEF GhostTypes
  <2>. QED
    BY <2>5, <2>6, <2>7
<1>2. CASE EmitTail(t)
  <2>1. /\ t.kind = "batch" /\ Say(t.session, BackfillFrames(t) \o StateFrames(t))
        /\ tasks' = tasks \ {t}
        /\ emitted' = [emitted EXCEPT ![t.session] =
               IF Cardinality(t.segment) > 1 THEN @ \cup t.segment ELSE @]
        /\ missed' = missed \cup Unheard(t.session, BackfillFrames(t) \o StateFrames(t))
        /\ UNCHANGED <<pending, rooms, snapshotDue, asks, conn, upsets, pageVars, overtaken>>
    BY <1>2 DEF EmitTail
  <2>2. wire' \in Seq(Frames)
    BY <1>0, <2>1, StateFrame, BackfillFrame, Joining, SaidTypes DEF NetTypes
  <2>3. t.segment \in SUBSET Points
    BY <1>0, <2>1, BatchTask
  <2>4. GhostTypes'
    <3>1. emitted' \in [Sessions -> SUBSET Points]
      BY <2>1, <2>3 DEF GhostTypes
    <3>. QED
      BY <2>1, <3>1, LossTypes DEF GhostTypes
  <2>5. NodeTypes' /\ NetTypes' /\ PageTypes'
    BY <2>1, <2>2 DEF NodeTypes, NetTypes, PageTypes, pageVars
  <2>. QED
    BY <2>4, <2>5
<1>3. CASE EmitStatus(t)
  <2>1. /\ t.kind = "status" /\ Say(t.session, StatusFrames(t))
        /\ tasks' = tasks \ {t} /\ missed' = missed \cup Unheard(t.session, StatusFrames(t))
        /\ UNCHANGED <<pending, rooms, snapshotDue, asks, conn, upsets, pageVars, overtaken,
                       emitted>>
    BY <1>3 DEF EmitStatus
  <2>2. wire' \in Seq(Frames)
    BY <1>0, <2>1, StatusFrame, SaidTypes DEF NetTypes
  <2>. QED
    BY <2>1, <2>2, LossTypes DEF NodeTypes, NetTypes, PageTypes, GhostTypes, pageVars
<1>. QED
  BY <1>1, <1>2, <1>3

\* What else the server sends, and how it serves a request.
LEMMA ServeTypes ==
  ASSUME TypeOK, NodeTypes, NetTypes, PageTypes, GhostTypes,
         FlushFleet \/ Serve \/ AnswerSnapshot
  PROVE  NodeTypes' /\ NetTypes' /\ PageTypes' /\ GhostTypes'
<1>1. CASE FlushFleet
  <2>. DEFINE f == [kind |-> "positions", at |-> pending]
  <2>1. f \in Frames
    BY DEF Frames, NodeTypes
  <2>2. /\ Say(Fleet, <<f>>) /\ pending' = Nothing
        /\ UNCHANGED <<tasks, rooms, snapshotDue, asks, conn, upsets, pageVars, ghostVars>>
    BY <1>1 DEF FlushFleet
  <2>. HIDE DEF f
  <2>3. wire' \in Seq(Frames)
    BY <2>1, <2>2, One, SaidTypes DEF NetTypes
  <2>4. NodeTypes'
    BY <2>2 DEF NodeTypes, Nothing
  <2>. QED
    BY <2>2, <2>3, <2>4 DEF NetTypes, PageTypes, GhostTypes, pageVars, ghostVars
<1>2. CASE Serve
  <2>1. /\ asks # <<>> /\ asks' = Tail(asks)
        /\ rooms' = rooms \cup {Head(asks)[2]} \/ rooms' = rooms \ {Head(asks)[2]}
        /\ snapshotDue' \in BOOLEAN
        /\ UNCHANGED <<tasks, pending, wire, conn, upsets, pageVars, ghostVars>>
    BY <1>2 DEF Serve
  <2>2. Head(asks) \in Requests /\ asks' \in Seq(Requests)
    BY <2>1, Falling DEF NetTypes
  <2>3. Head(asks)[2] \in Views
    BY <2>2 DEF Requests
  <2>4. NodeTypes'
    BY <2>1, <2>3 DEF NodeTypes
  <2>. QED
    BY <2>1, <2>2, <2>4 DEF NetTypes, PageTypes, GhostTypes, pageVars, ghostVars
<1>3. CASE AnswerSnapshot
  <2>. DEFINE g == [s \in Sessions |-> SnapshotRow(s)]
              f == [kind |-> "snapshot", at |-> g]
  <2>1. g \in [Sessions -> Points \cup {0}]
    BY DEF SnapshotRow, TypeOK
  <2>2. /\ wire' = Append(wire, f) /\ snapshotDue' = FALSE
        /\ UNCHANGED <<tasks, pending, rooms, asks, conn, upsets, pageVars, ghostVars>>
    BY <1>3 DEF AnswerSnapshot
  <2>. HIDE DEF g
  <2>3. f \in Frames
    BY <2>1 DEF Frames
  <2>. HIDE DEF f
  <2>4. wire' \in Seq(Frames)
    BY <2>2, <2>3, AppendProperties DEF NetTypes
  <2>. QED
    BY <2>2, <2>4 DEF NodeTypes, NetTypes, PageTypes, GhostTypes, pageVars, ghostVars
<1>. QED
  BY <1>1, <1>2, <1>3

LEMMA ConnTypes ==
  ASSUME NodeTypes, NetTypes, PageTypes, GhostTypes, Drop \/ Reconnect
  PROVE  NodeTypes' /\ NetTypes' /\ PageTypes' /\ GhostTypes'
<1>1. CASE Drop
  <2>1. /\ conn' = "down" /\ wire' = <<>> /\ asks' = <<>> /\ rooms' = {} /\ snapshotDue' = FALSE
        /\ missed' = missed \cup Losses(wire) /\ Upset
        /\ UNCHANGED <<tasks, pending, pageVars, overtaken, emitted>>
    BY <1>1 DEF Drop
  <2>2. NetTypes'
    BY <2>1, UpsetTypes, None0 DEF NetTypes
  <2>3. GhostTypes'
    BY <2>1, LossTypes DEF GhostTypes
  <2>. QED
    BY <2>1, <2>2, <2>3 DEF NodeTypes, PageTypes, pageVars
<1>2. CASE Reconnect
  <2>1. <<"sub", view>> \in Requests
    BY DEF Requests, PageTypes
  <2>2. asks' \in Seq(Requests)
    BY <1>2, <2>1, AppendProperties DEF Reconnect, NetTypes
  <2>. QED
    BY <1>2, <2>2 DEF Reconnect, NodeTypes, NetTypes, PageTypes, GhostTypes, nodeVars,
       pageVars, ghostVars
<1>. QED
  BY <1>1, <1>2

\* What a frame does to the page: a position of a session is the one the frame
\* carries, and a segment is spliced or owed.
LEMMA DeliverMoves ==
  ASSUME NetTypes, PageTypes, Deliver
  PROVE  \E f \in Frames :
            /\ wire # <<>> /\ f = Head(wire) /\ wire' = Tail(wire)
            /\ live' \in [Sessions -> Points \cup {0}]
            /\ rows' \in [Sessions -> Points \cup {0}] /\ told' \in Status \cup {None}
            /\ \A s \in Sessions :
                  live'[s] = live[s] \/ (At(f, s) # 0 /\ live'[s] = At(f, s))
            /\ \/ f.kind = "backfill" /\ f.session = view /\ ~f.truncated
                  /\ backfills' = backfills \cup {f.points} /\ needsRefetch' = needsRefetch
               \/ needsRefetch' = TRUE /\ (backfills' = {} \/ backfills' = backfills)
               \/ /\ ~(f.kind = "backfill" /\ f.session = view)
                  /\ UNCHANGED <<backfills, needsRefetch>>
<1>. DEFINE f == Head(wire)
<1>1. /\ wire # <<>> /\ wire' = Tail(wire)
      /\ \/ f.kind \in {"positions", "snapshot"} /\ OnFleet(f)
         \/ f.kind = "position" /\ OnPosition(f)
         \/ f.kind = "backfill" /\ OnBackfill(f)
         \/ f.kind = "state" /\ OnState(f)
  BY DEF Deliver
<1>2. f \in Frames
  BY <1>1, Falling DEF NetTypes
<1>. HIDE DEF f
<1>3. /\ live \in [Sessions -> Points \cup {0}] /\ rows \in [Sessions -> Points \cup {0}]
      /\ told \in Status \cup {None}
  BY DEF PageTypes
<1>4. ASSUME f.kind \in {"positions", "snapshot"}, OnFleet(f)
      PROVE  /\ live' \in [Sessions -> Points \cup {0}]
             /\ rows' \in [Sessions -> Points \cup {0}]
             /\ \A s \in Sessions :
                   live'[s] = live[s] \/ (At(f, s) # 0 /\ live'[s] = At(f, s))
             /\ UNCHANGED <<backfills, needsRefetch, told>>
  <2>1. f.at \in [Sessions -> Points \cup {0}]
    BY <1>2, <1>4 DEF Frames
  <2>2. /\ live' = IF view = Fleet /\ f.kind = "positions"
                   THEN [s \in Sessions |-> IF f.at[s] # 0 THEN f.at[s] ELSE live[s]]
                   ELSE live
        /\ rows' = IF view = Fleet /\ f.kind = "snapshot" THEN f.at ELSE rows
        /\ UNCHANGED <<backfills, needsRefetch, told>>
    BY <1>4 DEF OnFleet
  <2>3. live' \in [Sessions -> Points \cup {0}] /\ rows' \in [Sessions -> Points \cup {0}]
    BY <1>3, <2>1, <2>2
  <2>4. ASSUME NEW s \in Sessions
        PROVE  live'[s] = live[s] \/ (At(f, s) # 0 /\ live'[s] = At(f, s))
    <3>1. CASE f.kind = "positions" /\ view = Fleet
      <4>1. live'[s] = IF f.at[s] # 0 THEN f.at[s] ELSE live[s]
        BY <2>2, <3>1
      <4>. QED
        BY <3>1, <4>1 DEF At
    <3>2. CASE ~(f.kind = "positions" /\ view = Fleet)
      BY <2>2, <3>2
    <3>. QED
      BY <3>1, <3>2
  <2>. QED
    BY <2>2, <2>3, <2>4
<1>5. ASSUME f.kind = "position", OnPosition(f)
      PROVE  /\ live' \in [Sessions -> Points \cup {0}]
             /\ \A s \in Sessions :
                   live'[s] = live[s] \/ (At(f, s) # 0 /\ live'[s] = At(f, s))
             /\ UNCHANGED <<rows, backfills, needsRefetch, told>>
  <2>1. f.session \in Sessions /\ f.at \in Points
    BY <1>2, <1>5 DEF Frames
  <2>2. f.at # 0
    BY <2>1, Points0
  <2>3. /\ live' = IF view = f.session THEN [live EXCEPT ![f.session] = f.at] ELSE live
        /\ UNCHANGED <<rows, backfills, needsRefetch, told>>
    BY <1>5 DEF OnPosition
  <2>4. \A s \in Sessions : At(f, s) = IF s = f.session THEN f.at ELSE 0
    BY <1>5 DEF At
  <2>. QED
    BY <1>3, <2>1, <2>2, <2>3, <2>4
<1>6. ASSUME f.kind = "backfill", OnBackfill(f)
      PROVE  /\ UNCHANGED <<live, rows, told>>
             /\ \/ f.session = view /\ ~f.truncated
                   /\ backfills' = backfills \cup {f.points} /\ needsRefetch' = needsRefetch
                \/ needsRefetch' = TRUE /\ (backfills' = {} \/ backfills' = backfills)
                \/ f.session # view /\ UNCHANGED <<backfills, needsRefetch>>
  BY <1>6 DEF OnBackfill
<1>7. ASSUME f.kind = "state", OnState(f)
      PROVE  /\ UNCHANGED <<live, rows, backfills, needsRefetch>>
             /\ told' \in Status \cup {None}
  <2>1. f.status \in Status
    BY <1>2, <1>7 DEF Frames
  <2>. QED
    BY <1>3, <1>7, <2>1 DEF OnState
<1>8. /\ live' \in [Sessions -> Points \cup {0}] /\ rows' \in [Sessions -> Points \cup {0}]
      /\ told' \in Status \cup {None}
      /\ \A s \in Sessions : live'[s] = live[s] \/ (At(f, s) # 0 /\ live'[s] = At(f, s))
  BY <1>1, <1>3, <1>4, <1>5, <1>6, <1>7
<1>9. \/ f.kind = "backfill" /\ f.session = view /\ ~f.truncated
            /\ backfills' = backfills \cup {f.points} /\ needsRefetch' = needsRefetch
      \/ needsRefetch' = TRUE /\ (backfills' = {} \/ backfills' = backfills)
      \/ /\ ~(f.kind = "backfill" /\ f.session = view)
         /\ UNCHANGED <<backfills, needsRefetch>>
  BY <1>1, <1>4, <1>5, <1>6, <1>7
<1>. QED
  BY <1>1, <1>2, <1>8, <1>9 DEF f

LEMMA PageMoveTypes ==
  ASSUME TypeOK, NodeTypes, NetTypes, PageTypes, GhostTypes,
         Deliver \/ ReadRoute \/ ReadFleet \/ \E v \in Views : Navigate(v)
  PROVE  NodeTypes' /\ NetTypes' /\ PageTypes' /\ GhostTypes'
<1>1. CASE Deliver
  <2>1. PICK f \in Frames :
            /\ wire # <<>> /\ f = Head(wire) /\ wire' = Tail(wire)
            /\ live' \in [Sessions -> Points \cup {0}]
            /\ rows' \in [Sessions -> Points \cup {0}] /\ told' \in Status \cup {None}
            /\ \/ f.kind = "backfill" /\ f.session = view /\ ~f.truncated
                  /\ backfills' = backfills \cup {f.points} /\ needsRefetch' = needsRefetch
               \/ needsRefetch' = TRUE /\ (backfills' = {} \/ backfills' = backfills)
               \/ UNCHANGED <<backfills, needsRefetch>>
    BY <1>1, DeliverMoves
  <2>2. wire' \in Seq(Frames)
    BY <2>1, Falling DEF NetTypes
  <2>3. f.kind = "backfill" => f.points \in SUBSET Points
    BY <2>1 DEF Frames
  <2>4. backfills' \subseteq SUBSET Points /\ needsRefetch' \in BOOLEAN
    BY <2>1, <2>3 DEF PageTypes
  <2>5. /\ UNCHANGED <<nodeVars, asks, conn, upsets, view, route, overtaken, emitted>>
        /\ missed' = missed \/ missed' = missed \cup {"status"}
    BY <1>1 DEF Deliver
  <2>6. PageTypes'
    BY <2>1, <2>4, <2>5 DEF PageTypes
  <2>. QED
    BY <2>2, <2>5, <2>6 DEF NodeTypes, NetTypes, GhostTypes, nodeVars
<1>2. CASE ReadRoute
  <2>1. /\ view \in Sessions /\ route' = stored[view] /\ needsRefetch' = FALSE
        /\ missed' = missed \ {"segment"} /\ (Upset \/ UNCHANGED upsets)
        /\ UNCHANGED <<nodeVars, wire, asks, conn, view, live, rows, backfills, told, overtaken,
                       emitted>>
    BY <1>2 DEF ReadRoute, Due
  <2>2. route' \subseteq Points
    BY <2>1 DEF TypeOK
  <2>. QED
    BY <2>1, <2>2, UpsetTypes DEF NodeTypes, NetTypes, PageTypes, GhostTypes, nodeVars
<1>3. CASE ReadFleet
  <2>1. /\ rows' = [s \in Sessions |-> SnapshotRow(s)] /\ needsRefetch' = FALSE
        /\ (Upset \/ UNCHANGED upsets)
        /\ UNCHANGED <<nodeVars, wire, asks, conn, view, live, route, backfills, told, ghostVars>>
    BY <1>3 DEF ReadFleet, Due
  <2>2. rows' \in [Sessions -> Points \cup {0}]
    BY <2>1 DEF SnapshotRow, TypeOK
  <2>. QED
    BY <2>1, <2>2, UpsetTypes DEF NodeTypes, NetTypes, PageTypes, GhostTypes, nodeVars, ghostVars
<1>4. ASSUME NEW v \in Views, Navigate(v)
      PROVE  NodeTypes' /\ NetTypes' /\ PageTypes' /\ GhostTypes'
  <2>. DEFINE more == IF conn = "up" THEN <<<<"unsub", view>>, <<"sub", v>>>>
                      ELSE <<<<"unsub", view>>>>
  <2>1. /\ view' = v /\ live' = Nothing /\ route' = {} /\ backfills' = {} /\ told' = None
        /\ needsRefetch' = TRUE /\ missed' \in {{}, {"status"}} /\ asks' = asks \o more /\ Upset
        /\ UNCHANGED <<nodeVars, wire, conn, rows, overtaken, emitted>>
    BY <1>4 DEF Navigate
  <2>2. <<"unsub", view>> \in Requests /\ <<"sub", v>> \in Requests
    BY DEF Requests, PageTypes
  <2>3. more \in Seq(Requests)
    BY <2>2
  <2>. HIDE DEF more
  <2>4. asks' \in Seq(Requests)
    BY <2>1, <2>3, Joining DEF NetTypes
  <2>5. PageTypes'
    BY <2>1 DEF PageTypes, Nothing
  <2>. QED
    BY <2>1, <2>4, <2>5, UpsetTypes DEF NodeTypes, NetTypes, GhostTypes, nodeVars
<1>. QED
  BY <1>1, <1>2, <1>3, <1>4

LEMMA FeedParts ==
  ASSUME [FeedNext]_vars
  PROVE  \/ UNCHANGED vars
         \/ \E s \in Sessions, pts \in SUBSET Points :
               \E refused \in SUBSET (pts \cap Suspect) : Post(s, pts, refused)
         \/ \E s \in Sessions : Announce(s) \/ Started(s)
         \/ \E t \in tasks : EmitHead(t) \/ EmitTail(t) \/ EmitStatus(t)
         \/ FlushFleet \/ Serve \/ AnswerSnapshot
         \/ Drop \/ Reconnect
         \/ Deliver \/ ReadRoute \/ ReadFleet \/ \E v \in Views : Navigate(v)
  BY Zenon DEF FeedNext

LEMMA FeedTypesStep ==
  ASSUME IInv, FeedTypes, [FeedNext]_vars
  PROVE  FeedTypes'
<1>0. TypeOK /\ NodeTypes /\ NetTypes /\ PageTypes /\ GhostTypes
  BY Groups
<1>1. TypeOK'
  BY ServerInv DEF IInv
<1>2. ASSUME UNCHANGED vars PROVE NodeTypes' /\ NetTypes' /\ PageTypes' /\ GhostTypes'
  <2>1. UNCHANGED <<nodeVars, netVars, pageVars, ghostVars>>
    BY <1>2 DEF vars
  <2>2. NodeTypes' /\ NetTypes'
    BY <1>0, <2>1 DEF nodeVars, netVars, NodeTypes, NetTypes
  <2>3. PageTypes' /\ GhostTypes'
    BY <1>0, <2>1 DEF pageVars, ghostVars, PageTypes, GhostTypes
  <2>. QED
    BY <2>2, <2>3
<1>3. ASSUME NEW t \in Tasks, Commits(t), UNCHANGED <<pending, rooms, snapshotDue>>,
             t.session \in Sessions
      PROVE  NodeTypes' /\ overtaken' \subseteq Sessions
  BY <1>0, <1>3 DEF Commits, NodeTypes, GhostTypes
<1>4. \A t \in Tasks : t.kind \in {"batch", "status"} => t.session \in Sessions
  BY BatchTask, StatusTask
<1>5. ASSUME NEW s \in Sessions, NEW pts \in SUBSET Points,
             NEW refused \in SUBSET (pts \cap Suspect), Post(s, pts, refused)
      PROVE  NodeTypes' /\ NetTypes' /\ PageTypes' /\ GhostTypes'
  <2>1. UNCHANGED <<pending, rooms, snapshotDue, netVars, pageVars, emitted, missed>>
    BY <1>5 DEF Post
  <2>2. NodeTypes' /\ overtaken' \subseteq Sessions
    BY <1>0, <1>3, <1>4, <1>5, <2>1, BatchStarts DEF NodeTypes, GhostTypes
  <2>. QED
    BY <1>0, <2>1, <2>2 DEF NetTypes, PageTypes, GhostTypes, netVars, pageVars
<1>6. ASSUME NEW s \in Sessions, Announce(s) \/ Started(s)
      PROVE  NodeTypes' /\ NetTypes' /\ PageTypes' /\ GhostTypes'
  <2>1. Upset /\ UNCHANGED <<pending, rooms, snapshotDue, wire, asks, conn, pageVars, emitted,
                             missed>>
    BY <1>6 DEF Announce, Started
  <2>2. NodeTypes' /\ overtaken' \subseteq Sessions
    BY <1>0, <1>3, <1>4, <1>6, <2>1, StatusStarts
  <2>. QED
    BY <1>0, <2>1, <2>2, UpsetTypes DEF NetTypes, PageTypes, GhostTypes, pageVars
<1>7. NodeTypes' /\ NetTypes' /\ PageTypes' /\ GhostTypes'
  BY <1>0, <1>2, <1>5, <1>6, FeedParts, EmitTypes, ServeTypes, ConnTypes, PageMoveTypes
<1>. QED
  BY <1>1, <1>7, NextGroups

-----------------------------------------------------------------------------
(* The chain of positions of one session.                                  *)

LEMMA AtTypes ==
  ASSUME NEW f \in Frames, NEW s \in Sessions
  PROVE  At(f, s) \in Points \cup {0}
<1>1. CASE f.kind = "position"
  <2>1. f.at \in Points
    BY <1>1 DEF Frames
  <2>. QED
    BY <1>1, <2>1 DEF At
<1>2. CASE f.kind = "positions"
  <2>1. f.at \in [Sessions -> Points \cup {0}]
    BY <1>2 DEF Frames
  <2>. QED
    BY <1>2, <2>1 DEF At
<1>3. CASE f.kind \notin {"position", "positions"}
  BY <1>3 DEF At
<1>. QED
  BY <1>1, <1>2, <1>3

LEMMA Numbers ==
  ASSUME FeedTypes, NEW s \in Sessions
  PROVE  /\ live[s] \in Nat /\ pending[s] \in Nat /\ anchor[s] \in Nat
         /\ \A i \in DOMAIN wire : wire[i] \in Frames /\ At(wire[i], s) \in Nat
         /\ \A t \in tasks : t \in Tasks /\ (Heads(t, s) => t.live \in Nat)
<1>1. TypeOK /\ NodeTypes /\ NetTypes /\ PageTypes
  BY Groups
<1>2. live[s] \in Points \cup {0} /\ pending[s] \in Points \cup {0} /\ anchor[s] \in Points \cup {0}
  BY <1>1 DEF TypeOK, NodeTypes, PageTypes
<1>3. \A i \in DOMAIN wire : wire[i] \in Frames /\ At(wire[i], s) \in Points \cup {0}
  BY <1>1, ElementOfSeq, LenProperties, AtTypes DEF NetTypes
<1>4. \A t \in tasks : t \in Tasks /\ (Heads(t, s) => t.live \in Points \cup {0})
  BY <1>1, BatchTask DEF NodeTypes, Heads
<1>. QED
  BY <1>2, <1>3, <1>4, Points0

\* The frames on the way may be followed by ones that carry p, if everything
\* before them is no newer.
Trails(s) ==
    /\ \A i \in DOMAIN wire : At(wire[i], s) # 0 => live[s] <= At(wire[i], s)
    /\ \A i, j \in DOMAIN wire : i < j /\ At(wire[j], s) # 0 =>
          At(wire[i], s) <= At(wire[j], s)

LEMMA TrailGrows ==
  ASSUME FeedTypes, NEW s \in Sessions, Trails(s), NEW p \in Nat, p # 0 => Shown(s, p),
         live' = live, NEW frames \in Seq(Frames),
         wire' = wire \/ wire' = wire \o frames,
         \A i \in DOMAIN frames : At(frames[i], s) \in {0, p},
         \A i, j \in DOMAIN frames : i < j => At(frames[j], s) = 0
  PROVE  Trails(s)' /\ \A q \in Nat : Shown(s, q) /\ p <= q => Shown(s, q)'
<1>1. CASE wire' = wire
  BY <1>1 DEF Trails, Shown
<1>2. CASE wire' = wire \o frames
  <2>1. wire \in Seq(Frames)
    BY DEF FeedTypes
  <2>2. /\ Len(wire) \in Nat
        /\ \A i \in DOMAIN wire' :
               \/ i \in DOMAIN wire /\ i <= Len(wire) /\ wire'[i] = wire[i]
               \/ /\ i > Len(wire) /\ i - Len(wire) \in DOMAIN frames
                  /\ wire'[i] = frames[i - Len(wire)]
    BY <1>2, <2>1, Joining
  <2>3. DOMAIN wire' \subseteq Int
    <3>1. wire' \in Seq(Frames)
      BY <1>2, <2>1, Joining
    <3>. QED
      BY <3>1, LenProperties
  <2>4. live[s] \in Nat /\ \A i \in DOMAIN wire : At(wire[i], s) \in Nat
    BY Numbers
  <2>5. \A i \in DOMAIN wire' : At(wire'[i], s) # 0 => live[s] <= At(wire'[i], s)
    BY <2>2 DEF Trails, Shown
  <2>6. ASSUME NEW i \in DOMAIN wire', NEW j \in DOMAIN wire', i < j, At(wire'[j], s) # 0
        PROVE  At(wire'[i], s) <= At(wire'[j], s)
    <3>1. CASE j <= Len(wire)
      BY <2>2, <2>3, <2>6, <3>1 DEF Trails
    <3>2. CASE j > Len(wire)
      <4>1. j - Len(wire) \in DOMAIN frames /\ At(wire'[j], s) = p /\ p # 0
        BY <2>2, <2>3, <2>6, <3>2
      <4>2. CASE i <= Len(wire)
        BY <2>2, <2>3, <2>4, <4>1, <4>2 DEF Shown
      <4>3. CASE i > Len(wire)
        <5>1. /\ i - Len(wire) \in DOMAIN frames /\ i - Len(wire) < j - Len(wire)
              /\ wire'[j] = frames[j - Len(wire)]
          BY <2>2, <2>3, <2>6, <3>2, <4>3
        <5>. QED
          BY <2>6, <4>1, <5>1
      <4>. QED
        BY <2>2, <2>3, <4>2, <4>3
    <3>. QED
      BY <2>2, <2>3, <3>1, <3>2
  <2>7. ASSUME NEW q \in Nat, Shown(s, q), p <= q PROVE Shown(s, q)'
    BY <2>2, <2>7 DEF Shown
  <2>. QED
    BY <2>5, <2>6, <2>7 DEF Trails
<1>. QED
  BY <1>1, <1>2

\* Nothing of s moves but perhaps the marker of the server.
LEMMA ChainRests ==
  ASSUME FeedTypes, NEW s \in Sessions, Chain(s), UNCHANGED <<live, wire, pending>>,
         anchor'[s] \in Nat, anchor[s] <= anchor'[s],
         \A t \in tasks' : Heads(t, s) =>
            t \in tasks \/ (Shown(s, t.live) /\ pending[s] <= t.live /\ t.live <= anchor'[s])
  PROVE  Chain(s)'
<1>1. /\ live[s] \in Nat /\ pending[s] \in Nat /\ anchor[s] \in Nat
      /\ \A i \in DOMAIN wire : At(wire[i], s) \in Nat
      /\ \A t \in tasks : Heads(t, s) => t.live \in Nat
  BY Numbers
<1>2. \A q : Shown(s, q) => Shown(s, q)'
  BY DEF Shown
<1>3. Shown(s, anchor'[s]) /\ pending[s] <= anchor'[s]
  BY <1>1 DEF Chain, Shown
<1>4. \A t \in tasks' : Heads(t, s) =>
         Shown(s, t.live) /\ pending[s] <= t.live /\ t.live <= anchor'[s]
  BY <1>1 DEF Chain
<1>5. Shown(s, anchor[s])'
  BY <1>3 DEF Shown
<1>6. pending[s] # 0 => Shown(s, pending[s])'
  BY DEF Chain, Shown
<1>7. \A t \in tasks' : Heads(t, s) => Shown(s, t.live)'
  BY <1>2, <1>4
<1>8. Trails(s)'
  BY DEF Chain, Trails
<1>. QED
  BY <1>3, <1>4, <1>5, <1>6, <1>7, <1>8 DEF Chain, Trails, Heads, Shown

LEMMA CommitChain ==
  ASSUME IInv, FeedTypes, NEW s \in Sessions, Chain(s), Lone(s), [FeedNext]_vars,
         NEW t \in Tasks, Commits(t), s \notin overtaken', UNCHANGED <<live, wire, pending>>,
         Heads(t, s) => (anchor[s] = 0 \/ t.live > anchor[s]) /\ anchor'[s] = t.live
  PROVE  Chain(s)' /\ Lone(s)'
<1>1. t.session = s => ~Busy(s)
  BY DEF Commits
<1>2. Lone(s)'
  BY <1>1 DEF Lone, Busy, Commits
<1>3. anchor[s] \in Nat /\ anchor'[s] \in Nat /\ anchor[s] <= anchor'[s]
  BY Forward
<1>4. ASSUME Heads(t, s)
      PROVE  Shown(s, t.live) /\ pending[s] <= t.live /\ t.live <= anchor'[s]
  <2>1. anchor'[s] = t.live /\ anchor[s] <= t.live
    BY <1>3, <1>4
  <2>2. /\ live[s] \in Nat /\ pending[s] \in Nat
        /\ \A i \in DOMAIN wire : At(wire[i], s) \in Nat
    BY Numbers
  <2>3. Shown(s, anchor[s]) /\ pending[s] <= anchor[s]
    BY DEF Chain
  <2>. QED
    BY <1>3, <2>1, <2>2, <2>3 DEF Shown
<1>5. Chain(s)'
  BY <1>3, <1>4, ChainRests DEF Commits
<1>. QED
  BY <1>2, <1>5

\* Frames go out that carry p for s, or nothing.
LEMMA SendChain ==
  ASSUME FeedTypes, NEW s \in Sessions, Chain(s), NEW p \in Nat, p # 0 => Shown(s, p),
         p <= anchor[s], live' = live, anchor' = anchor, NEW frames \in Seq(Frames),
         wire' = wire \/ wire' = wire \o frames,
         \A i \in DOMAIN frames : At(frames[i], s) \in {0, p},
         \A i, j \in DOMAIN frames : i < j => At(frames[j], s) = 0,
         \/ p = 0 /\ pending'[s] = pending[s]
         \/ pending'[s] = p
         \/ pending'[s] = 0,
         \A t \in tasks' : Heads(t, s) => t \in tasks /\ p <= t.live
  PROVE  Chain(s)'
<1>0. /\ live[s] \in Nat /\ pending[s] \in Nat /\ anchor[s] \in Nat
      /\ \A i \in DOMAIN wire : At(wire[i], s) \in Nat
      /\ \A t \in tasks : Heads(t, s) => t.live \in Nat
  BY Numbers
<1>1. Trails(s)
  BY DEF Chain, Trails
<1>2. Trails(s)' /\ \A q \in Nat : Shown(s, q) /\ p <= q => Shown(s, q)'
  BY <1>1, TrailGrows
<1>3. PICK m \in Nat : m = anchor[s] /\ m = anchor'[s]
  BY <1>0
<1>4. PICK n : n = pending'[s]
  OBVIOUS
<1>5. Shown(s, m)' /\ n <= m
  BY <1>0, <1>2, <1>3, <1>4 DEF Chain
<1>6. n # 0 => Shown(s, n)'
  <2>1. CASE p = 0 /\ n = pending[s]
    <3>1. n # 0 => Shown(s, n)
      BY <2>1 DEF Chain
    <3>. QED
      BY <1>0, <1>2, <2>1, <3>1
  <2>2. CASE n = p \/ n = 0
    BY <1>2, <2>2
  <2>. QED
    BY <1>4, <2>1, <2>2
<1>7. ASSUME NEW t \in tasks', Heads(t, s)
      PROVE  Shown(s, t.live)' /\ n <= t.live /\ t.live <= m
  <2>1. t \in tasks /\ p <= t.live /\ t.live \in Nat
    BY <1>0, <1>7
  <2>2. Shown(s, t.live) /\ pending[s] <= t.live /\ t.live <= m
    BY <1>3, <1>7, <2>1 DEF Chain
  <2>. QED
    BY <1>0, <1>2, <1>4, <2>1, <2>2
<1>8. Shown(s, anchor[s])' /\ (pending[s] # 0 => Shown(s, pending[s]))'
  BY <1>3, <1>4, <1>5, <1>6 DEF Shown
<1>. QED
  BY <1>2, <1>3, <1>4, <1>5, <1>7, <1>8 DEF Chain, Trails, Heads

\* A frame of another kind, or of another session, carries nothing.
LEMMA Carries ==
  ASSUME NEW f, NEW s
  PROVE  /\ f.kind \in {"backfill", "state", "snapshot"} => At(f, s) = 0
         /\ f.kind = "position" /\ f.session # s => At(f, s) = 0
         /\ f.kind = "position" /\ f.session = s => At(f, s) = f.at
         /\ f.kind = "positions" => At(f, s) = f.at[s]
  BY DEF At

LEMMA HeadChain ==
  ASSUME IInv, FeedTypes, NEW s \in Sessions, Chain(s), Lone(s),
         NEW t \in tasks, EmitHead(t)
  PROVE  Chain(s)' /\ Lone(s)'
<1>. DEFINE st == IF t.segment = {} THEN StateFrames(t) ELSE <<>>
            fr == PositionFrames(t) \o st
            u == [t EXCEPT !.headed = TRUE]
            p == IF t.session = s THEN t.live ELSE 0
<1>0. t \in Tasks /\ t.kind = "batch" /\ ~t.headed
  BY Numbers DEF EmitHead
<1>1. /\ Say(t.session, fr)
      /\ pending' = IF t.live = 0 THEN pending ELSE [pending EXCEPT ![t.session] = t.live]
      /\ tasks' \subseteq (tasks \ {t}) \cup {u}
      /\ live' = live /\ anchor' = anchor
  BY DEF EmitHead, pageVars, serverVars
<1>2. u.headed = TRUE /\ u.session = t.session
  BY <1>0, HeadedTask
<1>3. Lone(s)'
  BY <1>1, <1>2 DEF Lone
<1>4. st \in Seq(Frames) /\ \A i \in DOMAIN st : st[i].kind = "state"
  BY <1>0, StateFrame, None0
<1>5. /\ PositionFrames(t) \in Seq(Frames)
      /\ \A i \in DOMAIN PositionFrames(t) :
            /\ t.live # 0 /\ i = 1
            /\ PositionFrames(t)[i].kind = "position"
            /\ PositionFrames(t)[i].session = t.session /\ PositionFrames(t)[i].at = t.live
  BY <1>0, PositionFrame
<1>6. /\ fr \in Seq(Frames)
      /\ \A i \in DOMAIN fr :
            \/ i = 1 /\ fr[i].kind = "position" /\ fr[i].session = t.session /\ fr[i].at = t.live
            \/ fr[i].kind = "state"
  <2>1. PICK w : w = PositionFrames(t)
    OBVIOUS
  <2>. HIDE DEF st
  <2>2. /\ w \in Seq(Frames) /\ w \o st \in Seq(Frames)
        /\ \A i \in DOMAIN (w \o st) :
              \/ i \in DOMAIN w /\ (w \o st)[i] = w[i]
              \/ i - Len(w) \in DOMAIN st /\ (w \o st)[i] = st[i - Len(w)]
    BY <1>4, <1>5, <2>1, Joining
  <2>3. \A i \in DOMAIN w : /\ i = 1 /\ w[i].kind = "position"
                            /\ w[i].session = t.session /\ w[i].at = t.live
    BY <1>5, <2>1
  <2>4. fr = w \o st
    BY <2>1
  <2>. HIDE DEF fr
  <2>. QED
    BY <1>4, <2>2, <2>3, <2>4
<1>7. \A i \in DOMAIN fr : At(fr[i], s) \in {0, p} /\ (i # 1 => At(fr[i], s) = 0)
  BY <1>6, Carries
<1>8. /\ DOMAIN fr \subseteq Nat \ {0}
      /\ \A i, j \in DOMAIN fr : i < j => At(fr[j], s) = 0
  <2>1. DOMAIN fr = 1..Len(fr) /\ Len(fr) \in Nat
    BY <1>6, LenProperties
  <2>. HIDE DEF fr, p
  <2>. QED
    BY <1>7, <2>1
<1>9. wire' = wire \/ wire' = wire \o fr
  BY <1>1 DEF Say
<1>10. /\ p \in Nat /\ (p # 0 => Shown(s, p)) /\ p <= anchor[s]
       /\ \/ p = 0 /\ pending'[s] = pending[s]
          \/ pending'[s] = p
  <2>1. pending \in [Sessions -> Points \cup {0}] /\ t.session \in Sessions
    BY <1>0, BatchTask, Groups DEF NodeTypes
  <2>2. CASE t.session = s /\ t.live # 0
    <3>1. Heads(t, s)
      BY <1>0, <2>2 DEF Heads
    <3>2. Shown(s, t.live) /\ t.live <= anchor[s] /\ t.live \in Nat
      BY <3>1, Numbers DEF Chain
    <3>3. pending'[s] = t.live
      BY <1>1, <2>1, <2>2
    <3>. QED
      BY <2>2, <3>2, <3>3
  <2>3. CASE ~(t.session = s /\ t.live # 0)
    <3>1. p = 0
      BY <2>3
    <3>2. pending'[s] = pending[s]
      BY <1>1, <2>1, <2>3
    <3>3. 0 <= anchor[s]
      BY Numbers
    <3>. HIDE DEF p
    <3>. QED
      BY <3>1, <3>2, <3>3
  <2>. QED
    BY <2>2, <2>3
<1>11. ASSUME NEW v \in tasks', Heads(v, s) PROVE v \in tasks /\ p <= v.live
  <2>1. v \in tasks /\ v # t
    BY <1>1, <1>2, <1>11 DEF Heads
  <2>2. t.session # s
    BY <1>11, <2>1 DEF Lone, Heads
  <2>3. v.live \in Nat
    BY <1>11, <2>1, Numbers
  <2>. QED
    BY <2>1, <2>2, <2>3
<1>. HIDE DEF fr, p, st, u
<1>12. Chain(s)'
  BY <1>1, <1>6, <1>7, <1>8, <1>9, <1>10, <1>11, SendChain
<1>. QED
  BY <1>3, <1>12

\* The rest of a broadcast and the snapshot carry no position.
LEMMA SilentChain ==
  ASSUME FeedTypes, NEW s \in Sessions, Chain(s), Lone(s), NEW frames \in Seq(Frames),
         wire' = wire \/ wire' = wire \o frames,
         \A i \in DOMAIN frames : frames[i].kind \in {"backfill", "state", "snapshot"},
         tasks' \subseteq tasks, live' = live, anchor' = anchor, pending' = pending
  PROVE  Chain(s)' /\ Lone(s)'
<1>1. \A i \in DOMAIN frames : At(frames[i], s) = 0
  BY Carries
<1>2. 0 <= anchor[s] /\ \A t \in tasks : Heads(t, s) => 0 <= t.live
  BY Numbers
<1>3. Chain(s)'
  BY <1>1, <1>2, SendChain
<1>4. Lone(s)'
  BY DEF Lone
<1>. QED
  BY <1>3, <1>4

LEMMA TailChain ==
  ASSUME IInv, FeedTypes, NEW s \in Sessions, Chain(s), Lone(s),
         NEW t \in tasks, EmitTail(t) \/ EmitStatus(t)
  PROVE  Chain(s)' /\ Lone(s)'
<1>0. t \in Tasks
  BY Numbers
<1>1. /\ tasks' \subseteq tasks /\ live' = live /\ anchor' = anchor /\ pending' = pending
  BY DEF EmitTail, EmitStatus, pageVars, serverVars
<1>2. CASE EmitTail(t)
  <2>. DEFINE fr == BackfillFrames(t) \o StateFrames(t)
  <2>1. t.kind = "batch" /\ (wire' = wire \/ wire' = wire \o fr)
    BY <1>2 DEF EmitTail, Say
  <2>2. /\ BackfillFrames(t) \in Seq(Frames)
        /\ \A i \in DOMAIN BackfillFrames(t) : BackfillFrames(t)[i].kind = "backfill"
    BY <1>0, <2>1, BackfillFrame, One
  <2>3. /\ StateFrames(t) \in Seq(Frames)
        /\ \A i \in DOMAIN StateFrames(t) : StateFrames(t)[i].kind = "state"
    BY <1>0, <2>1, StateFrame
  <2>4. fr \in Seq(Frames) /\ \A i \in DOMAIN fr : fr[i].kind \in {"backfill", "state", "snapshot"}
    BY <2>2, <2>3, Joining
  <2>. HIDE DEF fr
  <2>. QED
    BY <1>1, <2>1, <2>4, SilentChain
<1>3. CASE EmitStatus(t)
  <2>1. /\ t.kind = "status"
        /\ wire' = wire \/ wire' = wire \o StatusFrames(t)
    BY <1>3 DEF EmitStatus, Say
  <2>2. /\ StatusFrames(t) \in Seq(Frames)
        /\ \A i \in DOMAIN StatusFrames(t) : StatusFrames(t)[i].kind = "state"
    BY <1>0, <2>1, StatusFrame
  <2>. QED
    BY <1>1, <2>1, <2>2, SilentChain
<1>. QED
  BY <1>2, <1>3

\* The fleet buffer goes out and the snapshot follows it.
LEMMA FleetChain ==
  ASSUME FeedTypes, NEW s \in Sessions, Chain(s), Lone(s), FlushFleet \/ AnswerSnapshot
  PROVE  Chain(s)' /\ Lone(s)'
<1>1. CASE FlushFleet
  <2>. DEFINE f == [kind |-> "positions", at |-> pending]
  <2>1. PICK p \in Nat : p = pending[s]
    BY Numbers
  <2>2. pending \in [Sessions -> Points \cup {0}]
    BY Groups DEF NodeTypes
  <2>3. f \in Frames /\ At(f, s) = p
    BY <2>1, <2>2 DEF Frames, At
  <2>4. /\ wire' = wire \/ wire' = wire \o <<f>>
        /\ pending' = Nothing /\ tasks' = tasks /\ live' = live /\ anchor' = anchor
    BY <1>1 DEF FlushFleet, Say, pageVars, serverVars
  <2>. HIDE DEF f
  <2>5. PICK fr \in Seq(Frames) : fr = <<f>> /\ DOMAIN fr = {1} /\ fr[1] = f
    BY <2>3, One
  <2>6. /\ \A i \in DOMAIN fr : At(fr[i], s) \in {0, p}
        /\ \A i, j \in DOMAIN fr : i < j => At(fr[j], s) = 0
    BY <2>3, <2>5
  <2>7. /\ p # 0 => Shown(s, p)
        /\ p <= anchor[s] /\ \A t \in tasks : Heads(t, s) => p <= t.live
    BY <2>1 DEF Chain
  <2>8. pending'[s] = 0
    BY <2>4 DEF Nothing
  <2>9. Chain(s)'
    BY <2>4, <2>5, <2>6, <2>7, <2>8, SendChain
  <2>. QED
    BY <2>4, <2>9 DEF Lone
<1>2. CASE AnswerSnapshot
  <2>. DEFINE g == [r \in Sessions |-> SnapshotRow(r)]
              f == [kind |-> "snapshot", at |-> g]
  <2>1. g \in [Sessions -> Points \cup {0}]
    BY Groups DEF SnapshotRow, TypeOK
  <2>2. /\ wire' = Append(wire, f) /\ tasks' = tasks /\ pending' = pending
        /\ live' = live /\ anchor' = anchor
    BY <1>2 DEF AnswerSnapshot, pageVars, serverVars
  <2>. HIDE DEF g
  <2>3. f \in Frames /\ f.kind = "snapshot"
    BY <2>1 DEF Frames
  <2>. HIDE DEF f
  <2>4. PICK fr \in Seq(Frames) : fr = <<f>> /\ DOMAIN fr = {1} /\ fr[1] = f
    BY <2>3, One
  <2>5. wire' = wire \o fr
    BY <2>2, <2>3, <2>4, AppendIsConcat DEF FeedTypes
  <2>. QED
    BY <2>2, <2>3, <2>4, <2>5, SilentChain
<1>. QED
  BY <1>1, <1>2

\* The page takes the frame at the head of the wire: what follows is newer.
LEMMA DeliverChain ==
  ASSUME FeedTypes, NEW s \in Sessions, Chain(s), Lone(s), Deliver
  PROVE  Chain(s)' /\ Lone(s)'
<1>1. PICK f \in Frames :
         /\ wire # <<>> /\ f = Head(wire) /\ wire' = Tail(wire)
         /\ live'[s] = live[s] \/ (At(f, s) # 0 /\ live'[s] = At(f, s))
  BY Groups, DeliverMoves
<1>2. tasks' = tasks /\ pending' = pending /\ anchor' = anchor
  BY DEF Deliver, nodeVars, serverVars
<1>3. wire \in Seq(Frames)
  BY DEF FeedTypes
<1>4. /\ f = wire[1] /\ 1 \in DOMAIN wire /\ DOMAIN wire \subseteq Int
      /\ \A i \in DOMAIN wire' : i \in Int /\ i + 1 \in DOMAIN wire /\ i >= 1
                                 /\ wire'[i] = wire[i + 1]
  <2>1. wire' \in Seq(Frames)
    BY <1>1, <1>3, Falling
  <2>2. DOMAIN wire \subseteq Int /\ DOMAIN wire' \subseteq Int
    BY <1>3, <2>1, LenProperties
  <2>. QED
    BY <1>1, <1>3, <2>2, Falling
<1>5. /\ live[s] \in Nat /\ \A i \in DOMAIN wire : At(wire[i], s) \in Nat
      /\ \A t \in tasks : Heads(t, s) => t.live \in Nat
  BY Numbers
<1>6. \A q : Shown(s, q) => Shown(s, q)'
  BY <1>1, <1>4 DEF Shown
<1>7. \A i \in DOMAIN wire' : At(wire'[i], s) # 0 => live'[s] <= At(wire'[i], s)
  <2>1. SUFFICES ASSUME NEW i \in DOMAIN wire', At(wire'[i], s) # 0
                 PROVE  live'[s] <= At(wire'[i], s)
    OBVIOUS
  <2>2. i + 1 \in DOMAIN wire /\ 1 < i + 1 /\ wire'[i] = wire[i + 1]
    BY <1>4
  <2>3. live[s] <= At(wire[i + 1], s) /\ At(wire[1], s) <= At(wire[i + 1], s)
    BY <1>4, <2>1, <2>2 DEF Chain
  <2>. QED
    BY <1>1, <1>4, <2>2, <2>3
<1>8. \A i, j \in DOMAIN wire' : i < j /\ At(wire'[j], s) # 0 =>
         At(wire'[i], s) <= At(wire'[j], s)
  <2>1. SUFFICES ASSUME NEW i \in DOMAIN wire', NEW j \in DOMAIN wire', i < j,
                        At(wire'[j], s) # 0
                 PROVE  At(wire'[i], s) <= At(wire'[j], s)
    OBVIOUS
  <2>2. /\ i + 1 \in DOMAIN wire /\ j + 1 \in DOMAIN wire /\ i + 1 < j + 1
        /\ wire'[i] = wire[i + 1] /\ wire'[j] = wire[j + 1]
    BY <1>4, <2>1
  <2>. QED
    BY <2>1, <2>2 DEF Chain
<1>9. PICK m : m = anchor[s]
  OBVIOUS
<1>10. PICK n : n = pending[s]
  OBVIOUS
<1>11. /\ Shown(s, m)' /\ n <= m /\ (n # 0 => Shown(s, n)')
       /\ \A t \in tasks : Heads(t, s) => Shown(s, t.live)' /\ n <= t.live /\ t.live <= m
  BY <1>6, <1>9, <1>10 DEF Chain
<1>12. Shown(s, anchor[s])' /\ (pending[s] # 0 => Shown(s, pending[s]))'
  BY <1>2, <1>9, <1>10, <1>11 DEF Shown
<1>13. Chain(s)'
  BY <1>2, <1>7, <1>8, <1>9, <1>10, <1>11, <1>12 DEF Chain, Heads
<1>. QED
  BY <1>2, <1>13 DEF Lone

\* What a lost connection or another page leaves is a smaller chain.
LEMMA ShorterChain ==
  ASSUME FeedTypes, NEW s \in Sessions, Chain(s), Lone(s),
         UNCHANGED <<tasks, pending, anchor>>,
         (wire' = <<>> /\ live' = live) \/ (wire' = wire /\ live'[s] = 0)
  PROVE  Chain(s)' /\ Lone(s)'
<1>1. /\ live[s] \in Nat /\ pending[s] \in Nat /\ anchor[s] \in Nat
      /\ \A i \in DOMAIN wire : At(wire[i], s) \in Nat
      /\ \A t \in tasks : Heads(t, s) => t.live \in Nat
  BY Numbers
<1>2. \A q \in Nat : Shown(s, q) => Shown(s, q)'
  BY <1>1, None0 DEF Shown
<1>3. PICK m \in Nat : m = anchor[s]
  BY <1>1
<1>4. PICK n \in Nat : n = pending[s]
  BY <1>1
<1>5. /\ Shown(s, m)' /\ n <= m /\ (n # 0 => Shown(s, n)')
      /\ \A t \in tasks : Heads(t, s) => Shown(s, t.live)' /\ n <= t.live /\ t.live <= m
  BY <1>1, <1>2, <1>3, <1>4 DEF Chain
<1>6. Shown(s, anchor[s])' /\ (pending[s] # 0 => Shown(s, pending[s]))'
  BY <1>3, <1>4, <1>5 DEF Shown
<1>7. Trails(s)'
  BY <1>1, None0 DEF Chain, Trails
<1>8. Chain(s)'
  BY <1>3, <1>4, <1>5, <1>6, <1>7 DEF Chain, Trails, Heads
<1>. QED
  BY <1>8 DEF Lone

LEMMA ChainsStep ==
  ASSUME IInv, FeedTypes, Chains, [FeedNext]_vars
  PROVE  Chains'
<1>. SUFFICES ASSUME NEW s \in Sessions, s \notin overtaken'
              PROVE  Chain(s)' /\ Lone(s)'
  BY DEF Chains
<1>0. overtaken \subseteq overtaken'
  <2>1. ASSUME NEW t, Commits(t) PROVE overtaken \subseteq overtaken'
    BY <2>1 DEF Commits
  <2>2. ASSUME NEW r \in Sessions, NEW pts \in SUBSET Points,
               NEW refused \in SUBSET (pts \cap Suspect), Post(r, pts, refused)
        PROVE  overtaken \subseteq overtaken'
    BY <2>1, <2>2, BatchStarts
  <2>3. ASSUME NEW r \in Sessions, Announce(r) \/ Started(r) PROVE overtaken \subseteq overtaken'
    BY <2>1, <2>3, StatusStarts DEF IInv
  <2>4. ASSUME NEW t \in tasks, EmitHead(t) \/ EmitTail(t) \/ EmitStatus(t)
        PROVE  overtaken' = overtaken
    BY <2>4 DEF EmitHead, EmitTail, EmitStatus
  <2>5. FlushFleet \/ Serve \/ AnswerSnapshot \/ Drop \/ Reconnect \/ UNCHANGED vars
           => overtaken' = overtaken
    BY DEF FlushFleet, Serve, AnswerSnapshot, Drop, Reconnect, vars, ghostVars
  <2>6. Deliver \/ ReadRoute \/ ReadFleet \/ (\E v \in Views : Navigate(v))
           => overtaken' = overtaken
    BY DEF Deliver, ReadRoute, ReadFleet, Navigate, ghostVars
  <2>. QED
    BY <2>2, <2>3, <2>4, <2>5, <2>6, FeedParts
<1>1. Chain(s) /\ Lone(s)
  BY <1>0 DEF Chains
<1>2. anchor[s] \in Nat /\ anchor'[s] \in Nat /\ anchor[s] <= anchor'[s]
  BY Forward
<1>3. ASSUME UNCHANGED <<live, wire, pending>>, tasks' = tasks PROVE Chain(s)' /\ Lone(s)'
  <2>1. Chain(s)'
    BY <1>1, <1>2, <1>3, ChainRests
  <2>. QED
    BY <1>1, <1>3, <2>1 DEF Lone
<1>4. ASSUME NEW r \in Sessions, NEW pts \in SUBSET Points,
             NEW refused \in SUBSET (pts \cap Suspect), Post(r, pts, refused)
      PROVE  Chain(s)' /\ Lone(s)'
  <2>1. UNCHANGED <<live, wire, pending>>
    BY <1>4 DEF Post, netVars, pageVars
  <2>2. CASE tasks' = tasks
    BY <1>3, <2>1, <2>2
  <2>3. CASE tasks' # tasks
    <3>1. PICK t \in Tasks :
             /\ Commits(t) /\ t.session = r
             /\ t.live # 0 => (anchor[r] = 0 \/ t.live > anchor[r]) /\ anchor'[r] = t.live
      BY <1>4, <2>3, BatchStarts
    <3>2. Heads(t, s) => (anchor[s] = 0 \/ t.live > anchor[s]) /\ anchor'[s] = t.live
      BY <3>1 DEF Heads
    <3>. QED
      BY <1>1, <2>1, <3>1, <3>2, CommitChain
  <2>. QED
    BY <2>2, <2>3
<1>5. ASSUME NEW r \in Sessions, Announce(r) \/ Started(r)
      PROVE  Chain(s)' /\ Lone(s)'
  <2>1. UNCHANGED <<live, wire, pending>>
    BY <1>5 DEF Announce, Started, pageVars
  <2>2. PICK t \in Tasks : Commits(t) /\ t.kind = "status"
    BY <1>5, StatusStarts DEF IInv
  <2>3. ~Heads(t, s)
    BY <2>2 DEF Heads
  <2>. QED
    BY <1>1, <2>1, <2>2, <2>3, CommitChain
<1>6. ASSUME NEW t \in tasks, EmitHead(t) \/ EmitTail(t) \/ EmitStatus(t)
      PROVE  Chain(s)' /\ Lone(s)'
  BY <1>1, <1>6, HeadChain, TailChain
<1>7. CASE Serve \/ Reconnect \/ ReadRoute \/ ReadFleet \/ UNCHANGED vars
  <2>1. UNCHANGED <<live, wire, pending>> /\ tasks' = tasks
    BY <1>7 DEF Serve, Reconnect, ReadRoute, ReadFleet, vars, nodeVars, netVars, pageVars
  <2>. QED
    BY <1>3, <2>1
<1>8. CASE FlushFleet \/ AnswerSnapshot \/ Deliver
  BY <1>1, <1>8, FleetChain, DeliverChain
<1>9. CASE Drop \/ \E v \in Views : Navigate(v)
  <2>1. /\ UNCHANGED <<tasks, pending, anchor>>
        /\ (wire' = <<>> /\ live' = live) \/ (wire' = wire /\ live'[s] = 0)
    BY <1>9 DEF Drop, Navigate, serverVars, nodeVars, pageVars, Nothing
  <2>. QED
    BY <1>1, <2>1, ShorterChain
<1>. QED
  BY <1>4, <1>5, <1>6, <1>7, <1>8, <1>9, FeedParts

-----------------------------------------------------------------------------
(* What went out in segments.                                              *)

LEMMA KeptStep ==
  ASSUME IInv, FeedTypes, Kept, [FeedNext]_vars
  PROVE  Kept'
<1>1. \A s \in Sessions : stored[s] \subseteq stored'[s]
  BY Forward
<1>2. \A t \in tasks : t \in Tasks /\ (t.kind = "batch" =>
         t.session \in Sessions /\ t.segment \subseteq stored'[t.session])
  BY <1>1, Groups, BatchTask DEF Kept, NodeTypes
<1>3. ASSUME emitted' = emitted,
             \A t \in tasks' : t \in tasks \/ (t.kind = "batch" =>
                                                  t.segment \subseteq stored'[t.session])
      PROVE  Kept'
  BY <1>1, <1>2, <1>3 DEF Kept
<1>4. ASSUME NEW s \in Sessions, NEW pts \in SUBSET Points,
             NEW refused \in SUBSET (pts \cap Suspect), Post(s, pts, refused)
      PROVE  Kept'
  <2>1. emitted' = emitted
    BY <1>4 DEF Post
  <2>2. CASE tasks' = tasks
    BY <1>3, <2>1, <2>2
  <2>3. CASE tasks' # tasks
    <3>1. PICK t \in Tasks : Commits(t) /\ t.session = s /\ t.segment \subseteq stored'[s]
      BY <1>4, <2>3, BatchStarts
    <3>. QED
      BY <1>3, <2>1, <3>1 DEF Commits
  <2>. QED
    BY <2>2, <2>3
<1>5. ASSUME NEW s \in Sessions, Announce(s) \/ Started(s) PROVE Kept'
  <2>1. emitted' = emitted
    BY <1>5 DEF Announce, Started
  <2>2. PICK t \in Tasks : Commits(t) /\ t.kind = "status"
    BY <1>5, StatusStarts DEF IInv
  <2>. QED
    BY <1>3, <2>1, <2>2 DEF Commits
<1>6. ASSUME NEW t \in tasks, EmitHead(t) PROVE Kept'
  <2>. DEFINE u == [t EXCEPT !.headed = TRUE]
  <2>1. emitted' = emitted /\ tasks' \subseteq tasks \cup {u} /\ t.kind = "batch"
    BY <1>6 DEF EmitHead
  <2>2. u.session = t.session /\ u.segment = t.segment
    BY <1>2, <2>1, HeadedTask
  <2>. HIDE DEF u
  <2>3. u.segment \subseteq stored'[u.session]
    BY <1>2, <2>1, <2>2
  <2>. QED
    BY <1>3, <2>1, <2>3
<1>7. ASSUME NEW t \in tasks, EmitTail(t) PROVE Kept'
  <2>1. /\ t.kind = "batch" /\ tasks' \subseteq tasks
        /\ emitted' = [emitted EXCEPT ![t.session] =
               IF Cardinality(t.segment) > 1 THEN @ \cup t.segment ELSE @]
    BY <1>7 DEF EmitTail
  <2>2. emitted \in [Sessions -> SUBSET Points]
    BY Groups DEF GhostTypes
  <2>3. \A s \in Sessions : emitted'[s] \subseteq stored'[s]
    BY <1>1, <1>2, <2>1, <2>2 DEF Kept
  <2>. QED
    BY <1>2, <2>1, <2>3 DEF Kept
<1>8. ASSUME NEW t \in tasks, EmitStatus(t) PROVE Kept'
  BY <1>3, <1>8 DEF EmitStatus
<1>9. CASE FlushFleet \/ Serve \/ AnswerSnapshot \/ Drop \/ Reconnect \/ UNCHANGED vars
  BY <1>3, <1>9 DEF FlushFleet, Serve, AnswerSnapshot, Drop, Reconnect, vars, nodeVars, ghostVars
<1>10. CASE Deliver \/ ReadRoute \/ ReadFleet \/ \E v \in Views : Navigate(v)
  BY <1>3, <1>10 DEF Deliver, ReadRoute, ReadFleet, Navigate, nodeVars, ghostVars
<1>. QED
  BY <1>4, <1>5, <1>6, <1>7, <1>8, <1>9, <1>10, FeedParts

\* p has been drawn, or is on its way.
Seen(p) == \/ p \in route
           \/ \E b \in backfills : p \in b /\ Cardinality(b) > 1
           \/ \E i \in DOMAIN wire : Covers(wire[i], view, p)

\* More frames, or fewer segments the page could hear, take nothing away.
LEMMA DrawnRests ==
  ASSUME FeedTypes, Drawn, NEW frames \in Seq(Frames),
         wire' = wire \/ wire' = wire \o frames,
         UNCHANGED <<view, needsRefetch, route, backfills, emitted>>,
         missed \subseteq missed'
  PROVE  Drawn'
<1>1. \A i \in DOMAIN wire : i \in DOMAIN wire' /\ wire'[i] = wire[i]
  BY Joining DEF FeedTypes
<1>2. \A p : Seen(p) => Seen(p)'
  BY <1>1 DEF Seen, Covers
<1>. QED
  BY <1>2 DEF Drawn, Seen

LEMMA DrawnEmit ==
  ASSUME FeedTypes, Drawn, NEW t \in tasks, EmitHead(t) \/ EmitTail(t) \/ EmitStatus(t)
  PROVE  Drawn'
<1>0. t \in Tasks
  BY Groups DEF NodeTypes
<1>1. UNCHANGED <<view, needsRefetch, route, backfills>> /\ missed \subseteq missed'
  BY DEF EmitHead, EmitTail, EmitStatus, pageVars
<1>2. CASE EmitHead(t)
  <2>. DEFINE st == IF t.segment = {} THEN StateFrames(t) ELSE <<>>
  <2>1. PICK fr : fr = PositionFrames(t) \o st
    OBVIOUS
  <2>2. t.kind = "batch" /\ (wire' = wire \/ wire' = wire \o fr) /\ emitted' = emitted
    BY <1>2, <2>1 DEF EmitHead, Say
  <2>3. st \in Seq(Frames) /\ PositionFrames(t) \in Seq(Frames)
    BY <1>0, <2>2, StateFrame, None0, PositionFrame
  <2>. HIDE DEF st
  <2>4. fr \in Seq(Frames)
    BY <2>1, <2>3, Joining
  <2>. QED
    BY <1>1, <2>2, <2>4, DrawnRests
<1>3. CASE EmitStatus(t)
  <2>1. PICK fr : fr = StatusFrames(t)
    OBVIOUS
  <2>2. t.kind = "status" /\ (wire' = wire \/ wire' = wire \o fr) /\ emitted' = emitted
    BY <1>3, <2>1 DEF EmitStatus, Say
  <2>. QED
    BY <1>0, <1>1, <2>1, <2>2, StatusFrame, DrawnRests
<1>4. CASE EmitTail(t)
  <2>1. PICK bf : bf = BackfillFrames(t)
    OBVIOUS
  <2>2. PICK sf : sf = StateFrames(t)
    OBVIOUS
  <2>3. PICK fr : fr = bf \o sf
    OBVIOUS
  <2>4. /\ t.kind = "batch" /\ Say(t.session, fr)
        /\ emitted' = [emitted EXCEPT ![t.session] =
               IF Cardinality(t.segment) > 1 THEN @ \cup t.segment ELSE @]
        /\ missed' = missed \cup Unheard(t.session, fr)
    BY <1>4, <2>1, <2>2, <2>3 DEF EmitTail
  <2>5. PICK f \in Frames : /\ bf = <<f>> /\ bf \in Seq(Frames)
                            /\ f.kind = "backfill" /\ f.session = t.session
                            /\ f.truncated \/ f.points = t.segment
    BY <1>0, <2>1, <2>4, BackfillFrame
  <2>6. sf \in Seq(Frames)
    BY <1>0, <2>2, <2>4, StateFrame
  <2>7. fr \in Seq(Frames) /\ 1 \in DOMAIN fr /\ fr[1] = f
    <3>1. 1 \in DOMAIN bf /\ bf[1] = f
      BY <2>5
    <3>. QED
      BY <2>3, <2>5, <2>6, <3>1, Joining
  <2>8. wire' = wire \/ wire' = wire \o fr
    BY <2>4 DEF Say
  <2>9. CASE emitted'[view] = emitted[view]
    <3>1. \A i \in DOMAIN wire : i \in DOMAIN wire' /\ wire'[i] = wire[i]
      BY <2>7, <2>8, Joining DEF FeedTypes
    <3>2. \A p : Seen(p) => Seen(p)'
      BY <1>1, <3>1 DEF Seen, Covers
    <3>. QED
      BY <1>1, <2>9, <3>2 DEF Drawn, Seen
  <2>10. CASE emitted'[view] # emitted[view]
    <3>1. emitted \in [Sessions -> SUBSET Points]
      BY Groups DEF GhostTypes
    <3>2. SUFFICES ASSUME view \in Sessions, "segment" \notin missed', ~needsRefetch
                   PROVE  \A p \in emitted'[view] : Seen(p)'
      BY <1>1 DEF Drawn, Seen
    <3>3. /\ t.session = view /\ Cardinality(t.segment) > 1
          /\ emitted'[view] = emitted[view] \cup t.segment
      BY <2>4, <2>10, <3>1, <3>2
    <3>4. conn = "up" /\ view \in rooms
      <4>1. SUFFICES ASSUME ~Hears(t.session) PROVE FALSE
        BY <3>3 DEF Hears
      <4>2. "segment" \in Losses(fr)
        BY <2>5, <2>7, <3>3 DEF Losses
      <4>. QED
        BY <2>4, <3>2, <4>1, <4>2 DEF Unheard
    <3>5. wire' = wire \o fr
      BY <2>4, <3>3, <3>4 DEF Say
    <3>6. /\ \A i \in DOMAIN wire : i \in DOMAIN wire' /\ wire'[i] = wire[i]
          /\ Len(wire) + 1 \in DOMAIN wire' /\ wire'[Len(wire) + 1] = f
      BY <2>7, <3>5, Joining DEF FeedTypes
    <3>7. ASSUME NEW p \in t.segment PROVE Seen(p)'
      <4>1. Covers(f, view, p)
        BY <2>5, <3>3, <3>7 DEF Covers
      <4>2. Covers(wire'[Len(wire) + 1], view', p)
        BY <1>1, <3>6, <4>1
      <4>. QED
        BY <3>6, <4>2 DEF Seen, Covers
    <3>8. ASSUME NEW p \in emitted[view] PROVE Seen(p)'
      <4>1. Seen(p)
        BY <1>1, <3>2, <3>8 DEF Drawn, Seen
      <4>. QED
        BY <1>1, <3>6, <4>1 DEF Seen, Covers
    <3>. QED
      BY <3>3, <3>7, <3>8
  <2>. QED
    BY <2>9, <2>10
<1>. QED
  BY <1>2, <1>3, <1>4

LEMMA DrawnDeliver ==
  ASSUME FeedTypes, Drawn, Deliver
  PROVE  Drawn'
<1>1. UNCHANGED <<view, route, emitted>> /\ missed \subseteq missed'
  BY DEF Deliver
<1>2. PICK f \in Frames :
         /\ wire # <<>> /\ f = Head(wire) /\ wire' = Tail(wire)
         /\ \/ f.kind = "backfill" /\ f.session = view /\ ~f.truncated
               /\ backfills' = backfills \cup {f.points} /\ needsRefetch' = needsRefetch
            \/ needsRefetch' = TRUE /\ (backfills' = {} \/ backfills' = backfills)
            \/ /\ ~(f.kind = "backfill" /\ f.session = view)
               /\ UNCHANGED <<backfills, needsRefetch>>
  BY Groups, DeliverMoves
<1>3. /\ f = wire[1]
      /\ \A i \in DOMAIN wire : i = 1 \/ (i - 1 \in DOMAIN wire' /\ wire'[i - 1] = wire[i])
  <2>1. wire \in Seq(Frames) /\ DOMAIN wire \subseteq Int
    BY LenProperties DEF FeedTypes
  <2>. QED
    BY <1>2, <2>1, Falling
<1>4. ASSUME ~needsRefetch', NEW p, Seen(p) PROVE Seen(p)'
  <2>1. needsRefetch' = needsRefetch /\ backfills \subseteq backfills'
    BY <1>2, <1>4
  <2>2. CASE p \in route \/ \E b \in backfills : p \in b /\ Cardinality(b) > 1
    BY <1>1, <2>1, <2>2 DEF Seen
  <2>3. ASSUME NEW i \in DOMAIN wire, Covers(wire[i], view, p) PROVE Seen(p)'
    <3>1. CASE i = 1
      <4>1. f.kind = "backfill" /\ f.session = view
            /\ (f.truncated \/ (p \in f.points /\ Cardinality(f.points) > 1))
        BY <1>3, <2>3, <3>1 DEF Covers
      <4>2. ~f.truncated /\ f.points \in backfills'
        BY <1>2, <1>4, <4>1
      <4>. QED
        BY <4>1, <4>2 DEF Seen
    <3>2. CASE i # 1
      BY <1>1, <1>3, <2>3, <3>2 DEF Seen, Covers
    <3>. QED
      BY <3>1, <3>2
  <2>. QED
    BY <1>4, <2>2, <2>3 DEF Seen
<1>5. ~needsRefetch' => ~needsRefetch
  BY <1>2
<1>. QED
  BY <1>1, <1>4, <1>5 DEF Drawn, Seen

LEMMA DrawnDrop ==
  ASSUME Drawn, Drop
  PROVE  Drawn'
<1>1. /\ UNCHANGED <<view, needsRefetch, route, backfills, emitted>>
      /\ missed' = missed \cup Losses(wire)
  BY DEF Drop, pageVars
<1>2. ASSUME NEW i \in DOMAIN wire, NEW p, Covers(wire[i], view, p)
      PROVE  "segment" \in Losses(wire)
  <2>1. wire[i].kind = "backfill" /\ wire[i].session = view
    BY <1>2 DEF Covers
  <2>. QED
    BY <2>1 DEF Losses
<1>3. ASSUME "segment" \notin missed', NEW p, Seen(p) PROVE Seen(p)'
  BY <1>1, <1>2, <1>3 DEF Seen
<1>. QED
  BY <1>1, <1>3 DEF Drawn, Seen

LEMMA DrawnStep ==
  ASSUME IInv, FeedTypes, Kept, Drawn, [FeedNext]_vars
  PROVE  Drawn'
<1>1. ASSUME UNCHANGED <<view, needsRefetch, route, backfills, emitted, missed, wire>>
      PROVE  Drawn'
  BY <1>1, None0, DrawnRests
<1>2. ASSUME NEW s \in Sessions, NEW pts \in SUBSET Points,
             NEW refused \in SUBSET (pts \cap Suspect), Post(s, pts, refused)
      PROVE  Drawn'
  BY <1>1, <1>2 DEF Post, netVars, pageVars
<1>3. ASSUME NEW s \in Sessions, Announce(s) \/ Started(s) PROVE Drawn'
  BY <1>1, <1>3 DEF Announce, Started, pageVars
<1>4. CASE FlushFleet \/ AnswerSnapshot
  <2>1. wire' \in Seq(Frames) /\ UNCHANGED <<view, needsRefetch, route, backfills, emitted, missed>>
    <3>1. NetTypes'
      BY <1>4, ServeTypes, Groups
    <3>. QED
      BY <1>4, <3>1 DEF FlushFleet, AnswerSnapshot, pageVars, ghostVars, NetTypes
  <2>2. \A i \in DOMAIN wire : i \in DOMAIN wire' /\ wire'[i] = wire[i]
    <3>1. CASE FlushFleet
      <4>. DEFINE f == [kind |-> "positions", at |-> pending]
      <4>1. f \in Frames
        BY Groups DEF Frames, NodeTypes
      <4>2. wire' = wire \/ wire' = wire \o <<f>>
        BY <3>1 DEF FlushFleet, Say
      <4>. HIDE DEF f
      <4>. QED
        BY <4>1, <4>2, One, Joining DEF FeedTypes
    <3>2. CASE AnswerSnapshot
      <4>1. PICK f : wire' = Append(wire, f)
        BY <3>2 DEF AnswerSnapshot
      <4>. QED
        BY <4>1, LenProperties DEF FeedTypes
    <3>. QED
      BY <1>4, <3>1, <3>2
  <2>3. \A p : Seen(p) => Seen(p)'
    BY <2>1, <2>2 DEF Seen, Covers
  <2>. QED
    BY <2>1, <2>3 DEF Drawn, Seen
<1>5. CASE Serve \/ Reconnect \/ UNCHANGED vars
  BY <1>1, <1>5 DEF Serve, Reconnect, vars, netVars, pageVars, ghostVars
<1>6. CASE ReadRoute
  <2>1. view' = view /\ emitted' = emitted /\ route' = stored[view] /\ view \in Sessions
    BY <1>6 DEF ReadRoute
  <2>. QED
    BY <2>1 DEF Drawn, Kept
<1>7. CASE ReadFleet
  BY <1>7, FleetAssumption DEF ReadFleet, Drawn
<1>8. CASE \E v \in Views : Navigate(v)
  BY <1>8 DEF Navigate, Drawn
<1>. QED
  BY <1>2, <1>3, <1>4, <1>5, <1>6, <1>7, <1>8, DrawnEmit, DrawnDeliver, DrawnDrop, FeedParts

-----------------------------------------------------------------------------
(* The rooms of the socket.                                                *)

LEMMA JoinedServe ==
  ASSUME FeedTypes, Joined, Serve
  PROVE  Joined'
<1>. DEFINE h == Head(asks)
<1>1. /\ conn = "up" /\ conn' = "up" /\ view' = view /\ asks # <<>> /\ asks' = Tail(asks)
      /\ rooms' = IF h[1] = "sub" THEN rooms \cup {h[2]} ELSE rooms \ {h[2]}
  BY DEF Serve, pageVars
<1>2. /\ asks' \in Seq(Requests) /\ h = asks[1] /\ 1 \in DOMAIN asks
      /\ \A i \in DOMAIN asks' : i + 1 \in DOMAIN asks /\ i >= 1 /\ asks'[i] = asks[i + 1]
      /\ \A i \in DOMAIN asks : i = 1 \/ (i - 1 \in DOMAIN asks' /\ i > 1)
  BY <1>1, Falling DEF FeedTypes
<1>3. DOMAIN asks \subseteq Int /\ DOMAIN asks' \subseteq Int
  BY <1>2, LenProperties DEF FeedTypes
<1>. HIDE DEF h
<1>4. \A i \in DOMAIN asks : i = 1 \/ asks[i] = asks'[i - 1]
  BY <1>2, <1>3
<1>5. ASSUME NEW r \in Views, \A i \in DOMAIN asks' : asks'[i][2] # r
      PROVE  r \in rooms' <=> r = view
  <2>1. \A i \in DOMAIN asks : i = 1 \/ asks[i][2] # r
    BY <1>2, <1>4, <1>5
  <2>2. CASE h[2] = r
    <3>1. \A j \in DOMAIN asks : j > 1 => asks[j][2] # r
      BY <1>3, <2>1
    <3>2. LastFor(r, 1)
      BY <1>2, <2>2, <3>1 DEF LastFor
    <3>3. h[1] = "sub" <=> r = view
      BY <1>1, <1>2, <3>2 DEF Joined
    <3>. QED
      BY <1>1, <2>2, <3>3
  <2>3. CASE h[2] # r
    <3>1. Unasked(r)
      BY <1>2, <2>1, <2>3 DEF Unasked
    <3>2. r \in rooms <=> r = view
      BY <1>1, <3>1 DEF Joined
    <3>. QED
      BY <1>1, <2>3, <3>2
  <2>. QED
    BY <2>2, <2>3
<1>6. ASSUME NEW r \in Views, NEW i \in DOMAIN asks', asks'[i][2] = r,
             \A j \in DOMAIN asks' : j > i => asks'[j][2] # r
      PROVE  asks'[i][1] = "sub" <=> r = view
  <2>1. i + 1 \in DOMAIN asks /\ asks'[i] = asks[i + 1] /\ i \in Int /\ i >= 1
    BY <1>2, <1>3
  <2>2. ASSUME NEW j \in DOMAIN asks, j > i + 1 PROVE asks[j][2] # r
    <3>1. j # 1 /\ j - 1 > i
      BY <1>3, <2>1, <2>2
    <3>2. j - 1 \in DOMAIN asks' /\ asks[j] = asks'[j - 1]
      BY <1>2, <1>4, <3>1
    <3>. QED
      BY <1>6, <3>1, <3>2
  <2>3. LastFor(r, i + 1)
    BY <1>6, <2>1, <2>2 DEF LastFor
  <2>. QED
    BY <1>1, <2>1, <2>3 DEF Joined
<1>. QED
  BY <1>1, <1>5, <1>6 DEF Joined, Unasked, LastFor

LEMMA JoinedReconnect ==
  ASSUME FeedTypes, Joined, Reconnect
  PROVE  Joined'
<1>. DEFINE q == <<"sub", view>>
<1>1. /\ conn = "down" /\ conn' = "up" /\ view' = view /\ rooms' = rooms
      /\ asks' = Append(asks, q)
  BY DEF Reconnect, pageVars, nodeVars
<1>2. rooms = {} /\ \A i \in DOMAIN asks : asks[i][1] = "unsub"
  BY <1>1 DEF Joined
<1>3. /\ asks \in Seq(Requests) /\ q \in Requests /\ q[1] = "sub" /\ q[2] = view
  BY Groups DEF FeedTypes, Requests, PageTypes
<1>. HIDE DEF q
<1>4. PICK w \in Seq(Requests) : w = <<q>> /\ DOMAIN w = {1} /\ w[1] = q
  BY <1>3, One
<1>5. asks' = asks \o w
  BY <1>1, <1>3, <1>4, AppendIsConcat
<1>6. /\ Len(asks) \in Nat /\ asks' \in Seq(Requests)
      /\ \A i \in DOMAIN asks' :
            \/ i \in DOMAIN asks /\ i <= Len(asks) /\ asks'[i] = asks[i]
            \/ i > Len(asks) /\ i - Len(asks) = 1 /\ asks'[i] = q
      /\ Len(asks) + 1 \in DOMAIN asks' /\ asks'[Len(asks) + 1] = q
  BY <1>3, <1>4, <1>5, Joining
<1>7. DOMAIN asks' \subseteq Int
  BY <1>6, LenProperties
<1>8. ASSUME NEW r \in Views, \A i \in DOMAIN asks' : asks'[i][2] # r
      PROVE  r \in rooms' <=> r = view
  BY <1>1, <1>2, <1>3, <1>6, <1>8
<1>9. ASSUME NEW r \in Views, NEW i \in DOMAIN asks', asks'[i][2] = r,
             \A j \in DOMAIN asks' : j > i => asks'[j][2] # r
      PROVE  asks'[i][1] = "sub" <=> r = view
  <2>1. CASE asks'[i] = q
    BY <1>3, <1>9, <2>1
  <2>2. CASE i \in DOMAIN asks /\ i <= Len(asks) /\ asks'[i] = asks[i]
    <3>1. Len(asks) + 1 > i
      BY <1>6, <1>7, <2>2
    <3>2. r # view
      BY <1>3, <1>6, <1>9, <3>1
    <3>. QED
      BY <1>2, <2>2, <3>2
  <2>. QED
    BY <1>6, <2>1, <2>2
<1>. QED
  BY <1>1, <1>8, <1>9 DEF Joined, Unasked, LastFor

LEMMA JoinedNavigate ==
  ASSUME FeedTypes, Joined, NEW v \in Views, Navigate(v)
  PROVE  Joined'
<1>. DEFINE p == <<"unsub", view>>
            q == <<"sub", v>>
<1>1. /\ v # view /\ view' = v /\ conn' = conn /\ rooms' = rooms
      /\ asks' = asks \o (IF conn = "up" THEN <<p, q>> ELSE <<p>>)
  BY DEF Navigate, nodeVars
<1>2. /\ asks \in Seq(Requests) /\ p \in Requests /\ q \in Requests
      /\ p[1] = "unsub" /\ p[2] = view /\ q[1] = "sub" /\ q[2] = v
  BY Groups DEF FeedTypes, Requests, PageTypes
<1>. HIDE DEF p, q
<1>3. CASE conn = "up"
  <2>1. PICK w : w = <<p, q>>
    OBVIOUS
  <2>2. w \in Seq(Requests) /\ DOMAIN w = {1, 2} /\ w[1] = p /\ w[2] = q
    BY <1>2, <2>1
  <2>3. asks' = asks \o w
    BY <1>1, <1>3, <2>1
  <2>4. /\ Len(asks) \in Nat /\ asks' \in Seq(Requests)
        /\ \A i \in DOMAIN asks' :
              \/ i \in DOMAIN asks /\ i <= Len(asks) /\ asks'[i] = asks[i]
              \/ i > Len(asks) /\ i - Len(asks) \in {1, 2} /\ asks'[i] = w[i - Len(asks)]
        /\ \A i \in DOMAIN asks : i \in DOMAIN asks' /\ i <= Len(asks) /\ asks'[i] = asks[i]
        /\ \A i \in {1, 2} : Len(asks) + i \in DOMAIN asks' /\ asks'[Len(asks) + i] = w[i]
    BY <1>2, <2>2, <2>3, Joining
  <2>5. DOMAIN asks' \subseteq Int
    BY <2>4, LenProperties
  <2>6. ASSUME NEW r \in Views, \A i \in DOMAIN asks' : asks'[i][2] # r
        PROVE  r \in rooms' <=> r = v
    <3>1. r # v /\ r # view
      BY <1>2, <2>2, <2>4, <2>6
    <3>2. Unasked(r)
      BY <2>4, <2>6 DEF Unasked
    <3>. QED
      BY <1>1, <1>3, <3>1, <3>2 DEF Joined
  <2>7. ASSUME NEW r \in Views, NEW i \in DOMAIN asks', asks'[i][2] = r,
               \A j \in DOMAIN asks' : j > i => asks'[j][2] # r
        PROVE  asks'[i][1] = "sub" <=> r = v
    <3>1. CASE i > Len(asks) /\ i - Len(asks) \in {1, 2} /\ asks'[i] = w[i - Len(asks)]
      <4>1. asks'[i] = p \/ asks'[i] = q
        BY <2>2, <3>1
      <4>. QED
        BY <1>1, <1>2, <2>7, <4>1
    <3>2. CASE i \in DOMAIN asks /\ i <= Len(asks) /\ asks'[i] = asks[i]
      <4>1. Len(asks) + 1 > i /\ Len(asks) + 2 > i
        BY <2>4, <2>5, <3>2
      <4>2. r # v /\ r # view
        BY <1>2, <2>2, <2>4, <2>7, <4>1
      <4>3. \A j \in DOMAIN asks : j > i => asks[j][2] # r
        BY <2>4, <2>7
      <4>4. LastFor(r, i)
        BY <2>7, <3>2, <4>3 DEF LastFor
      <4>. QED
        BY <1>3, <3>2, <4>2, <4>4 DEF Joined
    <3>. QED
      BY <2>4, <3>1, <3>2
  <2>. QED
    BY <1>1, <1>3, <2>6, <2>7 DEF Joined, Unasked, LastFor
<1>4. CASE conn # "up"
  <2>1. PICK w \in Seq(Requests) : w = <<p>> /\ DOMAIN w = {1} /\ w[1] = p
    BY <1>2, One
  <2>2. asks' = asks \o w
    BY <1>1, <1>4, <2>1
  <2>3. \A i \in DOMAIN asks' : asks'[i] = p \/ (i \in DOMAIN asks /\ asks'[i] = asks[i])
    BY <1>2, <2>1, <2>2, Joining
  <2>4. rooms = {} /\ \A i \in DOMAIN asks : asks[i][1] = "unsub"
    BY <1>4 DEF Joined
  <2>. QED
    BY <1>1, <1>2, <1>4, <2>3, <2>4 DEF Joined
<1>. QED
  BY <1>3, <1>4

LEMMA JoinedStep ==
  ASSUME FeedTypes, Joined, [FeedNext]_vars
  PROVE  Joined'
<1>1. ASSUME UNCHANGED <<conn, asks, rooms, view>> PROVE Joined'
  BY <1>1 DEF Joined, Unasked, LastFor
<1>2. ASSUME NEW s \in Sessions, NEW pts \in SUBSET Points,
             NEW refused \in SUBSET (pts \cap Suspect), Post(s, pts, refused)
      PROVE  Joined'
  BY <1>1, <1>2 DEF Post, netVars, pageVars
<1>3. ASSUME NEW s \in Sessions, Announce(s) \/ Started(s) PROVE Joined'
  BY <1>1, <1>3 DEF Announce, Started, pageVars
<1>4. ASSUME NEW t \in tasks, EmitHead(t) \/ EmitTail(t) \/ EmitStatus(t) PROVE Joined'
  BY <1>1, <1>4 DEF EmitHead, EmitTail, EmitStatus, pageVars
<1>5. CASE FlushFleet \/ AnswerSnapshot \/ UNCHANGED vars
  BY <1>1, <1>5 DEF FlushFleet, AnswerSnapshot, vars, nodeVars, netVars, pageVars
<1>6. CASE Drop
  BY <1>6, None0 DEF Drop, Joined
<1>7. CASE Deliver \/ ReadRoute \/ ReadFleet
  BY <1>1, <1>7 DEF Deliver, ReadRoute, ReadFleet, nodeVars
<1>. QED
  BY <1>2, <1>3, <1>4, <1>5, <1>6, <1>7, JoinedServe, JoinedReconnect, JoinedNavigate, FeedParts

-----------------------------------------------------------------------------
(* What the page is told.                                                  *)

LEMMA StateSays ==
  ASSUME NEW t \in Tasks, t.kind = "batch"
  PROVE  /\ \A i \in DOMAIN StateFrames(t) :
               /\ t.active /\ StateFrames(t)[i].session = t.session
               /\ StateFrames(t)[i].status = "ACTIVE"
         /\ t.active => 1 \in DOMAIN StateFrames(t)
<1>. DEFINE f == [kind |-> "state", session |-> t.session, status |-> "ACTIVE"]
<1>1. f.session = t.session /\ f.status = "ACTIVE"
  OBVIOUS
<1>2. IF t.active THEN StateFrames(t) = <<f>> ELSE StateFrames(t) = <<>>
  BY BatchTask DEF StateFrames
<1>. HIDE DEF f
<1>. QED
  BY <1>1, <1>2, One, None0

LEMMA StatusSays ==
  ASSUME NEW t \in Tasks, t.kind = "status"
  PROVE  /\ \A i \in DOMAIN StatusFrames(t) :
               StatusFrames(t)[i].session = t.session /\ StatusFrames(t)[i].status = t.status
         /\ 1 \in DOMAIN StatusFrames(t)
<1>. DEFINE f == [kind |-> "state", session |-> t.session, status |-> t.status]
<1>1. f.session = t.session /\ f.status = t.status
  OBVIOUS
<1>2. StatusFrames(t) = <<f>>
  BY DEF StatusFrames
<1>. HIDE DEF f
<1>. QED
  BY <1>1, <1>2, One

\* A commit for session s leaves the status of every other as it was.
LEMMA OthersRest ==
  ASSUME IInv, NEW s \in Sessions,
         \/ \E pts \in SUBSET Points : \E refused \in SUBSET (pts \cap Suspect) :
               Post(s, pts, refused)
         \/ Announce(s) \/ Started(s),
         NEW r \in Sessions, r # s
  PROVE  status'[r] = status[r]
<1>0. status \in [Sessions -> Status]
  BY DEF IInv, TypeOK
<1>1. ASSUME NEW pts \in SUBSET Points, NEW refused \in SUBSET (pts \cap Suspect),
             Post(s, pts, refused)
      PROVE  status'[r] = status[r]
  <2>1. status' = [status EXCEPT ![s] =
             IF @ = "CLAIMED" /\ Accepted(s, pts, refused) # {} THEN "ACTIVE" ELSE @]
    BY <1>1 DEF Post, Ingest
  <2>. QED
    BY <1>0, <2>1
<1>2. CASE Announce(s)
  BY <1>0, <1>2 DEF Announce, Pause, Resume, Close, Regenerate, Claim
<1>3. CASE Started(s)
  BY <1>0, <1>3 DEF Started
<1>. QED
  BY <1>1, <1>2, <1>3

\* A commit starts nothing, and then the status stays, or starts one broadcast,
\* which says what is so; a batch that says nothing leaves the status as it was.
LEMMA CommitSays ==
  ASSUME IInv, NEW s \in Sessions,
         \/ \E pts \in SUBSET Points : \E refused \in SUBSET (pts \cap Suspect) :
               Post(s, pts, refused)
         \/ Announce(s) \/ Started(s)
  PROVE  /\ UNCHANGED <<wire, told, view, missed>>
         /\ \/ UNCHANGED <<status, tasks, overtaken>>
            \/ \E t \in Tasks :
                  /\ Commits(t) /\ t.session = s
                  /\ IF Talks(t) THEN Agree(Says(t), status'[s]) ELSE status'[s] = status[s]
<1>0. UNCHANGED <<wire, told, view, missed>>
  BY DEF Post, Announce, Started, netVars, pageVars
<1>1. ASSUME NEW v \in Status, Start([kind |-> "status", session |-> s, status |-> v]),
             v = status'[s] \/ (v = "ACTIVE" /\ status'[s] \in OpenStatus)
      PROVE  \E t \in Tasks : /\ Commits(t) /\ t.session = s
                              /\ Talks(t) /\ Agree(Says(t), status'[s])
  <2>. DEFINE t == [kind |-> "status", session |-> s, status |-> v]
  <2>1. t \in Tasks /\ t.kind = "status" /\ t.session = s /\ t.status = v
    BY DEF Tasks
  <2>2. Start(t)
    BY <1>1
  <2>. HIDE DEF t
  <2>3. Commits(t)
    BY <2>2 DEF Start, Commits
  <2>4. Talks(t) /\ Says(t) = v
    BY <2>1 DEF Talks, Says
  <2>. QED
    BY <1>1, <2>1, <2>3, <2>4 DEF Agree
<1>2. CASE Announce(s)
  <2>1. status'[s] \in Status
    BY <1>2, StatusSteps DEF Announce, StatusStep, IInv
  <2>. QED
    BY <1>0, <1>1, <1>2, <2>1 DEF Announce
<1>3. CASE Started(s)
  <2>1. status'[s] \in OpenStatus /\ "ACTIVE" \in Status
    BY <1>3 DEF Started, Open, OpenStatus, Status, IInv, TypeOK
  <2>. QED
    BY <1>0, <1>1, <1>3, <2>1 DEF Started
<1>4. ASSUME NEW pts \in SUBSET Points, NEW refused \in SUBSET (pts \cap Suspect),
             Post(s, pts, refused)
      PROVE  \/ UNCHANGED <<status, tasks, overtaken>>
             \/ \E t \in Tasks :
                   /\ Commits(t) /\ t.session = s
                   /\ IF Talks(t) THEN Agree(Says(t), status'[s]) ELSE status'[s] = status[s]
  <2>. DEFINE new == Accepted(s, pts, refused)
              a == status'[s] = "ACTIVE"
              t == [kind |-> "batch", session |-> s, live |-> LiveHead(s, new),
                    segment |-> Segment(s, new), active |-> a, headed |-> FALSE]
  <2>1. /\ new \in SUBSET Points /\ status \in [Sessions -> Status]
        /\ status' = [status EXCEPT ![s] = IF @ = "CLAIMED" /\ new # {} THEN "ACTIVE" ELSE @]
    BY <1>4 DEF Accepted, Post, Ingest, IInv, TypeOK
  <2>2. CASE new = {}
    <3>1. UNCHANGED <<tasks, overtaken>>
      BY <1>4, <2>2 DEF Post
    <3>2. status' = status
      BY <2>1, <2>2
    <3>. QED
      BY <3>1, <3>2
  <2>3. CASE new # {}
    <3>1. Start(t)
      BY <1>4, <2>3 DEF Post
    <3>2. Newest(new) \in Points
      BY <2>1, <2>3, NewestIs
    <3>3. LiveHead(s, new) \in Points \cup {0} /\ Segment(s, new) \in SUBSET Points
      BY <2>1, <3>2 DEF LiveHead, Segment
    <3>4. a \in BOOLEAN /\ (a <=> status'[s] = "ACTIVE")
      OBVIOUS
    <3>5. ~a => status'[s] = status[s]
      BY <2>1
    <3>. HIDE DEF a, new
    <3>6. /\ t \in Tasks /\ t.kind = "batch" /\ t.session = s /\ (t.active <=> a)
      BY <3>3, <3>4 DEF Tasks
    <3>. HIDE DEF t
    <3>7. Commits(t)
      BY <3>1 DEF Start, Commits
    <3>8. Talks(t) <=> a
      BY <3>6 DEF Talks
    <3>9. a => Agree(Says(t), status'[s])
      BY <3>4, <3>6 DEF Says, Agree
    <3>. QED
      BY <3>5, <3>6, <3>7, <3>8, <3>9
  <2>. QED
    BY <2>2, <2>3
<1>. QED
  BY <1>0, <1>2, <1>3, <1>4

\* A broadcast that talks and is not over keeps its session and its word.
LEMMA TasksStay ==
  ASSUME FeedTypes, NEW t \in tasks, EmitHead(t) \/ EmitTail(t) \/ EmitStatus(t), NEW u \in tasks'
  PROVE  /\ u \in tasks \/ (u.kind = "batch" /\ t.kind = "batch" /\ u.session = t.session
                           /\ (u.active <=> t.active))
         /\ UNCHANGED <<status, overtaken, view, told>>
<1>0. t \in Tasks
  BY Groups DEF NodeTypes
<1>1. UNCHANGED <<status, overtaken, view, told>>
  BY DEF EmitHead, EmitTail, EmitStatus, serverVars, pageVars
<1>2. CASE EmitHead(t)
  <2>. DEFINE w == [t EXCEPT !.headed = TRUE]
  <2>1. t.kind = "batch" /\ (u \in tasks \/ u = w)
    BY <1>2 DEF EmitHead
  <2>2. w.kind = "batch" /\ w.session = t.session /\ (w.active <=> t.active)
    <3>1. t \in [kind : {"batch"}, session : Sessions, live : Points \cup {0},
                 segment : SUBSET Points, active : BOOLEAN, headed : BOOLEAN]
      BY <1>0, <2>1 DEF Tasks
    <3>. QED
      BY <3>1
  <2>. HIDE DEF w
  <2>. QED
    BY <1>1, <2>1, <2>2
<1>3. CASE EmitTail(t) \/ EmitStatus(t)
  BY <1>1, <1>3 DEF EmitTail, EmitStatus
<1>. QED
  BY <1>2, <1>3

LEMMA TruthfulStep ==
  ASSUME IInv, FeedTypes, Truthful, [FeedNext]_vars
  PROVE  Truthful'
<1>0. tasks \subseteq Tasks /\ \A t \in Tasks : t.session \in Sessions
  BY Groups DEF NodeTypes, Tasks
<1>1. ASSUME UNCHANGED <<status, tasks, overtaken>> PROVE Truthful'
  BY <1>1 DEF Truthful, Fits
<1>2. ASSUME NEW s \in Sessions,
             \/ \E pts \in SUBSET Points : \E refused \in SUBSET (pts \cap Suspect) :
                   Post(s, pts, refused)
             \/ Announce(s) \/ Started(s)
      PROVE  Truthful'
  <2>1. CASE UNCHANGED <<status, tasks, overtaken>>
    BY <1>1, <2>1
  <2>2. ASSUME NEW t \in Tasks, Commits(t), t.session = s,
               IF Talks(t) THEN Agree(Says(t), status'[s]) ELSE status'[s] = status[s]
        PROVE  Truthful'
    <3>1. SUFFICES ASSUME NEW u \in tasks', Talks(u), u.session \notin overtaken'
                   PROVE  Fits(Says(u), u.session)'
      BY DEF Truthful, Talks, Says
    <3>2. CASE u = t
      BY <2>2, <3>1, <3>2 DEF Fits
    <3>3. CASE u # t
      <4>1. u \in tasks /\ u.session \notin overtaken
        BY <2>2, <3>1, <3>3 DEF Commits
      <4>2. u.session # s
        BY <2>2, <3>1, <4>1 DEF Commits, Busy
      <4>3. status'[u.session] = status[u.session]
        BY <1>0, <1>2, <4>1, <4>2, OthersRest
      <4>4. Fits(Says(u), u.session)
        BY <3>1, <4>1 DEF Truthful
      <4>. QED
        BY <4>3, <4>4 DEF Fits
    <3>. QED
      BY <3>2, <3>3
  <2>. QED
    BY <1>2, <2>1, <2>2, CommitSays
<1>3. ASSUME NEW t \in tasks, EmitHead(t) \/ EmitTail(t) \/ EmitStatus(t) PROVE Truthful'
  <2>1. SUFFICES ASSUME NEW u \in tasks', Talks(u), u.session \notin overtaken'
                 PROVE  Fits(Says(u), u.session)'
    BY DEF Truthful, Talks, Says
  <2>2. UNCHANGED <<status, overtaken>>
    BY <1>3, TasksStay
  <2>3. CASE u \in tasks
    BY <2>1, <2>2, <2>3 DEF Truthful, Fits
  <2>4. CASE u.kind = "batch" /\ t.kind = "batch" /\ u.session = t.session
             /\ (u.active <=> t.active)
    <3>1. Talks(t) /\ Says(t) = Says(u) /\ t.session \notin overtaken
      BY <2>1, <2>2, <2>4 DEF Talks, Says
    <3>2. Fits(Says(u), u.session)
      BY <2>4, <3>1 DEF Truthful
    <3>. QED
      BY <2>2, <3>2 DEF Fits
  <2>. QED
    BY <1>3, <2>3, <2>4, TasksStay
<1>4. CASE FlushFleet \/ Serve \/ AnswerSnapshot \/ Drop \/ Reconnect \/ UNCHANGED vars
  BY <1>1, <1>4 DEF FlushFleet, Serve, AnswerSnapshot, Drop, Reconnect, vars, serverVars,
     nodeVars, ghostVars
<1>5. CASE Deliver \/ ReadRoute \/ ReadFleet \/ \E v \in Views : Navigate(v)
  BY <1>1, <1>5 DEF Deliver, ReadRoute, ReadFleet, Navigate, serverVars, nodeVars, ghostVars
<1>. QED
  BY <1>2, <1>3, <1>4, <1>5, FeedParts

\* Frames fr are added: they say nothing, and what was last stays last, or they
\* say what is so.
LEMMA Extended ==
  ASSUME wire \in Seq(Frames), NEW fr \in Seq(Frames), wire' = wire \o fr,
         UNCHANGED <<view, told>>, status'[view] = status[view],
         \A j \in DOMAIN fr : Speaks(fr[j]) => Fits(fr[j].status, view),
         Latest \/ \E j \in DOMAIN fr : Speaks(fr[j])
  PROVE  Latest'
<1>1. /\ Len(wire) \in Nat /\ wire \o fr \in Seq(Frames)
      /\ \A i \in DOMAIN (wire \o fr) :
            \/ i \in DOMAIN wire /\ i <= Len(wire) /\ (wire \o fr)[i] = wire[i]
            \/ i > Len(wire) /\ i - Len(wire) \in DOMAIN fr
                  /\ (wire \o fr)[i] = fr[i - Len(wire)]
      /\ \A i \in DOMAIN wire : i \in DOMAIN (wire \o fr) /\ i <= Len(wire)
                                /\ (wire \o fr)[i] = wire[i]
      /\ \A i \in DOMAIN fr : /\ Len(wire) + i \in DOMAIN (wire \o fr)
                              /\ (wire \o fr)[Len(wire) + i] = fr[i]
  BY Joining
<1>2. PICK w : w = wire \o fr
  OBVIOUS
<1>3. /\ DOMAIN w \subseteq Int /\ DOMAIN fr \subseteq Int /\ \A j \in DOMAIN fr : j > 0
  BY <1>1, <1>2, LenProperties
<1>4. ASSUME NEW i \in DOMAIN w, Speaks(w[i]), \A j \in DOMAIN w : j > i => ~Speaks(w[j])
      PROVE  Fits(w[i].status, view)
  <2>1. CASE i > Len(wire) /\ i - Len(wire) \in DOMAIN fr /\ w[i] = fr[i - Len(wire)]
    BY <1>4, <2>1
  <2>2. CASE i \in DOMAIN wire /\ i <= Len(wire) /\ w[i] = wire[i]
    <3>1. \A j \in DOMAIN fr : ~Speaks(fr[j])
      <4>1. ASSUME NEW j \in DOMAIN fr, Speaks(fr[j]) PROVE FALSE
        <5>1. Len(wire) + j > i
          BY <1>1, <1>3, <2>2
        <5>2. Len(wire) + j \in DOMAIN w /\ w[Len(wire) + j] = fr[j]
          BY <1>1, <1>2
        <5>. QED
          BY <1>4, <4>1, <5>1, <5>2
      <4>. QED
        BY <4>1
    <3>2. \A j \in DOMAIN wire : j > i => ~Speaks(wire[j])
      BY <1>1, <1>2, <1>4
    <3>. QED
      BY <1>4, <2>2, <3>1, <3>2 DEF Latest
  <2>. QED
    BY <1>1, <1>2, <2>1, <2>2
<1>5. ASSUME \A i \in DOMAIN w : ~Speaks(w[i]), told # None PROVE Fits(told, view)
  <2>1. \A i \in DOMAIN wire : ~Speaks(wire[i])
    BY <1>1, <1>2, <1>5
  <2>2. \A j \in DOMAIN fr : ~Speaks(fr[j])
    BY <1>1, <1>2, <1>5
  <2>. QED
    BY <1>5, <2>1, <2>2 DEF Latest
<1>6. wire' = w
  BY <1>2
<1>. QED
  BY <1>4, <1>5, <1>6 DEF Latest, Speaks, Fits

\* The frames of p \o q are those of p and those of q.
LEMMA Spliced ==
  ASSUME NEW p \in Seq(Frames), NEW q \in Seq(Frames)
  PROVE  \E fr \in Seq(Frames) :
            /\ fr = p \o q
            /\ \A j \in DOMAIN fr : \/ \E i \in DOMAIN p : fr[j] = p[i]
                                    \/ \E i \in DOMAIN q : fr[j] = q[i]
            /\ \A i \in DOMAIN q : \E j \in DOMAIN fr : fr[j] = q[i]
<1>1. PICK fr : fr = p \o q
  OBVIOUS
<1>2. /\ fr \in Seq(Frames)
      /\ \A i \in DOMAIN fr : \/ i \in DOMAIN p /\ fr[i] = p[i]
                              \/ i - Len(p) \in DOMAIN q /\ fr[i] = q[i - Len(p)]
      /\ \A i \in DOMAIN q : Len(p) + i \in DOMAIN fr /\ fr[Len(p) + i] = q[i]
  BY <1>1, Joining
<1>3. \A j \in DOMAIN fr : \/ \E i \in DOMAIN p : fr[j] = p[i]
                           \/ \E i \in DOMAIN q : fr[j] = q[i]
  BY <1>2
<1>4. \A i \in DOMAIN q : \E j \in DOMAIN fr : fr[j] = q[i]
  BY <1>2
<1>. QED
  BY <1>1, <1>2, <1>3, <1>4

\* What goes out of a broadcast of another session does not speak to the page;
\* what goes out of its own speaks if the broadcast does, and says the same.
LEMMA EmitSays ==
  ASSUME FeedTypes, NEW t \in tasks, EmitHead(t) \/ EmitTail(t) \/ EmitStatus(t)
  PROVE  \E fr \in Seq(Frames) :
            /\ IF Hears(t.session) THEN wire' = wire \o fr ELSE wire' = wire
            /\ \A j \in DOMAIN fr : Speaks(fr[j]) =>
                  t.session = view /\ Talks(t) /\ fr[j].status = Says(t)
            /\ \/ \E u \in tasks' : u.session = t.session /\ (Talks(t) => Talks(u))
               \/ Talks(t) /\ t.session = view =>
                    /\ \E j \in DOMAIN fr : Speaks(fr[j])
                    /\ ~Hears(t.session) => "status" \in missed'
<1>0. t \in Tasks
  BY Groups DEF NodeTypes
<1>1. CASE EmitHead(t) /\ t.segment # {}
  <2>. DEFINE u == [t EXCEPT !.headed = TRUE]
  <2>1. /\ t.kind = "batch" /\ Say(t.session, PositionFrames(t) \o <<>>)
        /\ u \in tasks'
    BY <1>1 DEF EmitHead
  <2>2. u.session = t.session /\ (u.active <=> t.active)
    <3>1. t \in [kind : {"batch"}, session : Sessions, live : Points \cup {0},
                 segment : SUBSET Points, active : BOOLEAN, headed : BOOLEAN]
      BY <1>0, <2>1 DEF Tasks
    <3>. QED
      BY <3>1
  <2>. HIDE DEF u
  <2>3. PICK fr : fr = PositionFrames(t)
    OBVIOUS
  <2>4. /\ fr \in Seq(Frames) /\ fr \o <<>> = fr
        /\ \A i \in DOMAIN fr : fr[i].kind = "position"
    <3>1. fr \in Seq(Frames) /\ \A i \in DOMAIN fr : fr[i].kind = "position"
      BY <1>0, <2>1, <2>3, PositionFrame
    <3>. QED
      BY <3>1, ConcatEmptySeq
  <2>5. \A j \in DOMAIN fr : ~Speaks(fr[j])
    BY <2>4 DEF Speaks
  <2>6. IF Hears(t.session) THEN wire' = wire \o fr ELSE wire' = wire
    BY <2>1, <2>3, <2>4 DEF Say, Hears
  <2>7. u.session = t.session /\ (Talks(t) => Talks(u))
    BY <2>1, <2>2 DEF Talks
  <2>. QED
    BY <2>1, <2>4, <2>5, <2>6, <2>7
<1>2. CASE EmitHead(t) /\ t.segment = {}
  <2>1. PICK pf, sf : pf = PositionFrames(t) /\ sf = StateFrames(t)
    OBVIOUS
  <2>2. /\ t.kind = "batch" /\ Say(t.session, pf \o sf)
        /\ missed' = missed \cup Unheard(t.session, sf)
    BY <1>2, <2>1 DEF EmitHead
  <2>3. /\ pf \in Seq(Frames) /\ sf \in Seq(Frames)
        /\ \A i \in DOMAIN pf : ~Speaks(pf[i])
    BY <1>0, <2>1, <2>2, PositionFrame, StateFrame DEF Speaks
  <2>4. /\ \A i \in DOMAIN sf : /\ t.active /\ sf[i].kind = "state"
                                /\ sf[i].session = t.session /\ sf[i].status = "ACTIVE"
        /\ t.active => 1 \in DOMAIN sf
    BY <1>0, <2>1, <2>2, StateFrame, StateSays
  <2>5. Says(t) = "ACTIVE" /\ (Talks(t) <=> t.active)
    BY <2>2 DEF Says, Talks
  <2>6. PICK fr \in Seq(Frames) :
           /\ fr = pf \o sf
           /\ \A j \in DOMAIN fr : \/ \E i \in DOMAIN pf : fr[j] = pf[i]
                                   \/ \E i \in DOMAIN sf : fr[j] = sf[i]
           /\ \A i \in DOMAIN sf : \E j \in DOMAIN fr : fr[j] = sf[i]
    BY <2>3, Spliced
  <2>7. \A j \in DOMAIN fr : Speaks(fr[j]) =>
           t.session = view /\ Talks(t) /\ fr[j].status = Says(t)
    BY <2>3, <2>4, <2>5, <2>6 DEF Speaks
  <2>8. ASSUME Talks(t), t.session = view
        PROVE  /\ \E j \in DOMAIN fr : Speaks(fr[j])
               /\ ~Hears(t.session) => "status" \in missed'
    <3>1. 1 \in DOMAIN sf /\ Speaks(sf[1])
      BY <2>4, <2>5, <2>8 DEF Speaks
    <3>2. "status" \in Losses(sf)
      BY <3>1 DEF Losses, Speaks
    <3>. QED
      BY <2>2, <2>6, <3>1, <3>2 DEF Unheard
  <2>9. IF Hears(t.session) THEN wire' = wire \o fr ELSE wire' = wire
    BY <2>2, <2>6 DEF Say, Hears
  <2>. QED
    BY <2>7, <2>8, <2>9
<1>3. CASE EmitTail(t)
  <2>1. PICK bf, sf : bf = BackfillFrames(t) /\ sf = StateFrames(t)
    OBVIOUS
  <2>2. /\ t.kind = "batch" /\ Say(t.session, bf \o sf)
        /\ missed' = missed \cup Unheard(t.session, bf \o sf)
    BY <1>3, <2>1 DEF EmitTail
  <2>3. /\ bf \in Seq(Frames) /\ sf \in Seq(Frames)
        /\ \A i \in DOMAIN bf : ~Speaks(bf[i])
    BY <1>0, <2>1, <2>2, BackfillFrame, StateFrame DEF Speaks
  <2>4. /\ \A i \in DOMAIN sf : /\ t.active /\ sf[i].kind = "state"
                                /\ sf[i].session = t.session /\ sf[i].status = "ACTIVE"
        /\ t.active => 1 \in DOMAIN sf
    BY <1>0, <2>1, <2>2, StateFrame, StateSays
  <2>5. Says(t) = "ACTIVE" /\ (Talks(t) <=> t.active)
    BY <2>2 DEF Says, Talks
  <2>6. PICK fr \in Seq(Frames) :
           /\ fr = bf \o sf
           /\ \A j \in DOMAIN fr : \/ \E i \in DOMAIN bf : fr[j] = bf[i]
                                   \/ \E i \in DOMAIN sf : fr[j] = sf[i]
           /\ \A i \in DOMAIN sf : \E j \in DOMAIN fr : fr[j] = sf[i]
    BY <2>3, Spliced
  <2>7. \A j \in DOMAIN fr : Speaks(fr[j]) =>
           t.session = view /\ Talks(t) /\ fr[j].status = Says(t)
    BY <2>3, <2>4, <2>5, <2>6 DEF Speaks
  <2>8. ASSUME Talks(t), t.session = view
        PROVE  /\ \E j \in DOMAIN fr : Speaks(fr[j])
               /\ ~Hears(t.session) => "status" \in missed'
    <3>1. 1 \in DOMAIN sf /\ Speaks(sf[1])
      BY <2>4, <2>5, <2>8 DEF Speaks
    <3>2. PICK j \in DOMAIN fr : Speaks(fr[j])
      BY <2>6, <3>1
    <3>3. "status" \in Losses(fr)
      BY <3>2 DEF Losses, Speaks
    <3>. QED
      BY <2>2, <2>6, <3>2, <3>3 DEF Unheard
  <2>9. IF Hears(t.session) THEN wire' = wire \o fr ELSE wire' = wire
    BY <2>2, <2>6 DEF Say, Hears
  <2>. QED
    BY <2>7, <2>8, <2>9
<1>4. CASE EmitStatus(t)
  <2>1. PICK fr : fr = StatusFrames(t)
    OBVIOUS
  <2>2. /\ t.kind = "status" /\ Say(t.session, fr)
        /\ missed' = missed \cup Unheard(t.session, fr)
    BY <1>4, <2>1 DEF EmitStatus
  <2>3. /\ fr \in Seq(Frames) /\ 1 \in DOMAIN fr
        /\ \A i \in DOMAIN fr : /\ fr[i].kind = "state" /\ fr[i].session = t.session
                                /\ fr[i].status = t.status
    BY <1>0, <2>1, <2>2, StatusFrame, StatusSays
  <2>4. Talks(t) /\ Says(t) = t.status
    BY <2>2 DEF Talks, Says
  <2>5. \A j \in DOMAIN fr : Speaks(fr[j]) =>
           t.session = view /\ Talks(t) /\ fr[j].status = Says(t)
    BY <2>3, <2>4 DEF Speaks
  <2>6. ASSUME t.session = view
        PROVE  /\ \E j \in DOMAIN fr : Speaks(fr[j])
               /\ ~Hears(t.session) => "status" \in missed'
    <3>1. Speaks(fr[1])
      BY <2>3, <2>6 DEF Speaks
    <3>2. "status" \in Losses(fr)
      BY <2>3, <3>1 DEF Losses, Speaks
    <3>. QED
      BY <2>2, <2>3, <3>1, <3>2 DEF Unheard
  <2>7. IF Hears(t.session) THEN wire' = wire \o fr ELSE wire' = wire
    BY <2>2 DEF Say, Hears
  <2>. QED
    BY <2>3, <2>5, <2>6, <2>7
<1>. QED
  BY <1>1, <1>2, <1>3, <1>4

LEMMA InformedEmit ==
  ASSUME FeedTypes, Chains, Truthful, Informed,
         NEW t \in tasks, EmitHead(t) \/ EmitTail(t) \/ EmitStatus(t)
  PROVE  Informed'
<1>0. UNCHANGED <<status, overtaken, view, told>> /\ missed \subseteq missed'
  BY DEF EmitHead, EmitTail, EmitStatus, serverVars, pageVars
<1>1. SUFFICES ASSUME view \in Sessions, view \notin overtaken, "status" \notin missed',
                      \A u \in tasks' : u.session = view => ~Talks(u)
               PROVE  Latest'
  BY <1>0 DEF Informed, Talks
<1>2. PICK fr \in Seq(Frames) :
         /\ IF Hears(t.session) THEN wire' = wire \o fr ELSE wire' = wire
         /\ \A j \in DOMAIN fr : Speaks(fr[j]) =>
               t.session = view /\ Talks(t) /\ fr[j].status = Says(t)
         /\ \/ \E u \in tasks' : u.session = t.session /\ (Talks(t) => Talks(u))
            \/ Talks(t) /\ t.session = view =>
                 /\ \E j \in DOMAIN fr : Speaks(fr[j])
                 /\ ~Hears(t.session) => "status" \in missed'
  BY EmitSays
<1>3. wire \in Seq(Frames)
  BY DEF FeedTypes
<1>4. \A u \in tasks \ {t} : u \in tasks'
  BY DEF EmitHead, EmitTail, EmitStatus
<1>5. CASE Talks(t) /\ t.session = view
  <2>1. /\ \E j \in DOMAIN fr : Speaks(fr[j])
        /\ Hears(t.session)
    BY <1>1, <1>2, <1>5
  <2>2. Fits(Says(t), view)
    BY <1>1, <1>5 DEF Truthful
  <2>. QED
    BY <1>0, <1>2, <1>3, <2>1, <2>2, Extended
<1>6. CASE ~(Talks(t) /\ t.session = view)
  <2>1. Latest
    <3>1. \A u \in tasks : u.session = view => ~Talks(u)
      BY <1>1, <1>4, <1>6
    <3>. QED
      BY <1>0, <1>1, <3>1 DEF Informed
  <2>2. \A j \in DOMAIN fr : ~Speaks(fr[j])
    BY <1>2, <1>6
  <2>3. CASE wire' = wire \o fr
    BY <1>0, <1>3, <2>1, <2>2, <2>3, Extended
  <2>4. CASE wire' = wire
    BY <1>0, <2>1, <2>4 DEF Latest, Speaks, Fits
  <2>. QED
    BY <1>2, <2>3, <2>4
<1>. QED
  BY <1>5, <1>6

LEMMA InformedDeliver ==
  ASSUME FeedTypes, Informed, Deliver
  PROVE  Informed'
<1>. DEFINE f == Head(wire)
<1>1. /\ UNCHANGED <<status, tasks, overtaken, view>>
      /\ missed \subseteq missed' /\ wire # <<>> /\ wire' = Tail(wire)
      /\ f.kind = "state" /\ f.session # view => "status" \in missed'
      /\ f.kind = "state" => OnState(f)
      /\ f.kind # "state" => told' = told
  BY DEF Deliver, OnFleet, OnPosition, OnBackfill, serverVars, nodeVars
<1>. HIDE DEF f
<1>2. SUFFICES ASSUME view \in Sessions, view \notin overtaken, "status" \notin missed',
                      \A u \in tasks : u.session = view => ~Talks(u)
               PROVE  Latest'
  BY <1>1 DEF Informed, Talks
<1>3. Latest
  BY <1>1, <1>2 DEF Informed
<1>4. PICK w : w = Tail(wire)
  OBVIOUS
<1>5. /\ 1 \in DOMAIN wire /\ f = wire[1] /\ w \in Seq(Frames)
      /\ \A i \in DOMAIN w : i + 1 \in DOMAIN wire /\ i >= 1 /\ w[i] = wire[i + 1]
      /\ \A i \in DOMAIN wire : i = 1 \/ (i - 1 \in DOMAIN w /\ i > 1)
      /\ DOMAIN wire \subseteq Int /\ DOMAIN w \subseteq Int
  BY <1>1, <1>4, Falling, LenProperties DEF FeedTypes, f
<1>6. \A i \in DOMAIN wire : i = 1 \/ wire[i] = w[i - 1]
  BY <1>5
<1>7. ASSUME NEW i \in DOMAIN w, Speaks(w[i]), \A j \in DOMAIN w : j > i => ~Speaks(w[j])
      PROVE  Fits(w[i].status, view)
  <2>1. i + 1 \in DOMAIN wire /\ w[i] = wire[i + 1]
    BY <1>5
  <2>2. ASSUME NEW j \in DOMAIN wire, j > i + 1 PROVE ~Speaks(wire[j])
    <3>1. j # 1 /\ j - 1 \in DOMAIN w /\ j - 1 > i
      BY <1>5, <2>2
    <3>. QED
      BY <1>6, <1>7, <3>1
  <2>. QED
    BY <1>3, <1>7, <2>1, <2>2 DEF Latest
<1>8. ASSUME \A i \in DOMAIN w : ~Speaks(w[i]), told' # None PROVE Fits(told', view)
  <2>1. \A j \in DOMAIN wire : j > 1 => ~Speaks(wire[j])
    BY <1>5, <1>6, <1>8
  <2>2. CASE Speaks(f)
    <3>1. Fits(f.status, view)
      BY <1>3, <1>5, <2>1, <2>2 DEF Latest
    <3>2. view # Fleet
      BY <1>2, FleetAssumption
    <3>. QED
      BY <1>1, <2>2, <3>1, <3>2 DEF OnState, Speaks
  <2>3. CASE ~Speaks(f)
    <3>1. f.kind # "state"
      BY <1>1, <1>2, <2>3 DEF Speaks
    <3>2. \A j \in DOMAIN wire : ~Speaks(wire[j])
      BY <1>5, <2>1, <2>3
    <3>. QED
      BY <1>1, <1>3, <1>8, <3>1, <3>2 DEF Latest
  <2>. QED
    BY <2>2, <2>3
<1>9. wire' = w
  BY <1>1, <1>4
<1>. QED
  BY <1>1, <1>7, <1>8, <1>9 DEF Latest, Speaks, Fits

LEMMA InformedStep ==
  ASSUME IInv, FeedTypes, Chains, Truthful, Informed, [FeedNext]_vars
  PROVE  Informed'
<1>1. ASSUME UNCHANGED <<status, tasks, overtaken, wire, view, told>>,
             "status" \in missed => "status" \in missed'
      PROVE  Informed'
  BY <1>1 DEF Informed, Latest, Talks, Speaks, Fits
<1>2. ASSUME NEW s \in Sessions,
             \/ \E pts \in SUBSET Points : \E refused \in SUBSET (pts \cap Suspect) :
                   Post(s, pts, refused)
             \/ Announce(s) \/ Started(s)
      PROVE  Informed'
  <2>1. UNCHANGED <<wire, told, view, missed>>
    BY <1>2, CommitSays
  <2>2. CASE UNCHANGED <<status, tasks, overtaken>>
    BY <1>1, <2>1, <2>2
  <2>3. ASSUME NEW t \in Tasks, Commits(t), t.session = s,
               IF Talks(t) THEN Agree(Says(t), status'[s]) ELSE status'[s] = status[s]
        PROVE  Informed'
    <3>1. SUFFICES ASSUME view \in Sessions, view \notin overtaken', "status" \notin missed,
                          \A u \in tasks' : u.session = view => ~Talks(u)
                   PROVE  Latest'
      BY <2>1 DEF Informed, Talks
    <3>2. view \notin overtaken /\ \A u \in tasks : u.session = view => ~Talks(u)
      BY <2>3, <3>1 DEF Commits
    <3>3. Latest
      BY <3>1, <3>2 DEF Informed
    <3>4. status'[view] = status[view]
      <4>1. CASE view = s
        BY <2>3, <3>1, <4>1 DEF Commits
      <4>2. CASE view # s
        BY <1>2, <3>1, <4>2, OthersRest
      <4>. QED
        BY <4>1, <4>2
    <3>. QED
      BY <2>1, <3>3, <3>4 DEF Latest, Speaks, Fits
  <2>. QED
    BY <1>2, <2>2, <2>3, CommitSays
<1>3. CASE FlushFleet \/ AnswerSnapshot
  <2>1. UNCHANGED <<status, tasks, overtaken, view, told, missed>>
    BY <1>3 DEF FlushFleet, AnswerSnapshot, serverVars, pageVars, ghostVars
  <2>2. PICK g : \/ wire' = wire
                 \/ g \in Frames /\ g.kind # "state" /\ wire' = wire \o <<g>>
    <3>1. CASE FlushFleet
      <4>. DEFINE h == [kind |-> "positions", at |-> pending]
      <4>1. h \in Frames /\ h.kind = "positions"
        BY Groups DEF Frames, NodeTypes
      <4>2. wire' = wire \/ wire' = wire \o <<h>>
        BY <3>1 DEF FlushFleet, Say
      <4>. HIDE DEF h
      <4>. QED
        BY <4>1, <4>2
    <3>2. CASE AnswerSnapshot
      <4>. DEFINE at == [s \in Sessions |-> SnapshotRow(s)]
                  h == [kind |-> "snapshot", at |-> at]
      <4>1. at \in [Sessions -> Points \cup {0}]
        BY DEF SnapshotRow, IInv, TypeOK
      <4>2. wire' = Append(wire, h)
        BY <3>2 DEF AnswerSnapshot
      <4>. HIDE DEF at
      <4>3. h \in Frames /\ h.kind = "snapshot"
        BY <4>1 DEF Frames
      <4>. HIDE DEF h
      <4>. QED
        BY <4>2, <4>3, AppendIsConcat DEF FeedTypes
    <3>. QED
      BY <1>3, <3>1, <3>2
  <2>3. CASE wire' = wire
    BY <1>1, <2>1, <2>3
  <2>4. CASE g \in Frames /\ g.kind # "state" /\ wire' = wire \o <<g>>
    <3>1. PICK fr : fr = <<g>>
      OBVIOUS
    <3>2. fr \in Seq(Frames) /\ \A j \in DOMAIN fr : ~Speaks(fr[j])
      BY <2>4, <3>1, One DEF Speaks
    <3>3. Latest => Latest'
      BY <2>1, <2>4, <3>1, <3>2, Extended DEF FeedTypes
    <3>. QED
      BY <2>1, <3>3 DEF Informed, Talks
  <2>. QED
    BY <2>2, <2>3, <2>4
<1>4. CASE Serve \/ Reconnect \/ ReadRoute \/ ReadFleet \/ UNCHANGED vars
  BY <1>1, <1>4 DEF Serve, Reconnect, ReadRoute, ReadFleet, vars, serverVars, nodeVars,
     netVars, pageVars, ghostVars
<1>5. CASE Drop
  <2>1. /\ UNCHANGED <<status, tasks, overtaken, view, told>>
        /\ wire' = <<>> /\ missed' = missed \cup Losses(wire)
    BY <1>5 DEF Drop, serverVars, pageVars
  <2>2. ASSUME NEW i \in DOMAIN wire, Speaks(wire[i]) PROVE "status" \in missed'
    BY <2>1, <2>2 DEF Losses, Speaks
  <2>3. DOMAIN wire' = {}
    BY <2>1, None0
  <2>. QED
    BY <2>1, <2>2, <2>3 DEF Informed, Latest, Talks, Fits
<1>6. ASSUME NEW v \in Views, Navigate(v) PROVE Informed'
  <2>1. /\ told' = None /\ UNCHANGED wire
        /\ (\E i \in DOMAIN wire : wire[i].kind = "state") => "status" \in missed'
    BY <1>6 DEF Navigate
  <2>. QED
    BY <2>1 DEF Informed, Latest, Speaks
<1>. QED
  BY <1>2, <1>3, <1>4, <1>5, <1>6, InformedEmit, InformedDeliver, FeedParts

-----------------------------------------------------------------------------
(* The theorems.                                                           *)

LEMMA FeedInvInit ==
  ASSUME FeedInit
  PROVE  FeedInv
<1>1. IInv /\ FeedTypes
  BY InitTypes
<1>2. /\ tasks = {} /\ wire = <<>> /\ live = Nothing /\ pending = Nothing /\ rooms = {}
      /\ asks = <<<<"sub", view>>>> /\ conn = "up" /\ needsRefetch = TRUE
      /\ emitted = [s \in Sessions |-> {}]
  BY DEF FeedInit
<1>3. Chains
  <2>1. SUFFICES ASSUME NEW s \in Sessions PROVE Chain(s) /\ Lone(s)
    BY DEF Chains
  <2>2. live[s] = 0 /\ pending[s] = 0 /\ anchor[s] \in Nat /\ DOMAIN wire = {}
    BY <1>1, <1>2, Numbers, None0 DEF Nothing
  <2>. QED
    BY <1>2, <2>2 DEF Chain, Lone, Shown
<1>4. Kept /\ Drawn
  BY <1>2 DEF Kept, Drawn
<1>5. Joined
  <2>1. DOMAIN asks = {1} /\ asks[1] = <<"sub", view>>
    BY <1>2
  <2>. QED
    BY <1>2, <2>1 DEF Joined, Unasked, LastFor
<1>6. Truthful /\ Informed
  <2>1. told = None /\ DOMAIN wire = {}
    BY <1>2, None0 DEF FeedInit
  <2>. QED
    BY <1>2, <2>1 DEF Truthful, Informed, Latest
<1>. QED
  BY <1>1, <1>3, <1>4, <1>5, <1>6 DEF FeedInv

LEMMA FeedInvStep ==
  ASSUME FeedInv, [FeedNext]_vars
  PROVE  FeedInv'
<1>1. IInv' /\ FeedTypes'
  BY ServerInv, FeedTypesStep DEF FeedInv
<1>2. Chains' /\ Kept' /\ Drawn' /\ Joined'
  BY ChainsStep, KeptStep, DrawnStep, JoinedStep DEF FeedInv
<1>3. Truthful' /\ Informed'
  BY TruthfulStep, InformedStep DEF FeedInv
<1>. QED
  BY <1>1, <1>2, <1>3 DEF FeedInv

LEMMA FeedInvHolds == FeedSpec => []FeedInv
  BY FeedInvInit, FeedInvStep, PTL DEF FeedSpec

\* Frames, broadcasts, requests and everything the page keeps stay within
\* their types, whatever the order in which broadcasts come back.
THEOREM FeedTypesHold == FeedSpec => []FeedTypeOK
  BY FeedInvHolds, PTL DEF FeedInv, FeedTypes

\* Beside the broadcasts and the events of the phone, the row of a session
\* still is what the table of its points says (kh.ingest_points).
THEOREM RowIsTheStoreHere == FeedSpec => []RowIsTheStore
<1>1. FeedInv => RowIsTheStore
  BY DEF FeedInv, IInv, RowIsTheStore
<1>. QED
  BY <1>1, FeedInvHolds, PTL

\* A batch the server has already is free here as well: no step of Node, of the
\* connection or of the tab can make a replay count twice.
THEOREM FeedReplaysAreFree == FeedSpec => ReplayIsFree
<1>1. ASSUME FeedInv, [FeedNext]_vars PROVE Free
  <2>1. CASE NoServer
    BY <2>1 DEF NoServer, Free, serverVars
  <2>2. CASE Next
    BY <1>1, <2>2, ReplayStep DEF FeedInv
  <2>3. ASSUME NEW s \in Sessions, Started(s) PROVE Free
    BY <1>1, <2>3, StartedMoves DEF FeedInv, IInv, Free
  <2>. QED
    BY <1>1, <2>1, <2>2, <2>3, ServerMoves
<1>. QED
  BY <1>1, FeedInvHolds, PTL DEF FeedSpec, ReplayIsFree, Free

\* A segment of two fixes or more is drawn on the page of its session, or the
\* page owes itself a read, or it was lost while the socket could not hear
\* (useRealtime.ts onBackfill).
THEOREM SegmentsAreDrawn == FeedSpec => []LateSegmentsAreDrawn
<1>1. FeedInv => LateSegmentsAreDrawn
  BY DEF FeedInv, Drawn, LateSegmentsAreDrawn, Covers
<1>. QED
  BY <1>1, FeedInvHolds, PTL

\* A truck never drives backwards on an open page, unless two of its uploads
\* were in the server at once (realtime.publisher.ts, useRealtime.ts).
THEOREM MarkersNeverRewind == FeedSpec => MarkerNeverRewinds
<1>1. ASSUME FeedInv, [FeedNext]_vars, NEW s \in Sessions, live'[s] # 0, live'[s] < live[s]
      PROVE  s \in overtaken
  <2>1. SUFFICES ASSUME s \notin overtaken PROVE FALSE
    OBVIOUS
  <2>2. Chain(s) /\ FeedTypes
    BY <1>1, <2>1 DEF FeedInv, Chains
  <2>3. live[s] \in Nat
    BY <2>2, Numbers
  <2>4. live'[s] # live[s]
    BY <1>1, <2>3
  <2>5. CASE Deliver
    <3>1. PICK f \in Frames : /\ wire # <<>> /\ f = Head(wire)
                              /\ live'[s] = live[s] \/ (At(f, s) # 0 /\ live'[s] = At(f, s))
      BY <2>2, <2>5, DeliverMoves, Groups
    <3>2. 1 \in DOMAIN wire /\ f = wire[1]
      BY <2>2, <3>1, Falling DEF FeedTypes
    <3>3. live[s] <= At(f, s)
      BY <2>2, <2>4, <3>1, <3>2 DEF Chain
    <3>. QED
      BY <1>1, <2>2, <2>3, <2>4, <3>1, <3>2, <3>3, Numbers
  <2>6. CASE \E v \in Views : Navigate(v)
    BY <1>1, <2>6 DEF Navigate, Nothing
  <2>7. ~(Deliver \/ \E v \in Views : Navigate(v)) => live' = live
    <3>1. ASSUME NEW r \in Sessions, NEW pts \in SUBSET Points,
                 NEW refused \in SUBSET (pts \cap Suspect), Post(r, pts, refused)
          PROVE  live' = live
      BY <3>1 DEF Post, pageVars
    <3>2. ASSUME NEW r \in Sessions, Announce(r) \/ Started(r) PROVE live' = live
      BY <3>2 DEF Announce, Started, pageVars
    <3>3. ASSUME NEW t \in tasks, EmitHead(t) \/ EmitTail(t) \/ EmitStatus(t)
          PROVE  live' = live
      BY <3>3 DEF EmitHead, EmitTail, EmitStatus, pageVars
    <3>4. FlushFleet \/ Serve \/ AnswerSnapshot \/ Drop \/ Reconnect => live' = live
      BY DEF FlushFleet, Serve, AnswerSnapshot, Drop, Reconnect, pageVars
    <3>5. ReadRoute \/ ReadFleet \/ UNCHANGED vars => live' = live
      BY DEF ReadRoute, ReadFleet, vars, pageVars
    <3>. QED
      BY <1>1, <3>1, <3>2, <3>3, <3>4, <3>5, FeedParts
  <2>. QED
    BY <2>4, <2>5, <2>6, <2>7
<1>2. FeedInv /\ [FeedNext]_vars =>
         \A s \in Sessions : live[s] # 0 /\ live'[s] # 0 /\ live'[s] < live[s] => s \in overtaken
  BY <1>1
<1>. QED
  BY <1>2, FeedInvHolds, PTL DEF FeedSpec, MarkerNeverRewinds

\* After any history of outages and navigations a connected tab whose requests
\* are served is in the room of the page it shows and in no other
\* (useRealtime.ts effect cleanups, realtime.gateway.ts unsubscribe).
THEOREM RoomsFollowTheView == FeedSpec => []RoomsMatchView
<1>1. FeedInv => RoomsMatchView
  <2>1. SUFFICES ASSUME FeedInv, conn = "up", asks = <<>> PROVE rooms = {view}
    BY DEF RoomsMatchView
  <2>2. \A r \in Views : r \in rooms <=> r = view
    BY <2>1, None0 DEF FeedInv, Joined, Unasked
  <2>3. rooms \subseteq Views /\ view \in Views
    BY <2>1, Groups DEF FeedInv, NodeTypes, PageTypes
  <2>. QED
    BY <2>2, <2>3
<1>. QED
  BY <1>1, FeedInvHolds, PTL

\* ... and what the page was told of its shipment's status is so, unless
\* broadcasts overlapped, a frame was lost, or one of before the page or of
\* another shipment reached it (useRealtime.ts onState, which does not ask).
THEOREM SubscribersServed == FeedSpec => []SubscribersAreServed
<1>1. FeedInv => ToldTheStatus
  <2>1. SUFFICES ASSUME FeedInv, view \in Sessions, told # None, view \notin overtaken,
                        "status" \notin missed, ~Busy(view),
                        \A i \in DOMAIN wire : wire[i].kind # "state"
                 PROVE  Fits(told, view)
    BY DEF ToldTheStatus, Fits, Agree
  <2>. QED
    BY <2>1 DEF FeedInv, Informed, Latest, Speaks, Busy
<1>. QED
  BY <1>1, RoomsFollowTheView, FeedInvHolds, PTL DEF SubscribersAreServed

=============================================================================

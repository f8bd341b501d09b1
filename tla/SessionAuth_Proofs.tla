------------------------- MODULE SessionAuth_Proofs -------------------------
(***************************************************************************)
(* Theorems about the guard and its cache.  What the sessions keep on      *)
(* their own is taken from SessionLifecycle_Proofs: every step of          *)
(* SessionAuth is a step of the sessions or leaves them alone.             *)
(*                                                                         *)
(* HonestNeverMismatched speaks of rows read long ago.  RowsFit says what  *)
(* such a row still has in common with the present session and with the    *)
(* tokens, those that a refresh hands out later included.                  *)
(***************************************************************************)
EXTENDS SessionAuth, TLAPS

LifeP == INSTANCE SessionLifecycle_Proofs

-----------------------------------------------------------------------------
(* The sessions.                                                           *)

LEMMA LifeInit == Init => LifeP!Init
  BY DEF Init, Life!Init, LifeP!Init, Life!Idle, LifeP!Idle

LEMMA LifeStep == TypeOK /\ [Next]_vars => [LifeP!Next]_lifeVars
<1>. SUFFICES ASSUME TypeOK, Next PROVE LifeP!Next \/ UNCHANGED lifeVars
  BY DEF vars
<1>. USE DEF Life!Live, LifeP!Live, Life!OpenStatus, LifeP!OpenStatus,
             Life!MayOpen, LifeP!MayOpen, Life!Bump, LifeP!Bump,
             Life!Follow, LifeP!Follow, Life!Idle, LifeP!Idle
<1>1. ASSUME NEW s \in Sessions, Create(s) PROVE LifeP!Next
  BY <1>1 DEF Create, LifeP!Next, Life!Create, LifeP!Create, Life!MarkDispatched,
     LifeP!MarkDispatched, Life!AbandonCreate, LifeP!AbandonCreate
<1>2. ASSUME NEW s \in Sessions, Transition(s) PROVE LifeP!Next
  BY <1>2 DEF Transition, LifeP!Next, Life!Pause, LifeP!Pause, Life!Resume, LifeP!Resume
<1>3. ASSUME NEW s \in Sessions, Expire(s) PROVE LifeP!Next
  BY <1>3 DEF Expire, LifeP!Next, Life!Expire, LifeP!Expire
<1>4. ASSUME NEW s \in Sessions, NEW outcome \in {"COMPLETED", "CANCELLED"},
             Finalize(s, outcome)
      PROVE LifeP!Next
  BY <1>4 DEF Finalize, LifeP!Next, Life!Finalize, LifeP!Finalize
<1>5. ASSUME NEW s \in Sessions, NEW d \in Devices, Claim(s, d) PROVE LifeP!Next
  BY <1>5 DEF Claim, LifeP!Next, Life!Claim, LifeP!Claim
<1>6. ASSUME NEW u \in Dispatchers, NEW s \in Sessions, Regenerate(u, s) PROVE LifeP!Next
  BY <1>6 DEF Regenerate, LifeP!Next, Life!CheckRegenerate, LifeP!CheckRegenerate,
     Life!UpdateCode, LifeP!UpdateCode, Life!RevokeDevices, LifeP!RevokeDevices
<1>7. ASSUME NEW u \in Dispatchers, Abandon(u) PROVE LifeP!Next
  BY <1>7 DEF Abandon, LifeP!Next, Life!AbandonRegenerate, LifeP!AbandonRegenerate
<1>8. ASSUME Token PROVE LifeP!Next
  BY <1>8 DEF Token, LifeP!Next, Life!Refresh, LifeP!Refresh, Life!TokenExpires,
     LifeP!TokenExpires
<1>9. ASSUME NEW t \in admitted, Run(t) PROVE LifeP!Next \/ UNCHANGED lifeVars
  <2>1. t.s \in Sessions
    BY DEF TypeOK, Life!Token
  <2>. QED
    BY <1>9, <2>1 DEF Run, LifeP!Next, Life!Activate, LifeP!Activate, Life!Pause, LifeP!Pause
<1>10. ASSUME \/ \E s \in Sessions : Invalidate(s) \/ LoseInvalidate(s) \/ Lapse(s)
              \/ \E t \in tokens : Hit(t) \/ Miss(t)
              \/ \E a \in reading : Fill(a)
       PROVE  UNCHANGED lifeVars
  BY <1>10 DEF Invalidate, LoseInvalidate, Lapse, Hit, Miss, Fill
<1>. QED
  BY <1>1, <1>2, <1>3, <1>4, <1>5, <1>6, <1>7, <1>8, <1>9, <1>10 DEF Next

LEMMA LifeTypes == (LifeP!TypeOK <=> Life!TypeOK) /\ (LifeP!TypeOK' <=> Life!TypeOK')
  BY DEF LifeP!TypeOK, Life!TypeOK, Life!Live, LifeP!Live, Life!OpenStatus,
     LifeP!OpenStatus, Life!Closed, LifeP!Closed, Life!Versions, LifeP!Versions,
     Life!Idle, LifeP!Idle, Life!Token, LifeP!Token, Life!Refreshing, LifeP!Refreshing

LEMMA LifeHolds == TypeOK /\ LifeP!IInv /\ [Next]_vars => LifeP!IInv'
  BY LifeStep, NamesAssumption, BoundAssumption, LifeP!StepHolds DEF lifeVars, LifeP!lifeVars

LEMMA LifeTypesHold == TypeOK /\ LifeP!IInv /\ [Next]_vars => Life!TypeOK'
<1>1. LifeP!IInv' => LifeP!TypeOK'
  BY DEF LifeP!IInv
<1>2. LifeP!TypeOK' <=> Life!TypeOK'
  BY LifeTypes
<1>. QED
  BY <1>1, <1>2, LifeHolds

-----------------------------------------------------------------------------
(* Type correctness of the guard's own variables.                          *)

LEMMA RowIsRow ==
    ASSUME Life!TypeOK, NEW s \in Sessions, status[s] # "NONE"
    PROVE  RowOf(s) \in Row
  BY DEF Life!TypeOK, RowOf, Row

LEMMA TypeStep == TypeOK /\ LifeP!IInv /\ [Next]_vars => TypeOK'
<1>. DEFINE Own == /\ cache \in [Sessions -> Row \cup {NoEntry}]
                   /\ pendingDel \in [Sessions -> 0..MaxPending]
                   /\ reading \subseteq Row
                   /\ admitted \subseteq Life!Token
                   /\ tainted \subseteq Sessions
<1>. SUFFICES ASSUME TypeOK, LifeP!IInv, [Next]_vars PROVE Own'
  BY LifeTypesHold DEF TypeOK
<1>1. Own /\ MaxPending \in Nat /\ tokens \subseteq Life!Token /\ Life!TypeOK
  BY BoundAssumption DEF TypeOK, Life!TypeOK
<1>2. ASSUME Quiet PROVE Own'
  BY <1>1, <1>2 DEF Quiet
<1>3. ASSUME NEW s \in Sessions, Owe(s) PROVE Own'
  BY <1>1, <1>3 DEF Owe
<1>4. ASSUME NEW s \in Sessions, Invalidate(s) \/ LoseInvalidate(s) \/ Lapse(s) PROVE Own'
  BY <1>1, <1>4 DEF Invalidate, LoseInvalidate, Lapse
<1>5. ASSUME NEW t \in tokens, Hit(t) PROVE Own'
  BY <1>1, <1>5 DEF Hit, Judge
<1>6. ASSUME NEW t \in tokens, Miss(t) PROVE Own'
  <2>1. t.s \in Sessions /\ status[t.s] # "NONE"
    BY <1>1 DEF Life!Token, LifeP!IInv, LifeP!Issued
  <2>2. RowOf(t.s) \in Row
    BY <1>1, <2>1, RowIsRow
  <2>. QED
    BY <1>1, <1>6, <2>2 DEF Miss
<1>7. ASSUME NEW a \in reading, Fill(a) PROVE Own'
  <2>1. a \in Row /\ a.s \in Sessions
    BY <1>1 DEF Row
  <2>2. admitted' \subseteq Life!Token
    BY <1>1, <1>7 DEF Fill, Judge
  <2>. QED
    BY <1>1, <1>7, <2>1, <2>2 DEF Fill
<1>8. ASSUME NEW u \in Dispatchers, Abandon(u) PROVE Own'
  BY <1>1, <1>8 DEF Abandon
<1>9. ASSUME NEW t \in admitted, Run(t) PROVE Own'
  <2>1. t.s \in Sessions
    BY <1>1 DEF Life!Token
  <2>. QED
    BY <1>1, <1>9, <2>1 DEF Run, lifeVars
<1>10. CASE UNCHANGED vars
  BY <1>1, <1>10 DEF vars
<1>. HIDE DEF Own
<1>. QED
  BY <1>2, <1>3, <1>4, <1>5, <1>6, <1>7, <1>8, <1>9, <1>10
     DEF Next, Create, Regenerate, Claim, Token, Transition, Finalize, Expire

-----------------------------------------------------------------------------
(* Old rows.                                                               *)

\* A row read earlier is of a version the session has had; its key is that
\* version's.  As long as the version is still current its device is the bound
\* one, and every token of the version is that device's.
RowsFit ==
    \A a \in Rows :
        /\ a.v <= version[a.s]
        /\ a.status \in Life!Live /\ a.d # NoDevice =>
              /\ a.k = a.v
              /\ a.v = version[a.s] /\ status[a.s] \in Life!Live /\ holder[a.s] # NoDevice
                    => a.d = holder[a.s]
              /\ \A t \in tokens : t.s = a.s /\ t.v = a.v => t.d = a.d

IInv == TypeOK /\ LifeP!IInv /\ RowsFit /\ StaleHasACause

LEMMA RowsAreRows == TypeOK => Rows \subseteq Row
  BY DEF TypeOK, Rows

\* What a step does to the rows: it keeps some, or reads the present one.
LEMMA RowsStep ==
    TypeOK /\ [Next]_vars =>
        \/ Rows' \subseteq Rows
        \/ /\ UNCHANGED lifeVars
           /\ \E t \in tokens : Rows' \subseteq Rows \cup {RowOf(t.s)}
<1>. SUFFICES ASSUME TypeOK, [Next]_vars,
                     ~ \E t \in tokens : Miss(t)
              PROVE  Rows' \subseteq Rows
  BY DEF Miss, Rows
<1>. USE DEF Rows
<1>1. ASSUME UNCHANGED <<cache, reading>> PROVE Rows' \subseteq Rows
  BY <1>1
<1>2. ASSUME NEW s \in Sessions, Invalidate(s) \/ Lapse(s) PROVE Rows' \subseteq Rows
  BY <1>2 DEF Invalidate, Lapse, TypeOK
<1>3. ASSUME NEW a \in reading, Fill(a) PROVE Rows' \subseteq Rows
  BY <1>3 DEF Fill, TypeOK
<1>. HIDE DEF Rows
<1>. QED
  BY <1>1, <1>2, <1>3 DEF Next, vars, Create, Quiet, Owe, Regenerate, Abandon, Claim,
     Token, Transition, Finalize, Expire, LoseInvalidate, Hit, Run

\* RowsFit, for one row.
Fits(a) ==
    /\ a.v <= version[a.s]
    /\ a.status \in Life!Live /\ a.d # NoDevice =>
          /\ a.k = a.v
          /\ a.v = version[a.s] /\ status[a.s] \in Life!Live /\ holder[a.s] # NoDevice
                => a.d = holder[a.s]
          /\ \A t \in tokens : t.s = a.s /\ t.v = a.v => t.d = a.d

LEMMA FitsRows == (RowsFit <=> \A a \in Rows : Fits(a)) /\ (RowsFit' <=> \A a \in Rows' : Fits(a)')
  BY DEF RowsFit, Fits

\* The present row fits.
LEMMA PresentFits ==
    ASSUME Life!TypeOK, LifeP!IInv, NEW s \in Sessions
    PROVE  Fits(RowOf(s))
<1>1. version[s] \in Nat
  BY BoundAssumption DEF Life!TypeOK, Life!Versions
<1>2. status[s] \in Life!Live /\ holder[s] # NoDevice => key[s] = version[s]
  BY DEF LifeP!IInv, LifeP!KeyIsVersion, Life!Live, LifeP!Live
<1>3. status[s] \in Life!Live /\ holder[s] # NoDevice =>
        \A t \in tokens : t.s = s /\ t.v = version[s] => t.d = holder[s]
  BY DEF LifeP!IInv, LifeP!SoleWriter, Life!Live, LifeP!Live
<1>. QED
  BY <1>1, <1>2, <1>3 DEF Fits, RowOf

\* An old row goes on fitting, whatever the sessions do.
LEMMA OldFits ==
    ASSUME Life!TypeOK, Life!TypeOK', LifeP!IInv, [LifeP!Next]_lifeVars,
           NEW a \in Row, Fits(a)
    PROVE  Fits(a)'
<1>0. /\ a.s \in Sessions /\ a.v \in Nat /\ \A x \in Sessions : version[x] \in Nat /\ version'[x] \in Nat
      /\ LifeP!TypeOK
  BY BoundAssumption DEF Row, Life!TypeOK, Life!Versions, LifeP!IInv
<1>1. ASSUME LifeP!Passive PROVE Fits(a)'
  BY <1>0, <1>1 DEF LifeP!Passive, Fits, Life!Live, LifeP!Live
<1>2. ASSUME NEW s \in Sessions, NEW d \in Devices, LifeP!Claim(s, d) PROVE Fits(a)'
  <2>1. /\ version'[s] = version[s] + 1
        /\ \A x \in Sessions \ {s} : version'[x] = version[x]
    BY <1>0, <1>2, NamesAssumption, BoundAssumption, LifeP!BumpFacts DEF LifeP!Claim
  <2>2. /\ \A x \in Sessions \ {s} : holder'[x] = holder[x] /\ status'[x] = status[x]
        /\ tokens' = tokens \cup {[s |-> s, d |-> d, v |-> version'[s], k |-> version'[s]]}
    BY <1>0, <1>2 DEF LifeP!Claim, LifeP!TypeOK
  <2>3. CASE a.s = s
    BY <1>0, <2>1, <2>2, <2>3 DEF Fits
  <2>4. CASE a.s # s
    BY <1>0, <2>1, <2>2, <2>4 DEF Fits
  <2>. QED
    BY <2>3, <2>4
<1>3. ASSUME NEW r \in refreshes, LifeP!Refresh(r) PROVE Fits(a)'
  <2>1. /\ holder[r.s] = r.d /\ r.d # NoDevice /\ status[r.s] \in Life!Live
        /\ UNCHANGED <<status, version, holder>>
        /\ tokens' = tokens \cup {[s |-> r.s, d |-> r.d, v |-> version[r.s], k |-> r.k]}
    BY <1>0, <1>3, NamesAssumption
       DEF LifeP!Refresh, LifeP!TypeOK, LifeP!Refreshing, Life!Live, LifeP!Live
  <2>. QED
    BY <2>1 DEF Fits
<1>. QED
  BY <1>0, <1>1, <1>2, <1>3, NamesAssumption, BoundAssumption, LifeP!StepKinds
     DEF lifeVars, LifeP!lifeVars

LEMMA RowsKeep ==
    TypeOK /\ TypeOK' /\ LifeP!IInv /\ RowsFit /\ [Next]_vars => RowsFit'
<1>. SUFFICES ASSUME TypeOK, TypeOK', LifeP!IInv, RowsFit, [Next]_vars,
                     NEW a \in Rows'
              PROVE  Fits(a)'
  BY FitsRows
<1>1. Life!TypeOK /\ Life!TypeOK' /\ [LifeP!Next]_lifeVars
  BY LifeStep DEF TypeOK
<1>2. CASE a \in Rows
  BY <1>1, <1>2, RowsAreRows, FitsRows, OldFits
<1>3. CASE UNCHANGED lifeVars /\ \E t \in tokens : a = RowOf(t.s)
  <2>1. PICK t \in tokens : a = RowOf(t.s)
    BY <1>3
  <2>2. t.s \in Sessions
    BY <1>1 DEF Life!TypeOK, Life!Token
  <2>3. Fits(a)
    BY <1>1, <2>1, <2>2, PresentFits
  <2>. QED
    BY <1>3, <2>3 DEF Fits, lifeVars
<1>. QED
  BY <1>2, <1>3, RowsStep

-----------------------------------------------------------------------------
(* Stale entries.                                                          *)

\* StaleHasACause, for one session.
Excused(s) ==
    cache[s] # NoEntry /\ cache[s].v # version[s] =>
        pendingDel[s] > 0 \/ (\E u \in Dispatchers : Updated(u, s)) \/ s \in tainted

LEMMA ExcusedAll == (StaleHasACause <=> \A s \in Sessions : Excused(s))
                    /\ (StaleHasACause' <=> \A s \in Sessions : Excused(s)')
  BY DEF StaleHasACause, Excused

\* A committed change of s owes a DEL of s, and is no one else's business.
LEMMA OweStep ==
    ASSUME TypeOK, StaleHasACause, NEW s \in Sessions, Owe(s),
           \A x \in Sessions \ {s} : version'[x] = version[x],
           \A u \in Dispatchers, x \in Sessions \ {s} : Updated(u, x) => Updated(u, x)'
    PROVE  StaleHasACause'
<1>1. pendingDel'[s] > 0 /\ \A x \in Sessions \ {s} : pendingDel'[x] = pendingDel[x]
  BY BoundAssumption DEF TypeOK, Owe
<1>2. UNCHANGED <<cache, tainted>>
  BY DEF Owe
<1>3. \A x \in Sessions : Excused(x)'
  BY <1>1, <1>2, ExcusedAll DEF Excused
<1>. QED
  BY <1>3, ExcusedAll

\* A step that leaves the guard and the versions alone.
LEMMA CalmStep ==
    ASSUME StaleHasACause, UNCHANGED <<version, cache, pendingDel, regen, tainted>>
    PROVE  StaleHasACause'
  BY DEF StaleHasACause, Updated

LEMMA StaleStep == TypeOK /\ StaleHasACause /\ [Next]_vars => StaleHasACause'
<1>. SUFFICES ASSUME TypeOK, StaleHasACause, [Next]_vars PROVE StaleHasACause'
  OBVIOUS
<1>0. /\ version \in [Sessions -> Life!Versions] /\ tokens \subseteq Life!Token
      /\ \A s \in Sessions : Excused(s)
      /\ \A t \in Life!Token : t.s \in Sessions
      /\ \A a \in reading : a.s \in Sessions
  BY ExcusedAll DEF TypeOK, Life!TypeOK, Life!Token, Row
<1>1. ASSUME NEW s \in Sessions, Create(s) PROVE StaleHasACause'
  BY <1>1, CalmStep DEF Create, Quiet, Life!Create, Life!MarkDispatched, Life!AbandonCreate
<1>2. ASSUME NEW s \in Sessions, Transition(s) PROVE StaleHasACause'
  BY <1>2, OweStep DEF Transition, Life!Pause, Life!Resume, Updated
<1>3. ASSUME NEW s \in Sessions, Expire(s) PROVE StaleHasACause'
  BY <1>0, <1>3, OweStep DEF Expire, Life!Expire, Life!Bump, Updated
<1>4. ASSUME NEW s \in Sessions, NEW outcome \in {"COMPLETED", "CANCELLED"},
             Finalize(s, outcome)
      PROVE StaleHasACause'
  BY <1>0, <1>4, OweStep DEF Finalize, Life!Finalize, Life!Bump, Updated
<1>5. ASSUME NEW s \in Sessions, NEW d \in Devices, Claim(s, d) PROVE StaleHasACause'
  BY <1>0, <1>5, OweStep DEF Claim, Life!Claim, Life!Bump, Updated
<1>6. ASSUME NEW u \in Dispatchers, NEW s \in Sessions, Life!RevokeDevices(u, s) /\ Owe(s)
      PROVE StaleHasACause'
  <2>1. \A w \in Dispatchers, x \in Sessions \ {s} : Updated(w, x) => Updated(w, x)'
    BY <1>6 DEF Life!RevokeDevices, Updated, TypeOK, Life!TypeOK
  <2>2. UNCHANGED version
    BY <1>6 DEF Life!RevokeDevices
  <2>. QED
    BY <1>6, <2>1, <2>2, OweStep
<1>7. ASSUME NEW u \in Dispatchers, NEW s \in Sessions, Life!CheckRegenerate(u, s), Quiet
      PROVE StaleHasACause'
  <2>1. \A w \in Dispatchers, x \in Sessions : Updated(w, x) => Updated(w, x)'
    BY <1>7 DEF Life!CheckRegenerate, Life!Idle, Updated, TypeOK, Life!TypeOK
  <2>. QED
    BY <1>0, <1>7, <2>1, ExcusedAll DEF Excused, Quiet, Life!CheckRegenerate
<1>8. ASSUME NEW u \in Dispatchers, NEW s \in Sessions, Life!UpdateCode(u, s), Quiet
      PROVE StaleHasACause'
  <2>1. \A w \in Dispatchers, x \in Sessions : Updated(w, x) => Updated(w, x)'
    BY <1>8 DEF Life!UpdateCode, Updated, TypeOK, Life!TypeOK
  <2>2. Updated(u, s)' /\ \A x \in Sessions \ {s} : version'[x] = version[x]
    BY <1>0, <1>8 DEF Life!UpdateCode, Life!Bump, Updated, TypeOK, Life!TypeOK
  <2>3. \A x \in Sessions : Excused(x)'
    BY <1>0, <1>8, <2>1, <2>2 DEF Excused, Quiet
  <2>. QED
    BY <2>3, ExcusedAll
<1>9. ASSUME NEW u \in Dispatchers, Abandon(u) PROVE StaleHasACause'
  <2>1. \A w \in Dispatchers \ {u}, x \in Sessions : Updated(w, x) => Updated(w, x)'
    BY <1>9 DEF Abandon, Life!AbandonRegenerate, Updated, TypeOK, Life!TypeOK
  <2>2. \A x \in Sessions : Updated(u, x) => x \in tainted'
    BY <1>9 DEF Abandon
  <2>3. UNCHANGED <<version, cache, pendingDel>> /\ tainted \subseteq tainted'
    BY <1>9 DEF Abandon, Life!AbandonRegenerate
  <2>4. \A x \in Sessions : Excused(x)'
    BY <1>0, <2>1, <2>2, <2>3 DEF Excused
  <2>. QED
    BY <2>4, ExcusedAll
<1>10. ASSUME Token PROVE StaleHasACause'
  BY <1>10, CalmStep DEF Token, Quiet, Life!Refresh, Life!TokenExpires
<1>11. ASSUME NEW s \in Sessions, Invalidate(s) \/ LoseInvalidate(s) \/ Lapse(s)
       PROVE StaleHasACause'
  <2>1. \A x \in Sessions : Excused(x)'
    BY <1>0, <1>11 DEF Invalidate, LoseInvalidate, Lapse, Excused, lifeVars, Updated, TypeOK
  <2>. QED
    BY <2>1, ExcusedAll
<1>12. ASSUME NEW t \in tokens, Hit(t) \/ Miss(t) PROVE StaleHasACause'
  BY <1>12, CalmStep DEF Hit, Miss, lifeVars
<1>13. ASSUME NEW a \in reading, Fill(a) PROVE StaleHasACause'
  <2>1. \A x \in Sessions : Excused(x)'
    BY <1>0, <1>13 DEF Fill, Excused, lifeVars, Updated, TypeOK
  <2>. QED
    BY <2>1, ExcusedAll
<1>14. ASSUME NEW t \in admitted, Run(t) PROVE StaleHasACause'
  <2>1. t.s \in Sessions
    BY <1>0 DEF TypeOK
  <2>2. UNCHANGED <<version, regen, cache, tainted>>
    BY <1>14 DEF Run, lifeVars, Life!Activate, Life!Pause
  <2>3. \A x \in Sessions : pendingDel[x] > 0 => pendingDel'[x] > 0
    BY <1>14, <2>1, BoundAssumption DEF Run, TypeOK
  <2>. QED
    BY <2>2, <2>3 DEF StaleHasACause, Updated
<1>15. CASE UNCHANGED vars
  BY <1>15, CalmStep DEF vars, lifeVars
<1>. QED
  BY <1>1, <1>2, <1>3, <1>4, <1>5, <1>6, <1>7, <1>8, <1>9, <1>10, <1>11, <1>12,
     <1>13, <1>14, <1>15 DEF Next, Regenerate

-----------------------------------------------------------------------------
LEMMA InitHolds == Init => IInv
<1>. SUFFICES ASSUME Init PROVE IInv
  OBVIOUS
<1>1. LifeP!IInv
  BY LifeInit, NamesAssumption, BoundAssumption, LifeP!InitHolds
<1>2. TypeOK
  BY <1>1, LifeTypes, BoundAssumption DEF Init, TypeOK, LifeP!IInv
<1>3. Rows = {}
  BY DEF Init, Rows
<1>. QED
  BY <1>1, <1>2, <1>3 DEF Init, IInv, RowsFit, StaleHasACause

\* The inductive invariant of the guard and its cache.
THEOREM Invariance == Spec => []IInv
<1>1. IInv /\ [Next]_vars => IInv'
  BY TypeStep, LifeHolds, RowsKeep, StaleStep DEF IInv
<1>. QED
  BY <1>1, InitHolds, PTL DEF Spec

-----------------------------------------------------------------------------
\* Entries, reads and admitted requests keep their types.
THEOREM TypeCorrect == Spec => []TypeOK
<1>1. IInv => TypeOK
  BY DEF IInv
<1>. QED
  BY <1>1, Invariance, PTL

\* The guard never answers an honest phone DEVICE_MISMATCH or BAD_SIGNATURE,
\* however old the row it judges by.
THEOREM HonestPhonesFit == Spec => []HonestNeverMismatched
<1>1. IInv => HonestNeverMismatched
  <2>. SUFFICES ASSUME IInv, NEW t \in tokens, NEW a \in Rows, a.s = t.s,
                       a.status \in Life!Live, a.v = t.v, a.d # NoDevice
                PROVE  a.d = t.d /\ a.k = t.k
    BY DEF HonestNeverMismatched, Verdict
  <2>. QED
    BY DEF IInv, RowsFit, LifeP!IInv, LifeP!TokensFit
<1>. QED
  BY <1>1, Invariance, PTL

\* An entry is stale only for a reason: a DEL on its way, a DEL lost, or a row
\* read before the change.
THEOREM StaleEntriesHaveACause == Spec => []StaleHasACause
<1>1. IInv => StaleHasACause
  BY DEF IInv
<1>. QED
  BY <1>1, Invariance, PTL

=============================================================================

---------------------- MODULE SessionLifecycle_Proofs ----------------------
(***************************************************************************)
(* Theorems about the sessions of an order for every set of sessions,      *)
(* phones and concurrent dispatchers.                                      *)
(*                                                                         *)
(* SoleWriter is not inductive alone: a claim must find no token of the    *)
(* version it is about to issue (TokensFit), and a refresh must find that  *)
(* the bound device's key is of the session's version (KeyIsVersion).      *)
(***************************************************************************)
EXTENDS SessionLifecycle, TLAPS

\* On a live session the bound device claimed last: nothing but a claim moves
\* the version of a session and leaves it live.
KeyIsVersion ==
    \A s \in Sessions : status[s] \in Live /\ holder[s] # NoDevice => key[s] = version[s]

\* Tokens are of a version the session has had, and of their key's claim.
TokensFit == \A t \in tokens : t.v = t.k /\ t.v <= version[t.s]

\* Credentials are of sessions that exist.
Issued == \A c \in tokens \cup refreshes : status[c.s] # "NONE"

IInv == TypeOK /\ CodeIffWaiting /\ KeyIsVersion /\ TokensFit /\ SoleWriter /\ Issued

-----------------------------------------------------------------------------
LEMMA InitHolds == Init => IInv
<1>. SUFFICES ASSUME Init PROVE IInv
  OBVIOUS
<1>. USE DEF Init
<1>1. TypeOK
  BY BoundAssumption DEF TypeOK, Versions
<1>. QED
  BY <1>1 DEF IInv, CodeIffWaiting, KeyIsVersion, TokensFit, SoleWriter, Issued, Live

LEMMA BumpFacts ==
    ASSUME TypeOK, NEW s \in Sessions, Bump(s)
    PROVE  /\ version' \in [Sessions -> Versions]
           /\ version'[s] = version[s] + 1
           /\ \A x \in Sessions : version[x] <= version'[x]
           /\ \A x \in Sessions \ {s} : version'[x] = version[x]
  BY BoundAssumption DEF TypeOK, Bump, Versions

-----------------------------------------------------------------------------
(* Type correctness, one action at a time.                                 *)

LEMMA TypeStep == TypeOK /\ [Next]_lifeVars => TypeOK'
<1>. SUFFICES ASSUME TypeOK, [Next]_lifeVars PROVE TypeOK'
  OBVIOUS
<1>. USE DEF TypeOK, OpenStatus, Live, Closed
<1>1. ASSUME NEW s \in Sessions, Create(s) PROVE TypeOK'
  BY <1>1 DEF Create
<1>2. ASSUME NEW s \in Sessions, MarkDispatched(s) \/ AbandonCreate(s) PROVE TypeOK'
  BY <1>2 DEF MarkDispatched, AbandonCreate
<1>3. ASSUME NEW s \in Sessions, Activate(s) \/ Pause(s) \/ Resume(s) PROVE TypeOK'
  BY <1>3 DEF Activate, Pause, Resume, Follow
<1>4. ASSUME NEW s \in Sessions, Expire(s) PROVE TypeOK'
  BY <1>4, BumpFacts DEF Expire
<1>5. ASSUME NEW s \in Sessions, NEW outcome \in {"COMPLETED", "CANCELLED"},
             Finalize(s, outcome)
      PROVE TypeOK'
  BY <1>5, BumpFacts DEF Finalize
<1>6. ASSUME NEW s \in Sessions, NEW d \in Devices, Claim(s, d) PROVE TypeOK'
  <2>1. version' \in [Sessions -> Versions] /\ version'[s] \in Versions
    BY <1>6, BumpFacts DEF Claim
  <2>2. tokens' \subseteq Token
    BY <1>6, <2>1 DEF Claim, Token
  <2>3. refreshes' \subseteq Refreshing
    BY <1>6, <2>1 DEF Claim, Refreshing
  <2>. QED
    BY <1>6, <2>1, <2>2, <2>3 DEF Claim
<1>7. ASSUME NEW u \in Dispatchers, NEW s \in Sessions, CheckRegenerate(u, s) PROVE TypeOK'
  BY <1>7 DEF CheckRegenerate
<1>8. ASSUME NEW u \in Dispatchers, NEW s \in Sessions, UpdateCode(u, s) PROVE TypeOK'
  BY <1>8, BumpFacts DEF UpdateCode
<1>9. ASSUME NEW u \in Dispatchers, NEW s \in Sessions, RevokeDevices(u, s) PROVE TypeOK'
  BY <1>9 DEF RevokeDevices
<1>10. ASSUME NEW u \in Dispatchers, AbandonRegenerate(u) PROVE TypeOK'
  BY <1>10 DEF AbandonRegenerate
<1>11. ASSUME NEW r \in refreshes, Refresh(r) PROVE TypeOK'
  <2>1. tokens' \subseteq Token
    BY <1>11 DEF Refresh, Token, Refreshing
  <2>. QED
    BY <1>11, <2>1 DEF Refresh
<1>12. ASSUME NEW t \in tokens, TokenExpires(t) PROVE TypeOK'
  BY <1>12 DEF TokenExpires
<1>13. CASE UNCHANGED lifeVars
  BY <1>13 DEF lifeVars
<1>. QED
  BY <1>1, <1>2, <1>3, <1>4, <1>5, <1>6, <1>7, <1>8, <1>9, <1>10, <1>11, <1>12,
     <1>13 DEF Next

-----------------------------------------------------------------------------
(* The three facts about versions, keys and tokens.                        *)

\* A step that issues no token, binds no device and makes no session live.
Passive ==
    /\ tokens' \subseteq tokens
    /\ UNCHANGED <<key, refreshes>>
    /\ \A s \in Sessions :
          /\ status'[s] = "NONE" => status[s] = "NONE"
          /\ version[s] <= version'[s]
          /\ holder'[s] \in {holder[s], NoDevice}
          /\ status'[s] \in Live => status[s] \in Live /\ version'[s] = version[s]

LEMMA PassiveKeeps ==
    IInv /\ TypeOK' /\ Passive => KeyIsVersion' /\ TokensFit' /\ SoleWriter' /\ Issued'
<1>. SUFFICES ASSUME IInv, TypeOK', Passive
              PROVE  KeyIsVersion' /\ TokensFit' /\ SoleWriter' /\ Issued'
  OBVIOUS
<1>. USE DEF IInv, Passive
<1>1. KeyIsVersion'
  BY DEF KeyIsVersion
<1>2. \A t \in tokens' : t \in tokens /\ t.s \in Sessions
  BY DEF TypeOK, Token
<1>3. TokensFit'
  <2>. SUFFICES ASSUME NEW t \in tokens' PROVE t.v = t.k /\ t.v <= version'[t.s]
    BY DEF TokensFit
  <2>1. t.s \in Sessions /\ t.v \in Nat /\ version[t.s] \in Nat /\ version'[t.s] \in Nat
    BY <1>2, BoundAssumption DEF TypeOK, Token, Versions
  <2>. QED
    BY <1>2, <2>1 DEF TokensFit
<1>4. SoleWriter'
  BY <1>2 DEF SoleWriter
<1>5. Issued'
  BY <1>2 DEF Issued, TypeOK, Refreshing
<1>. QED
  BY <1>1, <1>3, <1>4, <1>5

LEMMA ClaimKeeps ==
    ASSUME IInv, TypeOK', NEW s \in Sessions, NEW d \in Devices, Claim(s, d)
    PROVE  KeyIsVersion' /\ TokensFit' /\ SoleWriter' /\ Issued'
<1>. DEFINE new == [s |-> s, d |-> d, v |-> version'[s], k |-> version'[s]]
<1>1. /\ version'[s] = version[s] + 1
      /\ \A x \in Sessions : version[x] <= version'[x]
      /\ \A x \in Sessions \ {s} : version'[x] = version[x]
  BY BumpFacts DEF IInv, Claim
<1>2. /\ holder'[s] = d /\ key'[s] = version'[s]
      /\ \A x \in Sessions \ {s} : /\ holder'[x] = holder[x] /\ key'[x] = key[x]
                                   /\ status'[x] = status[x]
      /\ tokens' = tokens \cup {new}
  BY DEF IInv, TypeOK, Claim
<1>3. \A x \in Sessions : version[x] \in Nat /\ version'[x] \in Nat
  BY BoundAssumption DEF IInv, TypeOK, Versions
<1>4. \A t \in tokens : t.s \in Sessions /\ t.v \in Nat /\ t.v <= version[t.s] /\ t.v = t.k
  BY DEF IInv, TypeOK, Token, Versions, TokensFit
<1>5. KeyIsVersion'
  BY <1>1, <1>2 DEF IInv, KeyIsVersion
<1>6. TokensFit'
  <2>. SUFFICES ASSUME NEW t \in tokens' PROVE t.v = t.k /\ t.v <= version'[t.s]
    BY DEF TokensFit
  <2>1. CASE t = new
    BY <1>3, <2>1
  <2>2. CASE t \in tokens
    <3>1. t.s \in Sessions /\ t.v \in Nat /\ t.v <= version[t.s] /\ t.v = t.k
      BY <1>4, <2>2
    <3>2. version[t.s] \in Nat /\ version'[t.s] \in Nat /\ version[t.s] <= version'[t.s]
      BY <1>1, <1>3, <3>1
    <3>. QED
      BY <3>1, <3>2
  <2>. QED
    BY <1>2, <2>1, <2>2
<1>7. SoleWriter'
  <2>. SUFFICES ASSUME NEW t \in tokens', t.v = version'[t.s], status'[t.s] \in Live,
                       holder'[t.s] # NoDevice
                PROVE  holder'[t.s] = t.d /\ key'[t.s] = t.k
    BY DEF SoleWriter
  <2>1. CASE t = new
    BY <1>2, <2>1
  <2>2. CASE t \in tokens
    <3>1. t.s # s
      BY <1>1, <1>3, <1>4, <2>2
    <3>2. /\ t.s \in Sessions /\ t.v = version[t.s] /\ status[t.s] \in Live
          /\ holder[t.s] # NoDevice
          /\ holder'[t.s] = holder[t.s] /\ key'[t.s] = key[t.s]
      BY <1>1, <1>2, <1>4, <2>2, <3>1
    <3>. QED
      BY <2>2, <3>2 DEF IInv, SoleWriter
  <2>. QED
    BY <1>2, <2>1, <2>2
<1>8. Issued'
  BY <1>2 DEF IInv, TypeOK, Issued, Claim, Token, Refreshing, Live
<1>. QED
  BY <1>5, <1>6, <1>7, <1>8

LEMMA RefreshKeeps ==
    ASSUME IInv, TypeOK', NEW r \in refreshes, Refresh(r)
    PROVE  KeyIsVersion' /\ TokensFit' /\ SoleWriter' /\ Issued'
<1>. DEFINE new == [s |-> r.s, d |-> r.d, v |-> version[r.s], k |-> r.k]
<1>1. r.s \in Sessions /\ r.d \in Devices /\ version[r.s] \in Nat
  BY BoundAssumption DEF IInv, TypeOK, Refreshing, Versions
<1>2. holder[r.s] = r.d /\ key[r.s] = r.k /\ r.k = version[r.s]
  BY <1>1, NamesAssumption DEF IInv, KeyIsVersion, Refresh
<1>3. tokens' = tokens \cup {new}
  BY DEF Refresh
<1>4. UNCHANGED <<status, version, holder, key, refreshes>>
  BY DEF Refresh
<1>5. new.v = new.k /\ new.v <= version[new.s]
  BY <1>1, <1>2
<1>6. holder[new.s] = new.d /\ key[new.s] = new.k
  BY <1>2
<1>7. status[new.s] # "NONE"
  BY DEF Refresh, Live
<1>. HIDE DEF new
<1>. QED
  BY <1>3, <1>4, <1>5, <1>6, <1>7 DEF IInv, KeyIsVersion, TokensFit, SoleWriter, Issued

-----------------------------------------------------------------------------
(* A code is written and used up together with the status it belongs to.   *)

LEMMA CodeStep == TypeOK /\ CodeIffWaiting /\ [Next]_lifeVars => CodeIffWaiting'
<1>. SUFFICES ASSUME TypeOK, CodeIffWaiting, [Next]_lifeVars PROVE CodeIffWaiting'
  OBVIOUS
<1>. USE DEF TypeOK, CodeIffWaiting, Live
<1>1. ASSUME NEW s \in Sessions, Create(s) PROVE CodeIffWaiting'
  BY <1>1 DEF Create
<1>2. ASSUME NEW s \in Sessions, MarkDispatched(s) \/ AbandonCreate(s) PROVE CodeIffWaiting'
  BY <1>2 DEF MarkDispatched, AbandonCreate
<1>3. ASSUME NEW s \in Sessions, Activate(s) \/ Pause(s) \/ Resume(s) PROVE CodeIffWaiting'
  BY <1>3 DEF Activate, Pause, Resume
<1>4. ASSUME NEW s \in Sessions, Expire(s) PROVE CodeIffWaiting'
  BY <1>4 DEF Expire
<1>5. ASSUME NEW s \in Sessions, NEW outcome \in {"COMPLETED", "CANCELLED"},
             Finalize(s, outcome)
      PROVE CodeIffWaiting'
  BY <1>5 DEF Finalize
<1>6. ASSUME NEW s \in Sessions, NEW d \in Devices, Claim(s, d) PROVE CodeIffWaiting'
  BY <1>6 DEF Claim
<1>7. ASSUME NEW u \in Dispatchers, NEW s \in Sessions, UpdateCode(u, s) PROVE CodeIffWaiting'
  BY <1>7 DEF UpdateCode
<1>8. CASE UNCHANGED <<code, status>>
  BY <1>8
<1>9. ASSUME NEW u \in Dispatchers, NEW s \in Sessions,
             CheckRegenerate(u, s) \/ RevokeDevices(u, s)
      PROVE UNCHANGED <<code, status>>
  BY <1>9 DEF CheckRegenerate, RevokeDevices
<1>10. ASSUME NEW u \in Dispatchers, AbandonRegenerate(u) PROVE UNCHANGED <<code, status>>
  BY <1>10 DEF AbandonRegenerate
<1>11. ASSUME NEW r \in refreshes, Refresh(r) PROVE UNCHANGED <<code, status>>
  BY <1>11 DEF Refresh
<1>12. ASSUME NEW t \in tokens, TokenExpires(t) PROVE UNCHANGED <<code, status>>
  BY <1>12 DEF TokenExpires
<1>. QED
  BY <1>1, <1>2, <1>3, <1>4, <1>5, <1>6, <1>7, <1>8, <1>9, <1>10, <1>11, <1>12
     DEF Next, lifeVars

-----------------------------------------------------------------------------
\* Every step is passive, a claim or a refresh.
LEMMA StepKinds ==
    TypeOK /\ [Next]_lifeVars =>
        \/ Passive
        \/ \E s \in Sessions, d \in Devices : Claim(s, d)
        \/ \E r \in refreshes : Refresh(r)
<1>. SUFFICES ASSUME TypeOK, [Next]_lifeVars,
                     ~ \E s \in Sessions, d \in Devices : Claim(s, d),
                     ~ \E r \in refreshes : Refresh(r)
              PROVE  Passive
  OBVIOUS
<1>1. ASSUME NEW s \in Sessions,
             \/ Create(s) \/ MarkDispatched(s) \/ AbandonCreate(s)
             \/ Activate(s) \/ Pause(s) \/ Resume(s)
      PROVE Passive
  BY <1>1, BoundAssumption DEF Passive, TypeOK, Versions, Create,
     MarkDispatched, AbandonCreate, Activate, Pause, Resume, Live
<1>2. ASSUME NEW s \in Sessions, Expire(s) PROVE Passive
  BY <1>2, BumpFacts DEF Passive, TypeOK, Expire, Live
<1>3. ASSUME NEW s \in Sessions, NEW outcome \in {"COMPLETED", "CANCELLED"},
             Finalize(s, outcome)
      PROVE Passive
  BY <1>3, BumpFacts DEF Passive, TypeOK, Finalize, Live
<1>4. ASSUME NEW u \in Dispatchers, NEW s \in Sessions, UpdateCode(u, s) PROVE Passive
  BY <1>4, BumpFacts DEF Passive, TypeOK, UpdateCode, Live
<1>5. ASSUME NEW u \in Dispatchers, NEW s \in Sessions,
             CheckRegenerate(u, s) \/ RevokeDevices(u, s)
      PROVE Passive
  BY <1>5, BoundAssumption DEF Passive, TypeOK, Versions, CheckRegenerate,
     RevokeDevices
<1>6. ASSUME NEW u \in Dispatchers, AbandonRegenerate(u) PROVE Passive
  BY <1>6, BoundAssumption DEF Passive, TypeOK, Versions, AbandonRegenerate
<1>7. ASSUME NEW t \in tokens, TokenExpires(t) PROVE Passive
  BY <1>7, BoundAssumption DEF Passive, TypeOK, Versions, TokenExpires
<1>8. ASSUME UNCHANGED lifeVars PROVE Passive
  BY <1>8, BoundAssumption DEF Passive, TypeOK, Versions, lifeVars
<1>. QED
  BY <1>1, <1>2, <1>3, <1>4, <1>5, <1>6, <1>7, <1>8 DEF Next

LEMMA StepHolds == IInv /\ [Next]_lifeVars => IInv'
<1>. SUFFICES ASSUME IInv, [Next]_lifeVars PROVE IInv'
  OBVIOUS
<1>1. TypeOK /\ TypeOK'
  BY TypeStep DEF IInv
<1>2. CodeIffWaiting'
  BY CodeStep DEF IInv
<1>3. KeyIsVersion' /\ TokensFit' /\ SoleWriter' /\ Issued'
  BY <1>1, StepKinds, PassiveKeeps, ClaimKeeps, RefreshKeeps
<1>. QED
  BY <1>1, <1>2, <1>3 DEF IInv

\* The inductive invariant of the session lifecycle.
THEOREM Invariance == Spec => []IInv
  BY InitHolds, StepHolds, PTL DEF Spec

-----------------------------------------------------------------------------
\* Rows, credentials and handlers keep their types.
THEOREM TypeCorrect == Spec => []TypeOK
<1>1. IInv => TypeOK
  BY DEF IInv
<1>. QED
  BY <1>1, Invariance, PTL

\* A claim code is outstanding exactly while a session waits for a phone.
THEOREM CodesAreUsedUp == Spec => []CodeIffWaiting
<1>1. IInv => CodeIffWaiting
  BY DEF IInv
<1>. QED
  BY <1>1, Invariance, PTL

\* Of all the phones that hold credentials of a session, the bound one alone
\* holds a current token, and its key fits.
THEOREM OnePhoneWrites == Spec => []SoleWriter
<1>1. IInv => SoleWriter
  BY DEF IInv
<1>. QED
  BY <1>1, Invariance, PTL

\* No refresh outlives a new code.
THEOREM RefreshesDie == Spec => []RefreshNeverOutlives
<1>1. IInv => RefreshNeverOutlives
  BY DEF IInv, TokensFit, RefreshNeverOutlives
<1>. QED
  BY <1>1, Invariance, PTL

\* The order only moves forward.
THEOREM OrdersMoveForward == Spec => OrderMovesForward
<1>1. TypeOK /\ [Next]_lifeVars => [Rank[order] <= Rank[order']]_lifeVars
  <2>. SUFFICES ASSUME TypeOK, [Next]_lifeVars PROVE Rank[order] <= Rank[order']
    OBVIOUS
  <2>1. \/ order' = order
        \/ order = "PENDING" /\ order' = "DISPATCHED"
        \/ order \in {"PENDING", "DISPATCHED"} /\ order' = "IN_TRANSIT"
        \/ order' = "DELIVERED"
    BY DEF Next, lifeVars, Create, MarkDispatched, AbandonCreate, Activate, Pause,
       Resume, Follow, Expire, Finalize, Claim, CheckRegenerate, UpdateCode,
       RevokeDevices, AbandonRegenerate, Refresh, TokenExpires
  <2>. QED
    BY <2>1 DEF TypeOK, Rank
<1>. QED
  BY <1>1, TypeCorrect, PTL DEF Spec, OrderMovesForward

=============================================================================

---------------------------- MODULE SessionAuth ----------------------------
(***************************************************************************)
(* DriverSessionGuard and its Redis cache in front of the sessions of      *)
(* SessionLifecycle: what a request of a phone is judged by while          *)
(* dispatchers, the maintenance job and other phones change the rows.      *)
(*                                                                         *)
(* A handler commits first and deletes the cache entry later (pendingDel); *)
(* a guard that misses reads the row first and writes the entry later      *)
(* (reading).  Both awaits are steps of their own.                         *)
(***************************************************************************)
EXTENDS Naturals, FiniteSets

CONSTANTS Sessions, Devices, NoDevice, Dispatchers, MaxVersion,
          NoEntry,       \* the key is not in Redis
          MaxPending,    \* bound: handlers of one session between commit and DEL
          MaxReading,    \* bound: guards between their read and their SET
          MayLoseDel     \* bound: whether a handler may die before its DEL

ASSUME NamesAssumption == NoDevice \notin Devices
ASSUME BoundAssumption ==
    /\ MaxVersion \in Nat \ {0} /\ MaxPending \in Nat \ {0} /\ MaxReading \in Nat \ {0}
    /\ MayLoseDel \in BOOLEAN

VARIABLES status, code, version, holder, key, refreshes, tokens, order, created,
          regen,
          cache,         \* session -> CachedSessionAuth
          pendingDel,    \* session -> handlers that still have to DEL
          reading,       \* rows read by a guard and not yet written to the cache
          admitted,      \* tokens whose request passed the guard and runs
          tainted        \* history: sessions whose present entry missed its DEL
                         \* or was written from a row that had moved on

Life == INSTANCE SessionLifecycle

lifeVars == <<status, code, version, holder, key, refreshes, tokens, order,
              created, regen>>
vars == <<lifeVars, cache, pendingDel, reading, admitted, tainted>>

Row == [s : Sessions, status : Life!OpenStatus \cup Life!Closed,
        v : Life!Versions, d : Devices \cup {NoDevice}, k : Life!Versions]

ASSUME EntryAssumption == NoEntry \notin Row

TypeOK ==
    /\ Life!TypeOK
    /\ cache \in [Sessions -> Row \cup {NoEntry}]
    /\ pendingDel \in [Sessions -> 0..MaxPending]
    /\ reading \subseteq Row
    /\ admitted \subseteq Life!Token
    /\ tainted \subseteq Sessions

Init ==
    /\ Life!Init
    /\ cache = [s \in Sessions |-> NoEntry]
    /\ pendingDel = [s \in Sessions |-> 0]
    /\ reading = {}
    /\ admitted = {}
    /\ tainted = {}

-----------------------------------------------------------------------------
\* Handlers.  A committed change of session s owes the cache a DEL.
Owe(s) ==
    /\ pendingDel[s] < MaxPending
    /\ pendingDel' = [pendingDel EXCEPT ![s] = @ + 1]
    /\ UNCHANGED <<cache, reading, admitted, tainted>>

Quiet == UNCHANGED <<cache, pendingDel, reading, admitted, tainted>>

Create(s) == (Life!Create(s) \/ Life!MarkDispatched(s) \/ Life!AbandonCreate(s)) /\ Quiet

\* The session has its new version, the handler still has to revoke and DEL.
Updated(u, s) == regen[u] = [at |-> "UPDATED", s |-> s]

\* regenerateClaimCode owes its DEL after the second UPDATE.
Regenerate(u, s) ==
    \/ (Life!CheckRegenerate(u, s) \/ Life!UpdateCode(u, s)) /\ Quiet
    \/ Life!RevokeDevices(u, s) /\ Owe(s)

Abandon(u) ==
    /\ Life!AbandonRegenerate(u)
    /\ tainted' = tainted \cup {s \in Sessions : Updated(u, s)}
    /\ UNCHANGED <<cache, pendingDel, reading, admitted>>

Claim(s, d) == Life!Claim(s, d) /\ Owe(s)

Token == \/ \E r \in refreshes : Life!Refresh(r) /\ Quiet
         \/ \E t \in tokens : Life!TokenExpires(t) /\ Quiet

Transition(s) == (Life!Pause(s) \/ Life!Resume(s)) /\ Owe(s)

Finalize(s, outcome) == Life!Finalize(s, outcome) /\ Owe(s)

\* Mutant: the job does not know that the guard caches.
ExpireSilently(s) == Life!Expire(s) /\ Quiet

Expire(s) == Life!Expire(s) /\ Owe(s)

\* invalidateSessionAuth
Invalidate(s) ==
    /\ pendingDel[s] > 0
    /\ pendingDel' = [pendingDel EXCEPT ![s] = @ - 1]
    /\ cache' = [cache EXCEPT ![s] = NoEntry]
    /\ tainted' = tainted \ {s}
    /\ UNCHANGED <<lifeVars, reading, admitted>>

\* The process dies, or Redis fails, between the commit and the DEL.
LoseInvalidate(s) ==
    /\ MayLoseDel
    /\ pendingDel[s] > 0
    /\ pendingDel' = [pendingDel EXCEPT ![s] = @ - 1]
    /\ tainted' = tainted \cup {s}
    /\ UNCHANGED <<lifeVars, cache, reading, admitted>>

-----------------------------------------------------------------------------
\* Mutant: JOIN for LEFT JOIN, so a session without a device has no row.
RowOfBound(s) ==
    IF holder[s] = NoDevice THEN NoEntry
    ELSE [s |-> s, status |-> status[s], v |-> version[s], d |-> holder[s], k |-> key[s]]

\* The SELECT of resolveSessionAuth: one statement, so one consistent row.
RowOf(s) == [s |-> s, status |-> status[s], v |-> version[s], d |-> holder[s], k |-> key[s]]

\* Mutant: the device is compared before the version.
VerdictDeviceFirst(a, t) ==
    IF a.status \notin Life!Live THEN "SESSION_CLOSED"
    ELSE IF a.d # NoDevice /\ a.d # t.d THEN "DEVICE_MISMATCH"
    ELSE IF a.v # t.v \/ a.d = NoDevice THEN "TOKEN_REVOKED"
    ELSE IF a.k # t.k THEN "BAD_SIGNATURE" ELSE "PASS"

\* What canActivate answers a request with token t, judged by row a.
Verdict(a, t) ==
    IF a.status \notin Life!Live THEN "SESSION_CLOSED"
    ELSE IF a.v # t.v \/ a.d = NoDevice THEN "TOKEN_REVOKED"
    ELSE IF a.d # t.d THEN "DEVICE_MISMATCH"
    ELSE IF a.k # t.k THEN "BAD_SIGNATURE" ELSE "PASS"

Judge(a, t) == admitted' = IF Verdict(a, t) = "PASS" THEN admitted \cup {t} ELSE admitted

\* The guard finds the entry.
Hit(t) ==
    /\ cache[t.s] # NoEntry
    /\ Judge(cache[t.s], t)
    /\ UNCHANGED <<lifeVars, cache, pendingDel, reading, tainted>>

\* The guard finds none and reads the row ...
Miss(t) ==
    /\ cache[t.s] = NoEntry
    /\ Cardinality(reading \cup {RowOf(t.s)}) <= MaxReading
    /\ reading' = reading \cup {RowOf(t.s)}
    /\ UNCHANGED <<lifeVars, cache, pendingDel, admitted, tainted>>

\* ... and writes it, whatever happened since, and judges by it; without a
\* token the request was refused or is gone.
Fill(a) ==
    /\ a \in reading
    /\ reading' = reading \ {a}
    /\ cache' = [cache EXCEPT ![a.s] = a]
    /\ \/ \E t \in {x \in tokens : x.s = a.s} : Judge(a, t)
       \/ UNCHANGED admitted
    /\ tainted' = IF a.v = version[a.s] THEN tainted \ {a.s} ELSE tainted \cup {a.s}
    /\ UNCHANGED <<lifeVars, pendingDel>>

\* Mutant: SET without EX.
LapseNever(s) == cache[s] # NoEntry /\ UNCHANGED vars

\* The entry's 300 seconds pass (a hit does not renew them), or updatePolicy
\* deletes it.
Lapse(s) ==
    /\ cache[s] # NoEntry
    /\ cache' = [cache EXCEPT ![s] = NoEntry]
    /\ tainted' = tainted \ {s}
    /\ UNCHANGED <<lifeVars, pendingDel, reading, admitted>>

\* The handler of an admitted request.  STARTED and /driver/stop delete the entry
\* afterwards, the first fix kh.ingest_points accepts does not.
Run(t) ==
    /\ t \in admitted
    /\ admitted' = admitted \ {t}
    /\ \/ /\ Life!Activate(t.s) \/ Life!Pause(t.s) \/ UNCHANGED lifeVars
          /\ pendingDel[t.s] < MaxPending
          /\ pendingDel' = [pendingDel EXCEPT ![t.s] = @ + 1]
       \/ /\ Life!Activate(t.s) \/ UNCHANGED lifeVars
          /\ UNCHANGED pendingDel
    /\ UNCHANGED <<cache, reading, tainted>>

-----------------------------------------------------------------------------
Next ==
    \/ \E s \in Sessions :
          \/ Create(s) \/ Transition(s) \/ Expire(s)
          \/ Invalidate(s) \/ LoseInvalidate(s) \/ Lapse(s)
          \/ \E outcome \in {"COMPLETED", "CANCELLED"} : Finalize(s, outcome)
          \/ \E d \in Devices : Claim(s, d)
    \/ \E u \in Dispatchers : Abandon(u) \/ \E s \in Sessions : Regenerate(u, s)
    \/ Token
    \/ \E t \in tokens : Hit(t) \/ Miss(t)
    \/ \E a \in reading : Fill(a)
    \/ \E t \in admitted : Run(t)

Spec == Init /\ [][Next]_vars

\* Redis lets every entry lapse, and a guard that read a row goes on.
Fairness ==
    /\ \A s \in Sessions : WF_vars(Lapse(s))
    /\ WF_vars(\E a \in reading : Fill(a))

FairSpec == Spec /\ Fairness

-----------------------------------------------------------------------------
\* An honest phone is never told DEVICE_MISMATCH or BAD_SIGNATURE, by whatever
\* old entry or old read it is judged: "two phones on one session means someone
\* cloned the code" (driver-session.guard.ts) is sound.
Rows == reading \cup {cache[s] : s \in {x \in Sessions : cache[x] # NoEntry}}
HonestNeverMismatched ==
    \A t \in tokens, a \in Rows :
        a.s = t.s => Verdict(a, t) \notin {"DEVICE_MISMATCH", "BAD_SIGNATURE"}

\* "Every mutation path calls invalidateSessionAuth": an entry of an older
\* version is about to be deleted, unless its DEL was lost or the entry was
\* written from a row read before the change.
StaleHasACause ==
    \A s \in Sessions :
        cache[s] # NoEntry /\ cache[s].v # version[s] =>
            \/ pendingDel[s] > 0
            \/ \E u \in Dispatchers : Updated(u, s)
            \/ s \in tainted

\* A stale entry is temporary: once the version of a session stops moving, its
\* old tokens stop passing for good.
StaleIsTemporary ==
    \A s \in Sessions : <>[](cache[s] = NoEntry \/ cache[s].v = version[s])

\* "Every mutation path calls invalidateSessionAuth, so revocation is
\* effectively immediate" (driver-session.guard.ts): no request that comes when
\* every handler has made its DEL passes with a token of an older version.
AllInvalidated ==
    \A s \in Sessions : pendingDel[s] = 0 /\ \A u \in Dispatchers : ~Updated(u, s)
RevocationImmediate ==
    [][(\E t \in tokens : Hit(t)) /\ AllInvalidated =>
          \A t \in admitted' \ admitted : t.v = version[t.s]]_vars

=============================================================================

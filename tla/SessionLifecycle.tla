-------------------------- MODULE SessionLifecycle --------------------------
(***************************************************************************)
(* The tracking sessions of one order, their claim codes, the device bound *)
(* to each and the credentials handed out (sessions.service.ts, the        *)
(* functions of migration 0005 and the trigger of migration 0008).         *)
(*                                                                         *)
(* One SQL statement or function is one step; a handler of several         *)
(* statements outside a transaction is several.  Time is abstracted: a     *)
(* session or a code may expire at any moment, an access token too.        *)
(* An ingest key is named by the token_version of the claim it came from.  *)
(***************************************************************************)
EXTENDS Naturals

CONSTANTS
    Sessions,      \* tracking_sessions rows the order may get
    Devices,
    NoDevice,
    Dispatchers,   \* concurrent calls of regenerateClaimCode
    MaxVersion     \* bound on token_version

ASSUME NamesAssumption == NoDevice \notin Devices
ASSUME BoundAssumption == MaxVersion \in Nat \ {0}

VARIABLES
    status,        \* session -> status; NONE before its INSERT
    code,          \* session -> claim_code IS NOT NULL
    version,       \* session -> token_version
    holder,        \* session -> device whose row has revoked_at NULL
    key,           \* session -> claim the holder's ingest key came from
    refreshes,     \* refresh credentials handed out
    tokens,        \* access tokens handed out and not expired
    order,         \* orders.status
    created,       \* sessions inserted whose creator has not updated the order
    regen          \* dispatcher -> progress of regenerateClaimCode

lifeVars == <<status, code, version, holder, key, refreshes, tokens, order,
              created, regen>>

Live == {"CLAIMED", "ACTIVE", "PAUSED"}
OpenStatus == Live \cup {"ASSIGNED"}
Closed == {"COMPLETED", "CANCELLED", "EXPIRED"}
Versions == 1..MaxVersion
Idle == [at |-> "IDLE"]

\* What a phone holds: the JWT's sid, did and tv with the ingest key, and the
\* refresh token with the same key.
Token == [s : Sessions, d : Devices, v : Versions, k : Versions]
Refreshing == [s : Sessions, d : Devices, k : Versions]

TypeOK ==
    /\ status \in [Sessions -> OpenStatus \cup Closed \cup {"NONE"}]
    /\ code \in [Sessions -> BOOLEAN]
    /\ version \in [Sessions -> Versions]
    /\ holder \in [Sessions -> Devices \cup {NoDevice}]
    /\ key \in [Sessions -> Versions]
    /\ refreshes \subseteq Refreshing
    /\ tokens \subseteq Token
    /\ order \in {"PENDING", "DISPATCHED", "IN_TRANSIT", "DELIVERED"}
    /\ created \subseteq Sessions
    /\ regen \in [Dispatchers ->
                    {Idle} \cup [at : {"CHECKED", "UPDATED"}, s : Sessions]]

Init ==
    /\ status = [s \in Sessions |-> "NONE"]
    /\ code = [s \in Sessions |-> FALSE]
    /\ version = [s \in Sessions |-> 1]
    /\ holder = [s \in Sessions |-> NoDevice]
    /\ key = [s \in Sessions |-> 1]
    /\ refreshes = {}
    /\ tokens = {}
    /\ order = "PENDING"
    /\ created = {}
    /\ regen = [u \in Dispatchers |-> Idle]

-----------------------------------------------------------------------------
\* uq_sessions_one_live_per_order: s may be open only when no other one is.
MayOpen(s) == \A t \in Sessions \ {s} : status[t] \notin OpenStatus

Bump(s) ==
    /\ version[s] < MaxVersion
    /\ version' = [version EXCEPT ![s] = @ + 1]

\* Mutant: the trigger does not ask what the order is.
FollowAlways == order' = "IN_TRANSIT"

\* The trigger on tracking_sessions.status when a session becomes ACTIVE.
Follow == order' = IF order \in {"PENDING", "DISPATCHED"} THEN "IN_TRANSIT" ELSE order

\* create: the INSERT ...
Create(s) ==
    /\ status[s] = "NONE"
    /\ MayOpen(s)
    /\ status' = [status EXCEPT ![s] = "ASSIGNED"]
    /\ code' = [code EXCEPT ![s] = TRUE]
    /\ created' = created \cup {s}
    /\ UNCHANGED <<version, holder, key, refreshes, tokens, order, regen>>

\* ... and the order, in a later statement.
MarkDispatched(s) ==
    /\ s \in created
    /\ created' = created \ {s}
    /\ order' = IF order = "PENDING" THEN "DISPATCHED" ELSE order
    /\ UNCHANGED <<status, code, version, holder, key, refreshes, tokens, regen>>

-----------------------------------------------------------------------------
\* regenerateClaimCode: a SELECT that refuses a closed session ...
CheckRegenerate(u, s) ==
    /\ regen[u] = Idle
    /\ status[s] \in OpenStatus
    /\ regen' = [regen EXCEPT ![u] = [at |-> "CHECKED", s |-> s]]
    /\ UNCHANGED <<status, code, version, holder, key, refreshes, tokens,
                   order, created>>

\* ... an UPDATE that no longer asks, and fails on the unique index when another
\* session of the order is open ...
UpdateCode(u, s) ==
    /\ regen[u] = [at |-> "CHECKED", s |-> s]
    /\ MayOpen(s)
    /\ Bump(s)
    /\ status' = [status EXCEPT ![s] = "ASSIGNED"]
    /\ code' = [code EXCEPT ![s] = TRUE]
    /\ regen' = [regen EXCEPT ![u] = [at |-> "UPDATED", s |-> s]]
    /\ UNCHANGED <<holder, key, refreshes, tokens, order, created>>

\* ... and another UPDATE that revokes whatever device is bound by then.
RevokeDevices(u, s) ==
    /\ regen[u] = [at |-> "UPDATED", s |-> s]
    /\ holder' = [holder EXCEPT ![s] = NoDevice]
    /\ regen' = [regen EXCEPT ![u] = Idle]
    /\ UNCHANGED <<status, code, version, key, refreshes, tokens, order, created>>

\* A statement failed, or the process died.
AbandonRegenerate(u) ==
    /\ regen[u] # Idle
    /\ regen' = [regen EXCEPT ![u] = Idle]
    /\ UNCHANGED <<status, code, version, holder, key, refreshes, tokens,
                   order, created>>

AbandonCreate(s) ==
    /\ s \in created
    /\ created' = created \ {s}
    /\ UNCHANGED <<status, code, version, holder, key, refreshes, tokens,
                   order, regen>>

-----------------------------------------------------------------------------
\* claim, one transaction under FOR UPDATE of the session row: the code is used
\* up, every other device loses the session, new credentials are issued.
Claim(s, d) ==
    /\ status[s] = "ASSIGNED" /\ code[s]
    /\ Bump(s)
    /\ status' = [status EXCEPT ![s] = "CLAIMED"]
    /\ code' = [code EXCEPT ![s] = FALSE]
    /\ holder' = [holder EXCEPT ![s] = d]
    /\ key' = [key EXCEPT ![s] = version'[s]]
    /\ refreshes' = refreshes \cup {[s |-> s, d |-> d, k |-> version'[s]]}
    /\ tokens' = tokens \cup {[s |-> s, d |-> d, v |-> version'[s], k |-> version'[s]]}
    /\ UNCHANGED <<order, created, regen>>

\* Mutant: the status of the session is not looked at.
RefreshAnyStatus(r) ==
    /\ r \in refreshes
    /\ holder[r.s] = r.d /\ key[r.s] = r.k
    /\ tokens' = tokens \cup {[s |-> r.s, d |-> r.d, v |-> version[r.s], k |-> r.k]}
    /\ UNCHANGED <<status, code, version, holder, key, refreshes, order, created, regen>>

\* Mutant: AND d.revoked_at IS NULL is forgotten.
RefreshRevoked(r) ==
    /\ r \in refreshes
    /\ \A q \in refreshes : q.s = r.s /\ q.d = r.d => q.k <= r.k
    /\ status[r.s] \in Live
    /\ tokens' = tokens \cup {[s |-> r.s, d |-> r.d, v |-> version[r.s], k |-> r.k]}
    /\ UNCHANGED <<status, code, version, holder, key, refreshes, order, created, regen>>

\* refreshDriverToken: the row is found by refresh token and device and is not
\* revoked; the token carries the session's current version.
Refresh(r) ==
    /\ r \in refreshes
    /\ holder[r.s] = r.d /\ key[r.s] = r.k
    /\ status[r.s] \in Live
    /\ tokens' = tokens \cup {[s |-> r.s, d |-> r.d, v |-> version[r.s], k |-> r.k]}
    /\ UNCHANGED <<status, code, version, holder, key, refreshes, order, created, regen>>

\* driverAccessTtlSec passes.
TokenExpires(t) ==
    /\ t \in tokens
    /\ tokens' = tokens \ {t}
    /\ UNCHANGED <<status, code, version, holder, key, refreshes, order, created, regen>>

-----------------------------------------------------------------------------
\* A STARTED event, or the first fix kh.ingest_points accepts.
Activate(s) ==
    /\ status[s] = "CLAIMED"
    /\ status' = [status EXCEPT ![s] = "ACTIVE"]
    /\ Follow
    /\ UNCHANGED <<code, version, holder, key, refreshes, tokens, created, regen>>

\* Mutant: the action's name is taken for the status.
PauseVerbatim(s) ==
    /\ status[s] = "ACTIVE"
    /\ status' = [status EXCEPT ![s] = "pause"]
    /\ UNCHANGED <<code, version, holder, key, refreshes, tokens, order, created, regen>>

Pause(s) ==
    /\ status[s] = "ACTIVE"
    /\ status' = [status EXCEPT ![s] = "PAUSED"]
    /\ UNCHANGED <<code, version, holder, key, refreshes, tokens, order, created, regen>>

Resume(s) ==
    /\ status[s] = "PAUSED"
    /\ status' = [status EXCEPT ![s] = "ACTIVE"]
    /\ Follow
    /\ UNCHANGED <<code, version, holder, key, refreshes, tokens, created, regen>>

\* Mutant: the code survives the session.
FinalizeKeepsCode(s, outcome) ==
    /\ status[s] # "NONE"
    /\ Bump(s)
    /\ status' = [status EXCEPT ![s] = outcome]
    /\ holder' = [holder EXCEPT ![s] = NoDevice]
    /\ order' = IF outcome = "COMPLETED" THEN "DELIVERED" ELSE order
    /\ UNCHANGED <<code, key, refreshes, tokens, created, regen>>

\* kh.finalize_session, which asks nothing of the status it finds.
Finalize(s, outcome) ==
    /\ status[s] # "NONE"
    /\ Bump(s)
    /\ status' = [status EXCEPT ![s] = outcome]
    /\ code' = [code EXCEPT ![s] = FALSE]
    /\ holder' = [holder EXCEPT ![s] = NoDevice]
    /\ order' = IF outcome = "COMPLETED" THEN "DELIVERED" ELSE order
    /\ UNCHANGED <<key, refreshes, tokens, created, regen>>

\* kh.expire_stale_sessions, for one victim; the device row stays as it is.
Expire(s) ==
    /\ status[s] \in OpenStatus
    /\ Bump(s)
    /\ status' = [status EXCEPT ![s] = "EXPIRED"]
    /\ code' = [code EXCEPT ![s] = FALSE]
    /\ UNCHANGED <<holder, key, refreshes, tokens, order, created, regen>>

-----------------------------------------------------------------------------
Next ==
    \/ \E s \in Sessions :
          \/ Create(s) \/ MarkDispatched(s) \/ AbandonCreate(s)
          \/ Activate(s) \/ Pause(s) \/ Resume(s) \/ Expire(s)
          \/ \E outcome \in {"COMPLETED", "CANCELLED"} : Finalize(s, outcome)
          \/ \E d \in Devices : Claim(s, d)
    \/ \E u \in Dispatchers, s \in Sessions :
          CheckRegenerate(u, s) \/ UpdateCode(u, s) \/ RevokeDevices(u, s)
    \/ \E u \in Dispatchers : AbandonRegenerate(u)
    \/ \E r \in refreshes : Refresh(r)
    \/ \E t \in tokens : TokenExpires(t)

Spec == Init /\ [][Next]_lifeVars

-----------------------------------------------------------------------------
\* A claim code is outstanding exactly while the session waits for a phone: no
\* ending, however it interleaves with a regeneration, leaves a code that a
\* phone could still use, and none waits without one.
CodeIffWaiting == \A s \in Sessions : code[s] <=> status[s] = "ASSIGNED"

\* A token of the current version on a live session belongs to the device bound
\* to it and signs with that device's key, or nobody is bound: of two phones
\* that hold credentials, one at most can write, and an honest one is never
\* told DEVICE_MISMATCH or BAD_SIGNATURE.
SoleWriter ==
    \A t \in tokens :
        t.v = version[t.s] /\ status[t.s] \in Live /\ holder[t.s] # NoDevice =>
            holder[t.s] = t.d /\ key[t.s] = t.k

\* A refresh never outlives a new code: whatever the interleaving left behind,
\* and however a session was reopened, no token is of a later version than the
\* claim that gave its phone the key it signs with.
RefreshNeverOutlives == \A t \in tokens : t.v = t.k

\* "Only ever forward" (migration 0008): neither a second session of the order
\* nor a late phone takes the order back.
Rank == [PENDING |-> 0, DISPATCHED |-> 1, IN_TRANSIT |-> 2, DELIVERED |-> 3]
OrderMovesForward == [][Rank[order] <= Rank[order']]_lifeVars

\* Completing a delivery is final: what a dispatcher closed stays closed, the
\* way it was closed ("a 409 on an already-closed session",
\* docs/07-dashboard-design-system.md).
ClosedIsFinal ==
    [][\A s \in Sessions : status[s] \in Closed => status'[s] = status[s]]_lifeVars

\* No session is reopened ("Session is closed", regenerateClaimCode).
NeverReopened ==
    [][\A s \in Sessions : status[s] \in Closed => status'[s] \in Closed]_lifeVars

\* "Exactly one active device per session" (migration 0003), for one a phone
\* has claimed.
LiveHasDevice == \A s \in Sessions : status[s] \in Live => holder[s] # NoDevice

=============================================================================

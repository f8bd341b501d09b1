---------------------------- MODULE IngestPoints ----------------------------
(***************************************************************************)
(* kh.ingest_points (db/migrations/0004_ingest_function.sql): the one      *)
(* write path of the server.  A call locks the session row, so every call  *)
(* is one atomic step.  A point is its recorded_at: the ULID a phone gives *)
(* a fix never changes, so the primary key (session_id, client_point_id,   *)
(* recorded_at) identifies the pair <session, point>.                      *)
(*                                                                         *)
(* Columns that no later decision reads (max_speed_mps, largest_gap_sec,   *)
(* is_backfill, the mock counter, the batch receipt) are left out, and     *)
(* distance_m is left to a module of its own.                              *)
(***************************************************************************)
EXTENDS Naturals, FiniteSets

CONSTANTS
    Points,        \* recorded_at values
    Suspect,       \* points the validity predicate may refuse: the answer
                   \* depends on the server's clock and on the fix itself
    Sessions

ASSUME PointsAssumption == Points \subseteq Nat \ {0} /\ IsFiniteSet(Points)
ASSUME SuspectAssumption == Suspect \subseteq Points

VARIABLES
    status,        \* tracking_sessions.status
    stored,        \* session -> points in location_points
    anchor,        \* last_point_at; 0 stands for NULL
    total,         \* points_total
    started,       \* started_at; 0 stands for NULL
    firstAt        \* first_point_at; 0 stands for NULL

serverVars == <<status, stored, anchor, total, started, firstAt>>

OpenStatus == {"CLAIMED", "ACTIVE", "PAUSED"}
Status == OpenStatus \cup {"ASSIGNED", "CLOSED"}

TypeOK ==
    /\ status \in [Sessions -> Status]
    /\ stored \in [Sessions -> SUBSET Points]
    /\ anchor \in [Sessions -> Points \cup {0}]
    /\ total \in [Sessions -> Nat]
    /\ started \in [Sessions -> Points \cup {0}]
    /\ firstAt \in [Sessions -> Points \cup {0}]

Init ==
    /\ status = [s \in Sessions |-> "CLAIMED"]
    /\ stored = [s \in Sessions |-> {}]
    /\ anchor = [s \in Sessions |-> 0]
    /\ total = [s \in Sessions |-> 0]
    /\ started = [s \in Sessions |-> 0]
    /\ firstAt = [s \in Sessions |-> 0]

-----------------------------------------------------------------------------
Newest(S) == CHOOSE p \in S : \A q \in S : q <= p
Oldest(S) == CHOOSE p \in S : \A q \in S : p <= q

Open(s) == status[s] \in OpenStatus

\* Mutant: the batch is counted without asking what was there.
AcceptedAll(s, pts, refused) == pts \ refused

\* INSERT ... ON CONFLICT ON CONSTRAINT pk_location_points DO NOTHING
Accepted(s, pts, refused) == (pts \ refused) \ stored[s]

\* Mutant: a late batch moves the marker too.
AdvancedAlways(s, new) == new # {}

\* The live marker moves only to a point newer than the current one.
Advanced(s, new) == new # {} /\ (anchor[s] = 0 \/ Newest(new) > anchor[s])

\* Mutant: the first batch to arrive is taken for the first fix.
EarliestToArrive(first, new) == IF new # {} /\ first = 0 THEN Oldest(new) ELSE first

\* LEAST(coalesce(first, newMin), newMin)
Earliest(first, new) ==
    IF new # {} /\ (first = 0 \/ Oldest(new) < first) THEN Oldest(new) ELSE first

\* The call succeeds: pts is the batch, refused the points found not valid.
Ingest(s, pts, refused) ==
    /\ Open(s)
    /\ refused \subseteq pts \cap Suspect
    /\ LET new == Accepted(s, pts, refused)
       IN /\ stored' = [stored EXCEPT ![s] = @ \cup new]
          /\ anchor' = [anchor EXCEPT ![s] =
                 IF Advanced(s, new) THEN Newest(new) ELSE @]
          /\ total' = [total EXCEPT ![s] = @ + Cardinality(new)]
          /\ status' = [status EXCEPT ![s] =
                 IF @ = "CLAIMED" /\ new # {} THEN "ACTIVE" ELSE @]
          /\ started' = [started EXCEPT ![s] =
                 IF @ = 0 /\ new # {} THEN Oldest(new) ELSE @]
          /\ firstAt' = [firstAt EXCEPT ![s] = Earliest(@, new)]

-----------------------------------------------------------------------------
\* The other writers of status, reduced to what ingest_points can see of them.
Pause(s) ==
    /\ status[s] = "ACTIVE"
    /\ status' = [status EXCEPT ![s] = "PAUSED"]
    /\ UNCHANGED <<stored, anchor, total, started, firstAt>>

Resume(s) ==
    /\ status[s] = "PAUSED"
    /\ status' = [status EXCEPT ![s] = "ACTIVE"]
    /\ UNCHANGED <<stored, anchor, total, started, firstAt>>

\* Mutant: a status no other writer knows.
CloseUnknown(s) ==
    /\ status[s] # "CLOSED"
    /\ status' = [status EXCEPT ![s] = "ARCHIVED"]
    /\ UNCHANGED <<stored, anchor, total, started, firstAt>>

\* finalize_session or expire_stale_sessions
Close(s) ==
    /\ status[s] # "CLOSED"
    /\ status' = [status EXCEPT ![s] = "CLOSED"]
    /\ UNCHANGED <<stored, anchor, total, started, firstAt>>

\* regenerateClaimCode shuts the door until a phone claims the new code.  Its
\* UPDATE does not ask for the status, which an earlier SELECT did.
Regenerate(s) ==
    /\ status' = [status EXCEPT ![s] = "ASSIGNED"]
    /\ UNCHANGED <<stored, anchor, total, started, firstAt>>

Claim(s) ==
    /\ status[s] = "ASSIGNED"
    /\ status' = [status EXCEPT ![s] = "CLAIMED"]
    /\ UNCHANGED <<stored, anchor, total, started, firstAt>>

\* Any device may post any batch, in any order, any number of times.
Next ==
    \/ \E s \in Sessions, pts \in SUBSET Points :
          \E refused \in SUBSET (pts \cap Suspect) : Ingest(s, pts, refused)
    \/ \E s \in Sessions :
          Pause(s) \/ Resume(s) \/ Close(s) \/ Regenerate(s) \/ Claim(s)

Spec == Init /\ [][Next]_serverVars

-----------------------------------------------------------------------------
\* points_total counts each stored fix once, however often a batch is resent
\* (points_total + v_accepted against ON CONFLICT DO NOTHING).
TotalCountsStored == \A s \in Sessions : total[s] = Cardinality(stored[s])

\* The live marker is the newest fix held, whatever the order of arrival.
MarkerIsNewest ==
    \A s \in Sessions :
        IF stored[s] = {} THEN anchor[s] = 0 ELSE anchor[s] = Newest(stored[s])

\* first_point_at is the oldest fix held, so that a dead zone uploaded late
\* extends the route backwards.
FirstIsOldest ==
    \A s \in Sessions :
        IF stored[s] = {} THEN firstAt[s] = 0 ELSE firstAt[s] = Oldest(stored[s])

\* The session row sums up the fixes stored for it, whatever was sent how often
\* and in which order: three figures kept by increments, never recounted.
RowIsTheStore == TotalCountsStored /\ MarkerIsNewest /\ FirstIsOldest

\* A batch uploaded twice is free: a call that stores nothing new leaves every
\* figure of the session alone, at whatever point of its life it arrives.
ReplayIsFree ==
    [][\A s \in Sessions : stored'[s] = stored[s] =>
          /\ anchor'[s] = anchor[s] /\ total'[s] = total[s]
          /\ started'[s] = started[s] /\ firstAt'[s] = firstAt[s]]_serverVars

=============================================================================

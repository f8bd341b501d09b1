----------------------------- MODULE AlertDesk -----------------------------
(***************************************************************************)
(* The alert bell of one browser tab (web/src/lib/useAlerts.ts): two       *)
(* queries over one table, an optimistic acknowledgement per row, and one  *)
(* for every row.  The table itself, and every other dispatcher, is the    *)
(* world: who raises and resolves a row is the subject of Alerts.          *)
(*                                                                         *)
(* A row is NEW or SEEN (acknowledged).  That it is over changes neither   *)
(* the count nor the tick, so its end is a frame like any other.  The page *)
(* limit is taken to be larger than the number of rows.                    *)
(***************************************************************************)
EXTENDS Naturals, FiniteSets

CONSTANTS
    Rows,          \* alert ids
    MaxNews,       \* bound: frames on the way to the tab
    MaxTrouble     \* bound: outages, failed requests and refused acknowledgements

VARIABLES
    table,         \* kh.alerts: id -> state
    news,          \* fleet:alert* frames on the way to the tab
    socket,        \* the shared socket is connected
    timer,         \* the 400 ms timer of `refresh` runs
    list,          \* the cache ['alerts','list']: id -> state, as shown
    badge,         \* the cache ['alerts','count'].unacknowledged
    listQuery,     \* the list request: idle, sent, or answered with a value
    countQuery,    \* the count request is on its way
    acks,          \* id -> its optimistic acknowledgement
    bulk,          \* the rows of an acknowledgeAll under way
    trouble,       \* counts towards MaxTrouble
    behind         \* for the properties: the queries that missed a frame

deskVars == <<table, news, socket, timer, list, badge, listQuery, countQuery,
              acks, bulk, trouble, behind>>

RowState == {"NONE", "NEW", "SEEN"}
Queries == {"list", "count"}

Lists == [Rows -> RowState]
Idle == [phase |-> "idle"]

DeskTypeOK ==
    /\ table \in Lists /\ list \in Lists
    /\ news \in 0 .. MaxNews
    /\ socket \in BOOLEAN /\ timer \in BOOLEAN
    /\ badge \in 0 .. Cardinality(Rows)
    /\ listQuery \in {Idle} \cup [phase : {"sent"}, over : SUBSET Rows]
                     \cup [phase : {"answered"}, over : SUBSET Rows, value : Lists]
    /\ countQuery \in BOOLEAN
    /\ acks \in [Rows -> [stage : {"idle"}] \cup
                        [stage : {"asked", "applied"}, list : Lists,
                         badge : 0 .. Cardinality(Rows)]]
    /\ bulk \subseteq Rows
    /\ trouble \in 0 .. MaxTrouble
    /\ behind \subseteq Queries

NoAck == [stage |-> "idle"]

DeskInit ==
    /\ table = [r \in Rows |-> "NONE"] /\ list = table
    /\ news = 0 /\ socket = TRUE /\ timer = FALSE
    /\ badge = 0 /\ listQuery = Idle /\ countQuery = FALSE
    /\ acks = [r \in Rows |-> NoAck]
    /\ bulk = {}
    /\ trouble = 0 /\ behind = {}

-----------------------------------------------------------------------------
\* The world.

See(state) == IF state = "NEW" THEN "SEEN" ELSE state

Unacknowledged(l) == Cardinality({ r \in Rows : l[r] = "NEW" })

\* A broadcast to the alerts room, which every connected tab is in.
Broadcast ==
    IF socket THEN news < MaxNews /\ news' = news + 1 /\ UNCHANGED behind
    ELSE behind' = Queries /\ UNCHANGED news

\* The list as a request finds it: one read before this change of the table keeps
\* what it read, one that no change has overtaken is read as it lands.
Overtaken(q) == [phase |-> "answered", over |-> q.over, value |-> table]
Changed ==
    listQuery' \in {listQuery} \cup
       (IF listQuery.phase = "sent" THEN {Overtaken(listQuery)} ELSE {})

Trouble == trouble < MaxTrouble /\ trouble' = trouble + 1

\* Raised, resolved or acknowledged by somebody else, and announced.
World(r) ==
    /\ \/ table[r] = "NONE" /\ table' = [table EXCEPT ![r] = "NEW"] /\ Changed
       \/ table[r] = "NEW" /\ table' = [table EXCEPT ![r] = "SEEN"] /\ Changed
       \/ table[r] # "NONE" /\ UNCHANGED <<table, listQuery>>
    /\ Broadcast
    /\ UNCHANGED <<socket, timer, list, badge, countQuery, acks, bulk, trouble>>

SocketDrops ==
    /\ socket /\ Trouble
    /\ socket' = FALSE /\ news' = 0
    /\ behind' = IF news > 0 THEN Queries ELSE behind
    /\ UNCHANGED <<table, timer, list, badge, listQuery, countQuery, acks, bulk>>

\* onConnect sets the flag and asks for nothing.
SocketReturns ==
    /\ ~socket /\ socket' = TRUE
    /\ UNCHANGED <<table, news, timer, list, badge, listQuery, countQuery, acks, bulk,
                   trouble, behind>>

-----------------------------------------------------------------------------
\* The two queries.

\* over: the rows ticked since it was sent, for the property that none is.
NewList == [phase |-> "sent", over |-> {}]

\* Mutant: an event inside the window is dropped, timer or not.
FrameIgnored ==
    /\ news > 0 /\ news' = news - 1
    /\ UNCHANGED timer
    /\ UNCHANGED <<table, socket, list, badge, listQuery, countQuery, acks, bulk, trouble, behind>>

\* refresh(): the first frame of a burst starts the timer, the others ride along.
Frame ==
    /\ news > 0 /\ news' = news - 1
    /\ timer' = TRUE
    /\ UNCHANGED <<table, socket, list, badge, listQuery, countQuery, acks, bulk, trouble, behind>>

\* invalidateQueries(['alerts']): both are asked again, and an answer that was
\* on its way is forgotten.
Invalidate ==
    /\ listQuery' = NewList
    /\ countQuery' = TRUE

TimerFires ==
    /\ timer /\ timer' = FALSE
    /\ Invalidate
    /\ UNCHANGED <<table, news, socket, list, badge, acks, bulk, trouble, behind>>

\* refetchInterval: a request under way is left alone.
PollList ==
    /\ listQuery = Idle
    /\ listQuery' = NewList
    /\ UNCHANGED <<table, news, socket, timer, list, badge, countQuery, acks, bulk, trouble, behind>>

PollCount ==
    /\ ~countQuery
    /\ countQuery' = TRUE
    /\ UNCHANGED <<table, news, socket, timer, list, badge, listQuery, acks, bulk, trouble, behind>>

\* alerts.service list and count, over the same window of the table.
LandList ==
    /\ listQuery # Idle /\ listQuery' = Idle
    /\ IF listQuery.phase = "sent"
       THEN list' = table /\ behind' = behind \ {"list"}
       ELSE list' = listQuery.value /\ UNCHANGED behind
    /\ UNCHANGED <<table, news, socket, timer, badge, countQuery, acks, bulk, trouble>>

\* One number: the moment it is counted is taken to be the moment it lands.
LandCount ==
    /\ countQuery /\ countQuery' = FALSE
    /\ badge' = Unacknowledged(table)
    /\ behind' = behind \ {"count"}
    /\ UNCHANGED <<table, news, socket, timer, list, listQuery, acks, bulk, trouble>>

\* The retries are used up: the cache keeps what it has (isStale).
QueryFails ==
    /\ Trouble
    /\ \/ listQuery # Idle /\ listQuery' = Idle /\ behind' = behind \cup {"list"}
          /\ UNCHANGED countQuery
       \/ countQuery /\ countQuery' = FALSE /\ behind' = behind \cup {"count"}
          /\ UNCHANGED listQuery
    /\ UNCHANGED <<table, news, socket, timer, list, badge, acks, bulk>>

-----------------------------------------------------------------------------
\* acknowledge(id).

\* AlertRow: a ticked row has no button, one that is being ticked a disabled one.
Tickable(r) == list[r] = "NEW" /\ acks[r] = NoAck

\* Mutant: the requests under way are not cancelled.
AcknowledgeOverQueries(r) ==
    /\ Tickable(r)
    /\ acks' = [acks EXCEPT ![r] = [stage |-> "asked", list |-> list, badge |-> badge]]
    /\ list' = [list EXCEPT ![r] = See(@)]
    /\ badge' = IF badge = 0 THEN 0 ELSE badge - 1
    /\ listQuery' = IF listQuery = Idle THEN Idle
                    ELSE [listQuery EXCEPT !.over = @ \cup {r}]
    /\ UNCHANGED <<table, news, socket, timer, countQuery, bulk, trouble, behind>>

\* onMutate: cancel both queries, remember what is shown, tick the row, count
\* one less, and send.
Acknowledge(r) ==
    /\ Tickable(r)
    /\ acks' = [acks EXCEPT ![r] = [stage |-> "asked", list |-> list, badge |-> badge]]
    /\ list' = [list EXCEPT ![r] = See(@)]
    /\ badge' = IF badge = 0 THEN 0 ELSE badge - 1
    /\ listQuery' = Idle /\ countQuery' = FALSE
    /\ UNCHANGED <<table, news, socket, timer, bulk, trouble, behind>>

\* alerts.service acknowledge: the first writer wins and is announced.
Stamp(r) ==
    /\ table' = [table EXCEPT ![r] = See(@)]
    /\ IF table[r] = "NEW" THEN Broadcast /\ Changed
       ELSE UNCHANGED <<news, behind, listQuery>>

Apply(r) ==
    /\ acks[r].stage = "asked"
    /\ acks' = [acks EXCEPT ![r].stage = "applied"]
    /\ Stamp(r)
    /\ UNCHANGED <<socket, timer, list, badge, countQuery, bulk, trouble>>

\* onSettled after a success.
Settle(r) ==
    /\ acks[r].stage = "applied"
    /\ acks' = [acks EXCEPT ![r] = NoAck]
    /\ Invalidate
    /\ UNCHANGED <<table, news, socket, timer, list, badge, bulk, trouble, behind>>

\* Mutant: the rollback is taken for the end of it.
RollBackOnly(r) ==
    /\ acks[r].stage \in {"asked", "applied"} /\ Trouble
    /\ list' = acks[r].list /\ badge' = acks[r].badge
    /\ acks' = [acks EXCEPT ![r] = NoAck]
    /\ UNCHANGED <<listQuery, countQuery>>
    /\ UNCHANGED <<table, news, socket, timer, bulk, behind>>

\* onError restores what was shown when the row was ticked, then onSettled.
\* The request may have been applied before its answer was lost.
RollBack(r) ==
    /\ acks[r].stage \in {"asked", "applied"} /\ Trouble
    /\ list' = acks[r].list /\ badge' = acks[r].badge
    /\ acks' = [acks EXCEPT ![r] = NoAck]
    /\ Invalidate
    /\ UNCHANGED <<table, news, socket, timer, bulk, behind>>

-----------------------------------------------------------------------------
\* acknowledgeAll: one request per unacknowledged row and nothing shown before
\* the last of them is answered, well or badly (Promise.allSettled).

\* AlertPanel: offered while a row on the list is not ticked.
AllTickable == bulk = {} /\ \E r \in Rows : list[r] = "NEW"

AcknowledgeAll ==
    /\ AllTickable
    /\ bulk' = { r \in Rows : list[r] = "NEW" }
    /\ UNCHANGED <<table, news, socket, timer, list, badge, listQuery, countQuery, acks,
                   trouble, behind>>

ApplyOne(r) ==
    /\ r \in bulk /\ table[r] = "NEW"
    /\ Stamp(r)
    /\ UNCHANGED <<socket, timer, list, badge, countQuery, acks, bulk, trouble>>

BulkSettles ==
    /\ bulk # {} /\ bulk' = {}
    /\ (\E r \in bulk : table[r] = "NEW") => trouble < MaxTrouble
    /\ trouble' = IF \E r \in bulk : table[r] = "NEW" THEN trouble + 1 ELSE trouble
    /\ Invalidate
    /\ UNCHANGED <<table, news, socket, timer, list, badge, acks, behind>>

-----------------------------------------------------------------------------
Fetching ==
    \/ Frame \/ TimerFires \/ LandList \/ LandCount

Answers == \E r \in Rows : Apply(r) \/ Settle(r) \/ ApplyOne(r)
Bulk == AcknowledgeAll \/ BulkSettles

DeskNext ==
    \/ \E r \in Rows : World(r) \/ Acknowledge(r) \/ RollBack(r)
    \/ Fetching \/ Answers
    \/ PollList \/ PollCount \/ QueryFails
    \/ SocketDrops \/ SocketReturns
    \/ Bulk

DeskSpec == DeskInit /\ [][DeskNext]_deskVars

-----------------------------------------------------------------------------
Quiet ==
    /\ news = 0 /\ ~timer /\ listQuery = Idle /\ ~countQuery /\ bulk = {}
    /\ \A r \in Rows : acks[r] = NoAck

\* When nothing is on its way, a query that missed nothing shows the table:
\* no cancelled request, rollback or coalesced frame leaves the bell wrong
\* ("the number and the rows may never disagree", once both have landed).
QuietIsCurrent ==
    Quiet => /\ "list" \notin behind => list = table
             /\ "count" \notin behind => badge = Unacknowledged(table)

\* The tick of an acknowledgement under way goes only when a read begun after
\* it lands, or when a failed acknowledgement puts back what was shown (onMutate
\* cancels every read begun earlier: "the row would appear to un-tick itself").
UntickHasACauseStep ==
    \A r \in Rows :
       acks[r] # NoAck /\ list[r] = "SEEN" /\ list'[r] = "NEW" =>
          \/ listQuery # Idle /\ r \notin listQuery.over
          \/ \E q \in Rows : acks[q] # NoAck /\ acks'[q] = NoAck
UntickHasACause == [][UntickHasACauseStep]_deskVars

=============================================================================

------------------------------ MODULE LiveFeed ------------------------------
(***************************************************************************)
(* From a committed batch to a dispatcher's screen.                        *)
(*                                                                         *)
(* The server half is IngestPoints and, after every commit, the broadcast  *)
(* nobody awaits (ingest.service.ts broadcast, the publisher's             *)
(* sessionState calls): results of two requests come back to Node in any   *)
(* order, so a broadcast is a task in a set.  Between the two halves is    *)
(* one Socket.IO connection per tab: ordered both ways while it is up,     *)
(* losing what it carries when it upsets.  The browser half is one tab that *)
(* shows either the fleet or one session (useFleetStream and               *)
(* useSessionStream are never mounted together).                           *)
(*                                                                         *)
(* A Redis adapter between replicas is taken to keep the order of one      *)
(* publisher.  Audit lines (session:event) and ingest:stats carry nothing  *)
(* a later step reads and are left out.                                    *)
(***************************************************************************)
EXTENDS IngestPoints, Sequences

CONSTANTS
    Cap,           \* maxBackfillBroadcastPoints
    MaxSegments,   \* segments a page keeps before it asks for the whole route
    MaxTasks,      \* bound: broadcasts under way
    MaxWire,       \* bound: frames on the way to the tab
    MaxAsks,       \* bound: requests on the way to the server
    MaxUpsets      \* bound: outages, navigations and changes of status

ASSUME CapsAssumption ==
    Cap \in Nat \ {0} /\ MaxSegments \in Nat \ {0} /\ MaxUpsets \in Nat

VARIABLES
    tasks,         \* Node: broadcasts not finished
    pending,       \* publisher.pending: session -> point, 0 for none
    rooms,         \* rooms the tab's socket has joined
    snapshotDue,   \* subscribe:fleet has joined and not yet answered
    wire,          \* frames on the way to the tab, in order
    asks,          \* subscribe and unsubscribe requests, in order
    conn,          \* the socket: up or down (retrying)
    view,          \* the page that is mounted: Fleet or a session
    live,          \* positions (fleet) or live (session page): the newest
                   \* frame of each session, 0 for none
    rows,          \* the query cache ['live-fleet']: session -> point, 0 for
                   \* a session without a fix or not read yet
    route,         \* points of the last route read by the page
    backfills,     \* the segments the page has spliced
    needsRefetch,  \* the page owes itself a read
    told,          \* the status the socket gave this page, None before
    upsets,        \* counts towards MaxUpsets
    \* What happened, for the properties only.
    overtaken,     \* sessions with two commits under way at once
    emitted,       \* session -> points that went out in segments of two or more
    missed         \* what this page could not hear, a segment since its last route
                   \* read, a status since it was mounted; or it heard a stray one

nodeVars == <<tasks, pending, rooms, snapshotDue>>
netVars == <<wire, asks, conn, upsets>>
pageVars == <<view, live, rows, route, backfills, needsRefetch, told>>
ghostVars == <<overtaken, emitted, missed>>
vars == <<serverVars, nodeVars, netVars, pageVars, ghostVars>>

Upset == upsets < MaxUpsets /\ upsets' = upsets + 1

Fleet == "FLEET"
None == "NONE"

\* The rooms are "fleet" and "session:<id>": no session's is the fleet's.
ASSUME FleetAssumption == Fleet \notin Sessions

Views == Sessions \cup {Fleet}

Nothing == [s \in Sessions |-> 0]

Frames ==
    [kind : {"position"}, session : Sessions, at : Points]
    \cup [kind : {"backfill"}, session : Sessions, points : SUBSET Points, truncated : BOOLEAN]
    \cup [kind : {"state"}, session : Sessions, status : Status]
    \cup [kind : {"positions"}, at : [Sessions -> Points \cup {0}]]
    \cup [kind : {"snapshot"}, at : [Sessions -> Points \cup {0}]]

Tasks ==
    [kind : {"batch"}, session : Sessions, live : Points \cup {0},
     segment : SUBSET Points, active : BOOLEAN, headed : BOOLEAN]
    \cup [kind : {"status"}, session : Sessions, status : Status]

FeedTypeOK ==
    /\ TypeOK
    /\ tasks \subseteq Tasks
    /\ pending \in [Sessions -> Points \cup {0}]
    /\ rooms \subseteq Views
    /\ snapshotDue \in BOOLEAN
    /\ \A i \in DOMAIN wire : wire[i] \in Frames
    /\ \A i \in DOMAIN asks : asks[i] \in {"sub", "unsub"} \X Views
    /\ conn \in {"up", "down"}
    /\ view \in Views
    /\ live \in [Sessions -> Points \cup {0}]
    /\ rows \in [Sessions -> Points \cup {0}]
    /\ route \subseteq Points
    /\ backfills \subseteq SUBSET Points
    /\ needsRefetch \in BOOLEAN
    /\ told \in Status \cup {None}
    /\ upsets \in 0 .. MaxUpsets
    /\ overtaken \subseteq Sessions
    /\ emitted \in [Sessions -> SUBSET Points]
    /\ missed \subseteq {"segment", "status"}

\* A tab opened on the page of a session: a link, an alert, a bookmark.
FeedInit ==
    /\ Init
    /\ tasks = {} /\ pending = Nothing /\ rooms = {} /\ snapshotDue = FALSE
    /\ view \in Sessions
    /\ wire = <<>> /\ asks = <<<<"sub", view>>>> /\ conn = "up"
    /\ live = Nothing /\ rows = Nothing
    /\ route = {} /\ backfills = {} /\ needsRefetch = TRUE /\ told = None
    /\ upsets = 0
    /\ overtaken = {} /\ emitted = [s \in Sessions |-> {}] /\ missed = {}

-----------------------------------------------------------------------------
\* The commits, each with the broadcast it starts.

Busy(s) == \E t \in tasks : t.session = s

Start(t) ==
    /\ Cardinality(tasks) < MaxTasks
    /\ tasks' = tasks \cup {t}
    /\ overtaken' = IF Busy(t.session) THEN overtaken \cup {t.session} ELSE overtaken

\* Mutant: a batch that is only late moves the marker as well.
LiveHeadAlways(s, new) == Newest(new)

\* result.live: the head of the batch, when the marker advanced.
LiveHead(s, new) == IF Advanced(s, new) THEN Newest(new) ELSE 0

\* result.accepted > 1 || !result.advanced
Segment(s, new) == IF Cardinality(new) > 1 \/ ~Advanced(s, new) THEN new ELSE {}

\* ingest.service: the write, then broadcast() unless nothing was accepted.
Post(s, pts, refused) ==
    /\ Ingest(s, pts, refused)
    /\ LET new == Accepted(s, pts, refused)
       IN IF new = {} THEN UNCHANGED <<tasks, overtaken>>
          ELSE Start([kind |-> "batch", session |-> s, live |-> LiveHead(s, new),
                      segment |-> Segment(s, new), active |-> status'[s] = "ACTIVE",
                      headed |-> FALSE])
    /\ UNCHANGED <<pending, rooms, snapshotDue, netVars, pageVars, emitted, missed>>

\* transition, expireSessions, regenerateClaimCode, claim: the row, then
\* sessionState with the status written.
Announce(s) ==
    /\ Pause(s) \/ Resume(s) \/ Close(s) \/ Regenerate(s) \/ Claim(s)
    /\ Upset
    /\ Start([kind |-> "status", session |-> s, status |-> status'[s]])
    /\ UNCHANGED <<pending, rooms, snapshotDue, wire, asks, conn, pageVars, emitted, missed>>

\* Mutant: an event of a phone whose shipment is closed is taken as well.
StartedAnytime(s) ==
    /\ status' = [status EXCEPT ![s] = IF @ = "CLAIMED" THEN "ACTIVE" ELSE @]
    /\ Upset
    /\ Start([kind |-> "status", session |-> s, status |-> "ACTIVE"])
    /\ UNCHANGED <<stored, anchor, total, started, firstAt, pending, rooms,
                   snapshotDue, wire, asks, conn, pageVars, emitted, missed>>

\* recordDriverEvent: STARTED moves only a CLAIMED row and always publishes
\* ACTIVE.  (The started_at it fills is the server's clock, which is no fix.)
Started(s) ==
    /\ Open(s)
    /\ status' = [status EXCEPT ![s] = IF @ = "CLAIMED" THEN "ACTIVE" ELSE @]
    /\ Upset
    /\ Start([kind |-> "status", session |-> s, status |-> "ACTIVE"])
    /\ UNCHANGED <<stored, anchor, total, started, firstAt, pending, rooms,
                   snapshotDue, wire, asks, conn, pageVars, emitted, missed>>

-----------------------------------------------------------------------------
\* Emission.  `to(room).emit` reaches the tab if its socket is in the room.

Hears(s) == conn = "up" /\ s \in rooms

\* What the mounted page misses when `frames` of its session are lost.
Losses(frames) ==
    { IF frames[i].kind = "backfill" THEN "segment" ELSE "status" :
        i \in { j \in DOMAIN frames : /\ frames[j].kind \in {"backfill", "state"}
                                     /\ frames[j].session = view } }
Unheard(s, frames) == IF Hears(s) THEN {} ELSE Losses(frames)

Say(room, frames) ==
    IF conn = "up" /\ room \in rooms THEN wire' = wire \o frames ELSE UNCHANGED wire
Room == Len(wire) + 2 <= MaxWire

PositionFrames(t) ==
    IF t.live = 0 THEN <<>>
    ELSE <<[kind |-> "position", session |-> t.session, at |-> t.live]>>

StateFrames(t) ==
    IF t.active THEN <<[kind |-> "state", session |-> t.session, status |-> "ACTIVE"]>>
    ELSE <<>>

\* Mutant: the name of the request goes out instead of the row's status.
StatusFramesVerbatim(t) ==
    <<[kind |-> "state", session |-> t.session, status |-> "ENDED"]>>

StatusFrames(t) == <<[kind |-> "state", session |-> t.session, status |-> t.status]>>

\* publisher.backfill: past the cap a summary that asks for a refetch.
BackfillFrames(t) ==
    LET truncated == Cardinality(t.segment) > Cap
    IN <<[kind |-> "backfill", session |-> t.session, truncated |-> truncated,
          points |-> IF truncated THEN {} ELSE t.segment]>>

\* broadcast up to its only await: the position, and for a single live ping
\* the state as well.
EmitHead(t) ==
    /\ t.kind = "batch" /\ ~t.headed /\ Room
    /\ Say(t.session, PositionFrames(t) \o (IF t.segment = {} THEN StateFrames(t) ELSE <<>>))
    /\ pending' = IF t.live = 0 THEN pending ELSE [pending EXCEPT ![t.session] = t.live]
    /\ tasks' = (tasks \ {t}) \cup
                (IF t.segment = {} THEN {} ELSE {[t EXCEPT !.headed = TRUE]})
    /\ missed' = missed \cup
                 Unheard(t.session, IF t.segment = {} THEN StateFrames(t) ELSE <<>>)
    /\ UNCHANGED <<serverVars, rooms, snapshotDue, asks, conn, upsets, pageVars,
                   overtaken, emitted>>

\* ... and after the read of the segment by its batch.
EmitTail(t) ==
    /\ t.kind = "batch" /\ t.headed /\ Room
    /\ Say(t.session, BackfillFrames(t) \o StateFrames(t))
    /\ tasks' = tasks \ {t}
    /\ emitted' = [emitted EXCEPT ![t.session] =
           IF Cardinality(t.segment) > 1 THEN @ \cup t.segment ELSE @]
    /\ missed' = missed \cup Unheard(t.session, BackfillFrames(t) \o StateFrames(t))
    /\ UNCHANGED <<serverVars, pending, rooms, snapshotDue, asks, conn, upsets,
                   pageVars, overtaken>>

EmitStatus(t) ==
    /\ t.kind = "status" /\ Room
    /\ Say(t.session, StatusFrames(t))
    /\ tasks' = tasks \ {t}
    /\ missed' = missed \cup Unheard(t.session, StatusFrames(t))
    /\ UNCHANGED <<serverVars, pending, rooms, snapshotDue, asks, conn, upsets,
                   pageVars, overtaken, emitted>>

\* The throttle timer: one frame for the fleet, last value wins per session.
FlushFleet ==
    /\ pending # Nothing /\ Room
    /\ Say(Fleet, <<[kind |-> "positions", at |-> pending]>>)
    /\ pending' = Nothing
    /\ UNCHANGED <<serverVars, tasks, rooms, snapshotDue, asks, conn, upsets,
                   pageVars, ghostVars>>

\* subscribe:fleet and subscribe:session join; unsubscribe leaves.  The fleet's
\* snapshot is queried after the join.
Serve ==
    /\ conn = "up" /\ asks # <<>>
    /\ LET what == Head(asks)[1]
           room == Head(asks)[2]
       IN /\ rooms' = IF what = "sub" THEN rooms \cup {room} ELSE rooms \ {room}
          /\ snapshotDue' = (snapshotDue \/ (what = "sub" /\ room = Fleet))
    /\ asks' = Tail(asks)
    /\ UNCHANGED <<serverVars, tasks, pending, wire, conn, upsets, pageVars, ghostVars>>

\* v_live_fleet lists the open sessions with their last point.
SnapshotRow(s) == IF Open(s) THEN anchor[s] ELSE 0

AnswerSnapshot ==
    /\ snapshotDue /\ conn = "up" /\ Room
    /\ wire' = Append(wire, [kind |-> "snapshot", at |-> [s \in Sessions |-> SnapshotRow(s)]])
    /\ snapshotDue' = FALSE
    /\ UNCHANGED <<serverVars, tasks, pending, rooms, asks, conn, upsets, pageVars, ghostVars>>

-----------------------------------------------------------------------------
\* The connection.

Drop ==
    /\ conn = "up"
    /\ conn' = "down" /\ Upset
    /\ wire' = <<>> /\ asks' = <<>> /\ rooms' = {} /\ snapshotDue' = FALSE
    /\ missed' = missed \cup Losses(wire)
    /\ UNCHANGED <<serverVars, tasks, pending, pageVars, overtaken, emitted>>

\* Mutant: the subscription is made once, when the page is mounted.
ReconnectSilently ==
    /\ conn = "down"
    /\ conn' = "up"
    /\ UNCHANGED <<serverVars, nodeVars, wire, asks, upsets, pageVars, ghostVars>>

\* The retry loop never gives up.  What was emitted while
\* the socket was down is sent first, then the connect listener subscribes.
Reconnect ==
    /\ conn = "down"
    /\ conn' = "up"
    /\ asks' = Append(asks, <<"sub", view>>)
    /\ UNCHANGED <<serverVars, nodeVars, wire, upsets, pageVars, ghostVars>>

-----------------------------------------------------------------------------
\* The tab.

\* useFleetStream: a snapshot goes to the query cache, a frame to the Map.
OnFleet(f) ==
    /\ live' = IF view = Fleet /\ f.kind = "positions"
               THEN [s \in Sessions |-> IF f.at[s] # 0 THEN f.at[s] ELSE live[s]]
               ELSE live
    /\ rows' = IF view = Fleet /\ f.kind = "snapshot" THEN f.at ELSE rows
    /\ UNCHANGED <<backfills, needsRefetch, told>>

OnPosition(f) ==
    /\ live' = IF view = f.session THEN [live EXCEPT ![f.session] = f.at] ELSE live
    /\ UNCHANGED <<rows, backfills, needsRefetch, told>>

\* Mutant: past the limit the page starts again and asks for nothing.
OnBackfillForgets(f) ==
    /\ IF view # f.session THEN UNCHANGED <<backfills, needsRefetch>>
       ELSE IF f.truncated THEN needsRefetch' = TRUE /\ UNCHANGED backfills
       ELSE /\ backfills' = IF Cardinality(backfills) >= MaxSegments THEN {}
                            ELSE backfills \cup {f.points}
            /\ UNCHANGED needsRefetch
    /\ UNCHANGED <<live, rows, told>>

OnBackfill(f) ==
    /\ IF view # f.session THEN UNCHANGED <<backfills, needsRefetch>>
       ELSE IF f.truncated THEN needsRefetch' = TRUE /\ UNCHANGED backfills
       ELSE IF Cardinality(backfills) >= MaxSegments
            THEN needsRefetch' = TRUE /\ backfills' = {}
       ELSE backfills' = backfills \cup {f.points} /\ UNCHANGED needsRefetch
    /\ UNCHANGED <<live, rows, told>>

\* onState does not look at the frame's session.
OnState(f) ==
    /\ told' = IF view # Fleet THEN f.status ELSE told
    /\ UNCHANGED <<live, rows, backfills, needsRefetch>>

Deliver ==
    /\ wire # <<>>
    /\ LET f == Head(wire)
       IN \/ f.kind \in {"positions", "snapshot"} /\ OnFleet(f)
          \/ f.kind = "position" /\ OnPosition(f)
          \/ f.kind = "backfill" /\ OnBackfill(f)
          \/ f.kind = "state" /\ OnState(f)
    /\ wire' = Tail(wire)
    /\ missed' = IF Head(wire).kind = "state" /\ Head(wire).session # view
                 THEN missed \cup {"status"} ELSE missed
    /\ UNCHANGED <<serverVars, nodeVars, asks, conn, upsets, view, route, overtaken, emitted>>

\* An HTTP read is made when the page is mounted or owes itself one, and again
\* whenever the window gets the focus back.
Due == IF needsRefetch THEN UNCHANGED upsets ELSE Upset

ReadRoute ==
    /\ view \in Sessions /\ Due
    /\ route' = stored[view] /\ needsRefetch' = FALSE
    /\ missed' = missed \ {"segment"}
    /\ UNCHANGED <<serverVars, nodeVars, wire, asks, conn, view, live, rows, backfills,
                   told, overtaken, emitted>>

ReadFleet ==
    /\ view = Fleet /\ Due
    /\ rows' = [s \in Sessions |-> SnapshotRow(s)] /\ needsRefetch' = FALSE
    /\ UNCHANGED <<serverVars, nodeVars, wire, asks, conn, view, live, route, backfills,
                   told, ghostVars>>

\* One page is unmounted and the other mounted: the cleanup unsubscribes, the
\* new effect subscribes or, while the socket is down, leaves that to connect.
Navigate(v) ==
    /\ v # view
    /\ view' = v
    /\ live' = Nothing /\ route' = {} /\ backfills' = {} /\ told' = None
    /\ needsRefetch' = TRUE
    /\ missed' = IF \E i \in DOMAIN wire : wire[i].kind = "state" THEN {"status"} ELSE {}
    /\ Len(asks) + 2 <= MaxAsks
    /\ asks' = asks \o (IF conn = "up" THEN <<<<"unsub", view>>, <<"sub", v>>>>
                        ELSE <<<<"unsub", view>>>>)
    /\ Upset
    /\ UNCHANGED <<serverVars, nodeVars, wire, conn, rows, overtaken, emitted>>

-----------------------------------------------------------------------------
FeedNext ==
    \/ \E s \in Sessions, pts \in SUBSET Points :
          \E refused \in SUBSET (pts \cap Suspect) : Post(s, pts, refused)
    \/ \E s \in Sessions : Announce(s) \/ Started(s)
    \/ \E t \in tasks : EmitHead(t) \/ EmitTail(t) \/ EmitStatus(t)
    \/ FlushFleet \/ Serve \/ AnswerSnapshot
    \/ Drop \/ Reconnect
    \/ Deliver \/ ReadRoute \/ ReadFleet
    \/ \E v \in Views : Navigate(v)

FeedSpec == FeedInit /\ [][FeedNext]_vars

-----------------------------------------------------------------------------
\* A truck never drives backwards on an open page unless two of its uploads
\* were in the server at once (realtime.publisher.ts: "must never make its own
\* marker rewind across the map").
MarkerNeverRewinds ==
    [][\A s \in Sessions :
          live[s] # 0 /\ live'[s] # 0 /\ live'[s] < live[s] => s \in overtaken]_vars

\* Every segment of two fixes or more that went out is drawn on the page of
\* its session, or the page owes itself a route read, or it could not hear
\* (useRealtime.ts onBackfill: truncation and the limit both ask for a read).
LateSegmentsAreDrawn ==
    (/\ view \in Sessions /\ ~needsRefetch /\ "segment" \notin missed
     /\ \A i \in DOMAIN wire : wire[i].kind # "backfill")
    => emitted[view] \subseteq route \cup UNION { b \in backfills : Cardinality(b) > 1 }

\* When every status has reached a page that heard them all in the order of
\* the commits, and none of another page's time, it is the row's; only STARTED,
\* which reports ACTIVE whatever the row says, can differ, and never over a
\* shipment that is closed.
ToldTheStatus ==
    (/\ view \in Sessions /\ told # None
     /\ view \notin overtaken /\ "status" \notin missed /\ ~Busy(view)
     /\ \A i \in DOMAIN wire : wire[i].kind # "state")
    => told = status[view] \/ (told = "ACTIVE" /\ status[view] \in OpenStatus)

\* Once its requests are served a connected tab is in the room of the page it
\* shows and in no other, whatever outages and navigations came before.
RoomsMatchView == (conn = "up" /\ asks = <<>>) => rooms = {view}

\* A tab hears of what it shows, and what it heard is so.
SubscribersAreServed == RoomsMatchView /\ ToldTheStatus

\* What the fleet page has read is never hidden behind an older frame
\* (useRealtime.ts: "a patch channel, not a parallel store").
FreshReadIsShown ==
    view = Fleet => \A s \in Sessions : live[s] # 0 => live[s] >= rows[s]

=============================================================================

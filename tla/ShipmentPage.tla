---------------------------- MODULE ShipmentPage ----------------------------
(***************************************************************************)
(* The record of one shipment in one browser tab: the five things a        *)
(* dispatcher does there (web/src/app/sessions/[id]/page.tsx), the box     *)
(* that writes to the driver (components/DriverMessages.tsx), the queries  *)
(* behind them and the frames that make the queries ask again.             *)
(*                                                                         *)
(* A request is asked, then committed by the server, then published and    *)
(* answered, then landed; a colleague or the phone does the same at the    *)
(* server in one step.  A tick is how far a message came: 0 sent, 1 on the *)
(* phone, 2 read.  The map, the facts and the links are other modules.     *)
(***************************************************************************)
EXTENDS Naturals, Sequences

CONSTANTS
    Texts,         \* what a dispatcher may type
    Empty,         \* an empty box, no dialog, no frame yet, no argument
    MaxMessages,   \* bound: messages of the thread
    MaxCodes,      \* bound: claim codes ever generated
    MaxPresses,    \* bound: requests the dispatcher makes
    MaxUpsets      \* bound: outages, failed requests, and what others do

VARIABLES
    server,        \* the session row and its messages
    wire,          \* frames on their way to the tab, in order
    page,          \* connected, frame, confirming, draft, mine
    session,       \* the query ['session', id]
    thread,        \* the query ['driver-messages', id]
    calls,         \* the three mutations of the page
    presses, others, trouble

vars == <<server, wire, page, session, thread, calls, presses, others, trouble>>

Actions == {"pause", "resume", "complete", "cancel"}
Closed == {"COMPLETED", "CANCELLED"}
Status == Closed \cup {"ASSIGNED", "CLAIMED", "ACTIVE", "PAUSED"}
Frames == Status \cup {"message"}
Threads == UNION {[S -> 0 .. 2] : S \in SUBSET (1 .. MaxMessages)}
Details == [status : Status, code : 0 .. MaxCodes]

\* What an answer carries: nothing but its `what` for an action or a message.
Mutations == {"action", "send", "regenerate"}
Quiet == [stage |-> "idle", what |-> Empty, result |-> 0]

Query(data) ==
    [data : data, behind : BOOLEAN, stage : {"idle", "asked"}, answer : {Empty}]
    \cup [data : data, behind : BOOLEAN, stage : {"answered"}, answer : data]

TypeOK ==
    /\ server \in [status : Status, code : 0 .. MaxCodes, codes : 0 .. MaxCodes, thread : Seq(0 .. 2)]
    /\ server.code \in {0, server.codes} /\ Len(server.thread) <= MaxMessages
    /\ wire \in Seq(Frames)
    /\ page \in [connected : BOOLEAN, frame : Status \cup {Empty}, confirming : Actions \cup {Empty},
                 draft : Texts \cup {Empty}, mine : 0 .. MaxCodes]
    /\ session \in Query(Details) /\ thread \in Query(Threads)
    /\ calls \in [Mutations -> [stage : {"idle", "asked", "committed", "refused", "answered"},
                                what : Actions \cup Texts \cup {Empty},
                                result : 0 .. MaxCodes + MaxMessages]]
    /\ presses \in 0 .. MaxPresses /\ others \in 0 .. MaxUpsets /\ trouble \in 0 .. MaxUpsets

Detail == [status |-> server.status, code |-> server.code]

Init ==
    /\ \E status \in Status \ Closed :
          server = [status |-> status, code |-> IF status = "ASSIGNED" THEN 1 ELSE 0,
                    codes |-> 1, thread |-> <<>>]
    /\ wire = <<>>
    /\ page = [connected |-> TRUE, frame |-> Empty, confirming |-> Empty,
               draft |-> Empty, mine |-> 0]
    /\ session = [data |-> Detail, behind |-> FALSE, stage |-> "idle", answer |-> Empty]
    /\ thread = [data |-> <<>>, behind |-> FALSE, stage |-> "idle", answer |-> Empty]
    /\ calls = [m \in Mutations |-> Quiet]
    /\ presses = 0 /\ others = 0 /\ trouble = 0

Pending(m) == calls[m].stage # "idle"
Set(m, stage, result) == calls' = [calls EXCEPT ![m].stage = stage, ![m].result = result]

\* currentStatus: the last frame, before the row that was read.
Shown == IF page.frame # Empty THEN page.frame ELSE session.data.status

-----------------------------------------------------------------------------
\* Queries.  A fetch already under way answers a poll; an invalidation starts
\* another one, whose answer is the one that counts.

\* Mutant: a frame is content with the fetch that is already under way.
JoinFetch(q) == IF q.stage = "idle" THEN [q EXCEPT !.stage = "asked", !.behind = FALSE] ELSE q

Invalidated(q) == [q EXCEPT !.stage = "asked", !.behind = FALSE, !.answer = Empty]
Answered(q, value) == [q EXCEPT !.stage = "answered", !.answer = value]
Landed(q) == [q EXCEPT !.stage = "idle", !.data = q.answer, !.answer = Empty]
Failed(q) == [q EXCEPT !.stage = "idle", !.answer = Empty, !.behind = TRUE]

Poll ==
    /\ \/ session.stage = "idle" /\ session' = Invalidated(session) /\ UNCHANGED thread
       \/ thread.stage = "idle" /\ thread' = Invalidated(thread) /\ UNCHANGED session
    /\ UNCHANGED <<server, wire, page, calls, presses, others, trouble>>

QueryAnswers ==
    /\ \/ session.stage = "asked" /\ session' = Answered(session, Detail) /\ UNCHANGED thread
       \/ thread.stage = "asked" /\ thread' = Answered(thread, server.thread) /\ UNCHANGED session
    /\ UNCHANGED <<server, wire, page, calls, presses, others, trouble>>

QueryLands ==
    /\ \/ session.stage = "answered" /\ session' = Landed(session) /\ UNCHANGED thread
       \/ thread.stage = "answered" /\ thread' = Landed(thread) /\ UNCHANGED session
    /\ UNCHANGED <<server, wire, page, calls, presses, others, trouble>>

QueryFails ==
    /\ trouble + others < MaxUpsets /\ trouble' = trouble + 1
    /\ \/ session.stage # "idle" /\ session' = Failed(session) /\ UNCHANGED thread
       \/ thread.stage # "idle" /\ thread' = Failed(thread) /\ UNCHANGED session
    /\ UNCHANGED <<server, wire, page, calls, presses, others>>

-----------------------------------------------------------------------------
\* The socket.

Behind(frames) ==
    /\ session' = [session EXCEPT !.behind = @ \/ frames \cap Status # {}]
    /\ thread' = [thread EXCEPT !.behind = @ \/ "message" \in frames]

\* A frame for the room the tab is in, or for nobody.
Publish(frame) ==
    IF page.connected THEN wire' = Append(wire, frame) /\ UNCHANGED <<session, thread>>
    ELSE Behind({frame}) /\ UNCHANGED wire

Frame ==
    /\ wire # <<>>
    /\ LET f == Head(wire) IN
       IF f = "message" THEN thread' = Invalidated(thread) /\ UNCHANGED <<page, session>>
       ELSE /\ page' = [page EXCEPT !.frame = f]
            /\ session' = IF f = page.frame THEN session ELSE Invalidated(session)
            /\ UNCHANGED thread
    /\ wire' = Tail(wire)
    /\ UNCHANGED <<server, calls, presses, others, trouble>>

Disconnect ==
    /\ page.connected /\ trouble + others < MaxUpsets
    /\ trouble' = trouble + 1
    /\ page' = [page EXCEPT !.connected = FALSE]
    /\ wire' = <<>>
    /\ Behind({wire[i] : i \in DOMAIN wire})
    /\ UNCHANGED <<server, calls, presses, others>>

Reconnect ==
    /\ ~page.connected
    /\ page' = [page EXCEPT !.connected = TRUE]
    /\ UNCHANGED <<server, wire, session, thread, calls, presses, others, trouble>>

-----------------------------------------------------------------------------
\* What a dispatcher does.

Mine == UNCHANGED <<server, wire, session, thread, others, trouble>>
Looks == Mine /\ UNCHANGED <<calls, presses>>

Asks(m, what) ==
    /\ ~Pending(m) /\ presses < MaxPresses /\ presses' = presses + 1
    /\ calls' = [calls EXCEPT ![m] = [Quiet EXCEPT !.stage = "asked", !.what = what]]
    /\ Mine

\* Mutant: the buttons stay alive while a request is under way.
AskAnyway(a) ==
    /\ page.confirming = Empty /\ Shown \notin Closed
    /\ a = "pause" => Shown # "PAUSED"
    /\ a = "resume" => Shown = "PAUSED"
    /\ page' = [page EXCEPT !.confirming = a]
    /\ Looks

\* A button of the toolbar opens the dialog.
Ask(a) ==
    /\ page.confirming = Empty /\ Shown \notin Closed /\ ~Pending("action")
    /\ a = "pause" => Shown # "PAUSED"
    /\ a = "resume" => Shown = "PAUSED"
    /\ page' = [page EXCEPT !.confirming = a]
    /\ Looks

\* The cancel button, or Escape and the backdrop, which work at any time.
Dismiss ==
    /\ page.confirming # Empty
    /\ page' = [page EXCEPT !.confirming = Empty]
    /\ Looks

Confirm ==
    /\ page.confirming # Empty
    /\ Asks("action", page.confirming)
    /\ UNCHANGED page

Regenerate ==
    /\ page.confirming = Empty
    /\ Asks("regenerate", Empty)
    /\ UNCHANGED page

Type(text) ==
    /\ page.confirming = Empty /\ Shown \notin Closed
    /\ page' = [page EXCEPT !.draft = text]
    /\ Looks

\* Mutant: the box is emptied as the message leaves.
SubmitEmptying ==
    /\ page.confirming = Empty /\ Shown \notin Closed /\ page.draft # Empty
    /\ Asks("send", page.draft)
    /\ page' = [page EXCEPT !.draft = Empty]

Submit ==
    /\ page.confirming = Empty /\ Shown \notin Closed /\ page.draft # Empty
    /\ Asks("send", page.draft)
    /\ UNCHANGED page

-----------------------------------------------------------------------------
\* What the server does with it: transition, regenerateClaimCode, send.

Changes(a) ==
    CASE a = "pause"    -> server.status = "ACTIVE" /\ server' = [server EXCEPT !.status = "PAUSED"]
      [] a = "resume"   -> server.status = "PAUSED" /\ server' = [server EXCEPT !.status = "ACTIVE"]
      [] a = "complete" -> server' = [server EXCEPT !.status = "COMPLETED", !.code = 0]
      [] a = "cancel"   -> server' = [server EXCEPT !.status = "CANCELLED", !.code = 0]
Refuses(a) ==
    \/ a = "pause" /\ server.status # "ACTIVE"
    \/ a = "resume" /\ server.status # "PAUSED"

NewCode ==
    /\ server.status \notin Closed /\ server.codes < MaxCodes
    /\ server' = [server EXCEPT !.status = "ASSIGNED", !.code = server.codes + 1, !.codes = @ + 1]

NewMessage ==
    /\ server.status \notin Closed /\ Len(server.thread) < MaxMessages
    /\ server' = [server EXCEPT !.thread = Append(@, 0)]

\* The result is what the answer will carry: the code or the message's number.
Commit ==
    /\ UNCHANGED <<wire, page, session, thread, presses, others, trouble>>
    /\ \/ calls["action"].stage = "asked" /\ Changes(calls["action"].what)
          /\ Set("action", "committed", 0)
       \/ calls["regenerate"].stage = "asked" /\ NewCode
          /\ Set("regenerate", "committed", server'.code)
       \/ calls["send"].stage = "asked" /\ NewMessage
          /\ Set("send", "committed", Len(server'.thread))

Refuse ==
    /\ UNCHANGED <<server, wire, page, session, thread, presses, others, trouble>>
    /\ \E m \in Mutations :
          /\ calls[m].stage = "asked"
          /\ IF m = "action" THEN Refuses(calls[m].what) ELSE server.status \in Closed
          /\ Set(m, "refused", 0)

\* The frame a mutation publishes: the status it set, not the one the row has now.
Published(m) ==
    CASE m = "send" -> "message"
      [] m = "regenerate" -> "ASSIGNED"
      [] m = "action" -> [pause |-> "PAUSED", resume |-> "ACTIVE",
                          complete |-> "COMPLETED", cancel |-> "CANCELLED"][calls[m].what]

Answer ==
    /\ \E m \in Mutations :
          /\ calls[m].stage = "committed"
          /\ Publish(Published(m))
          /\ Set(m, "answered", calls[m].result)
    /\ UNCHANGED <<server, page, presses, others, trouble>>

\* A colleague, or the phone: its change and its frame are one step.
Other ==
    /\ trouble + others < MaxUpsets /\ others' = others + 1
    /\ \/ \E a \in Actions : Changes(a) /\ Publish(server'.status)
       \/ NewCode /\ Publish("ASSIGNED")
       \/ NewMessage /\ Publish("message")
       \/ /\ server.code # 0
          /\ server' = [server EXCEPT !.status = "CLAIMED", !.code = 0] /\ Publish("CLAIMED")
       \/ /\ server.status \in {"CLAIMED", "ACTIVE", "PAUSED"}
          /\ server' = [server EXCEPT !.status = IF @ = "CLAIMED" THEN "ACTIVE" ELSE @]
          /\ Publish("ACTIVE")
       \/ \E i \in DOMAIN server.thread, tick \in 1 .. 2 :
             /\ server.thread[i] < tick
             /\ server' = [server EXCEPT !.thread[i] = tick] /\ Publish("message")
    /\ UNCHANGED <<page, calls, presses, trouble>>

-----------------------------------------------------------------------------
\* The answers.

Done(m) == calls' = [calls EXCEPT ![m] = Quiet]

ActionLands ==
    /\ calls["action"].stage = "answered" /\ Done("action")
    /\ page' = [page EXCEPT !.confirming = Empty]
    /\ session' = Invalidated(session)
    /\ UNCHANGED <<server, wire, thread, presses, others, trouble>>

\* Mutant: the page waits for the poll to show the new code.
RegenerateLandsSilently ==
    /\ calls["regenerate"].stage = "answered" /\ Done("regenerate")
    /\ page' = [page EXCEPT !.mine = calls["regenerate"].result]
    /\ UNCHANGED <<server, wire, session, thread, presses, others, trouble>>

RegenerateLands ==
    /\ calls["regenerate"].stage = "answered" /\ Done("regenerate")
    /\ page' = [page EXCEPT !.mine = calls["regenerate"].result]
    /\ session' = Invalidated(session)
    /\ UNCHANGED <<server, wire, thread, presses, others, trouble>>

\* The answer is put into the list as it is: a message without its ticks.
SendLands ==
    /\ calls["send"].stage = "answered" /\ Done("send")
    /\ page' = [page EXCEPT !.draft = Empty]
    /\ LET id == calls["send"].result IN
       thread' = [thread EXCEPT !.data = [i \in DOMAIN @ \cup {id} |-> IF i = id THEN 0 ELSE @[i]]]
    /\ UNCHANGED <<server, wire, session, presses, others, trouble>>

\* Refused, or no answer: the dialog stays open, the text stays in the box.
CallFails ==
    /\ \E m \in Mutations :
          /\ calls[m].stage \in {"asked", "refused", "answered"}
          /\ IF calls[m].stage = "refused" THEN UNCHANGED trouble
             ELSE trouble + others < MaxUpsets /\ trouble' = trouble + 1
          /\ session' = IF m = "send" /\ calls[m].stage = "refused" THEN Invalidated(session) ELSE session
          /\ Done(m)
    /\ UNCHANGED <<server, wire, page, thread, presses, others>>

Dispatcher ==
    \/ Dismiss \/ Confirm \/ Regenerate \/ Submit
    \/ \E a \in Actions : Ask(a)
    \/ \E text \in Texts : Type(text)

Next ==
    \/ Poll \/ QueryAnswers \/ QueryLands \/ QueryFails
    \/ Frame \/ Disconnect \/ Reconnect
    \/ Dispatcher \/ Commit \/ Refuse \/ Answer \/ Other
    \/ ActionLands \/ RegenerateLands \/ SendLands \/ CallFails

Spec == Init /\ [][Next]_vars

-----------------------------------------------------------------------------
\* "Refetching keeps exactly one source of truth": when nothing is under way
\* and no frame was missed, the thread on the screen lists every message there
\* is, its own ones and a colleague's, however frames and answers crossed.
QuietThreadIsWhole ==
    page.connected /\ wire = <<>> /\ ~Pending("send") /\ thread.stage = "idle" /\ ~thread.behind
        => DOMAIN thread.data = DOMAIN server.thread

\* ... and with the ticks the server has.
QuietTicksAreCurrent ==
    page.connected /\ wire = <<>> /\ ~Pending("send") /\ thread.stage = "idle" /\ ~thread.behind
        => thread.data = server.thread

\* A dispatcher who pressed "new code" never reads out the code the press
\* revoked: once the record is read again, it shows theirs, a later one, or none.
RevokedCodeIsNotReadOut ==
    session.stage = "idle" /\ ~session.behind => session.data.code = 0 \/ session.data.code >= page.mine

\* While a request is under way the dialog is closed or about that request, so
\* the answer that closes it closes its own.
DialogIsOfTheRequest ==
    Pending("action") => page.confirming \in {Empty, calls["action"].what}

\* The box is emptied only for a message the server holds.
BoxIsEmptiedForHeldStep ==
    page.draft # Empty /\ page'.draft = Empty => calls["send"].stage = "answered"
BoxIsEmptiedForHeld == [][BoxIsEmptiedForHeldStep]_vars

\* ... and holds what was typed meanwhile.
NothingTypedIsLost ==
    [][page.draft # Empty /\ page'.draft = Empty => calls["send"].what = page.draft]_vars

\* The status at the top is the session's, once everything has arrived.
StatusShownIsCurrent ==
    page.connected /\ wire = <<>> /\ ~Pending("action") /\ ~Pending("regenerate")
    /\ session.stage = "idle" /\ ~session.behind => Shown = server.status

=============================================================================

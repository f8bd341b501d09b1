------------------------------- MODULE Alerts -------------------------------
(***************************************************************************)
(* kh.alerts and the scheduled jobs that open and close its rows           *)
(* (maintenance.service.ts, alerts.service.ts, migrations 0005, 0008).     *)
(*                                                                         *)
(* A job is taken by the replica that wins a Redis lock.  The lock is      *)
(* never released, it only runs out, so a slow execution may find another  *)
(* one of the same job beside it.  Each SQL statement is a step: select    *)
(* what is due, then row by row raise or clear, and publish.  An execution *)
(* stops at a failed statement or with its process, wherever it is.        *)
(* Among the rows of a select the order is open.                           *)
(* Time is abstract: a window may pass at any moment.  watch[s] restricts  *)
(* which conditions of session s ever change.                              *)
(***************************************************************************)
EXTENDS Naturals, FiniteSets

CONSTANTS
    Sessions,
    Kinds,         \* kinds of alert the instance has
    Users,         \* dispatchers who may acknowledge
    NoUser,
    Executions,    \* executions of jobs that may be under way at once
    MaxAlerts,     \* bound on rows of kh.alerts
    MaxVersion,    \* bound on released builds
    MaxDeaths,     \* bound on executions that stop half-way
    AckKinds,      \* kinds whose rows dispatchers look at
    Watches        \* choices of watch, session -> kinds that may happen to it

\* MOCK_LOCATION and STOPPED_TOO_LONG exist as values, but no code raises them.
AllKinds == {"SIGNAL_LOST", "PAUSED_TOO_LONG", "NOT_STARTED", "BATTERY_LOW",
             "ARRIVED", "APP_OUTDATED"}

ASSUME KindAssumption == Kinds \subseteq AllKinds
ASSUME WatchAssumption == Watches \subseteq [Sessions -> SUBSET Kinds]
ASSUME UserAssumption == NoUser \notin Users
ASSUME BoundAssumption ==
    MaxAlerts \in Nat /\ MaxVersion \in Nat \ {0} /\ MaxDeaths \in Nat

VARIABLES
    watch,
    ship,          \* session -> what the conditions look at
    released,      \* versionCode of the announced build
    grace,         \* it was announced less than 24 hours ago
    entered,       \* session -> it has a GEOFENCE_ENTER event of the last 6 hours
    recoveries,    \* session -> GPS_RECOVERED rows
    alert,         \* rows of kh.alerts, numbered in order of insertion
    told,          \* row -> how often each transition was published
    lock,          \* job -> lock:<job> exists
    exec,          \* execution -> its progress
    acking,        \* acknowledgements stamped whose publication is owed
    deaths, dropped        \* history: arrivals a stopped execution still had to raise

world == <<watch, ship, released, grace>>
desk == <<alert, told, acking>>
jobs == <<lock, exec, deaths, dropped>>
vars == <<world, entered, recoveries, desk, jobs>>

Close == "close-finished-alerts"
Jobs == Kinds \cup {Close}      \* a detector's job is named by its kind
AlertIds == 1..MaxAlerts

\* A tracking session, its order and its phone.  The three endings are one
\* status; battery is last_battery_pct against 15 and 25, OK if it charges; fix
\* is last_point_at against 15 minutes, waited the age against 90 minutes, pause
\* the age of the pause against 10 and 60; settled: the order is DELIVERED or
\* CANCELLED; there: inside the destination radius; build 0 stands for NULL.
Ship == [status : {"ASSIGNED", "ACTIVE", "PAUSED", "CLOSED"}, started : BOOLEAN,
         fix : {"NONE", "FRESH", "SILENT"}, battery : {"LOW", "MID", "OK"},
         waited : BOOLEAN, pause : {"NEW", "LONG", "HOUR"}, settled : BOOLEAN,
         there : BOOLEAN, build : 0..MaxVersion]

Row == [s : Sessions, kind : Kinds, severity : {"INFO", "WARNING", "CRITICAL"},
        open : BOOLEAN, by : Users \cup {NoUser}]
Free == [open |-> FALSE]
Item == [s : Sessions, kind : Kinds, severity : {"INFO", "WARNING", "CRITICAL"}]
Pair == [s : Sessions, kind : Kinds]
Idle == [at |-> "IDLE"]
Phases == {"RAISE_SELECT", "RAISE", "OPENED", "CLEAR_SELECT", "CLEAR", "RESOLVED",
           "RECOVERED"}
Verbs == {"raised", "resolved", "acknowledged"}

TypeOK ==
    /\ watch \in [Sessions -> SUBSET Kinds]
    /\ ship \in [Sessions -> Ship]
    /\ released \in 0..MaxVersion /\ grace \in BOOLEAN
    /\ entered \in [Sessions -> BOOLEAN]
    /\ recoveries \in [Sessions -> Nat]
    /\ alert \in [AlertIds -> Row \cup {Free}]
    /\ told \in [AlertIds -> [Verbs -> Nat]]
    /\ lock \subseteq Jobs
    /\ exec \in [Executions -> {Idle} \cup
          [at : Phases, job : Jobs, todo : SUBSET (Item \cup Pair), hand : AlertIds \cup {0},
           code : 0..MaxVersion, late : BOOLEAN]]
    /\ acking \subseteq AlertIds
    /\ deaths \in 0..MaxDeaths
    /\ dropped \subseteq Sessions

Init ==
    /\ watch \in Watches
    /\ ship \in [Sessions -> {[status |-> "ASSIGNED", started |-> FALSE,
          fix |-> "NONE", battery |-> "OK", waited |-> FALSE, pause |-> "NEW",
          settled |-> b, there |-> FALSE, build |-> 0] : b \in BOOLEAN}]
    /\ \A s \in Sessions : ship[s].settled => "PAUSED_TOO_LONG" \in watch[s]
    /\ released = 0 /\ grace = FALSE
    /\ entered = [s \in Sessions |-> FALSE]
    /\ recoveries = [s \in Sessions |-> 0]
    /\ alert = [a \in AlertIds |-> Free]
    /\ told = [a \in AlertIds |-> [v \in Verbs |-> 0]]
    /\ lock = {}
    /\ exec = [e \in Executions |-> Idle]
    /\ acking = {}
    /\ deaths = 0
    /\ dropped = {}

-----------------------------------------------------------------------------
(* The world: shipments, phones and time                                   *)

Matters(s, kinds) == watch[s] \cap kinds # {}

Still == UNCHANGED <<entered, recoveries, desk, jobs>>

\* The first fix of a claimed session, or its STARTED event before any fix.
Start(s, withFix) ==
    /\ ship[s].status = "ASSIGNED"
    /\ withFix => Matters(s, {"SIGNAL_LOST", "BATTERY_LOW", "ARRIVED"})
    /\ ship' = [ship EXCEPT ![s].status = "ACTIVE", ![s].started = TRUE,
                            ![s].fix = IF withFix THEN "FRESH" ELSE @]
    /\ UNCHANGED <<watch, released, grace>> /\ Still

Pause(s) ==
    /\ Matters(s, {"SIGNAL_LOST", "PAUSED_TOO_LONG"})
    /\ ship[s].status = "ACTIVE"
    /\ ship' = [ship EXCEPT ![s].status = "PAUSED"]
    /\ UNCHANGED <<watch, released, grace>> /\ Still

Resume(s) ==
    /\ ship[s].status = "PAUSED"
    /\ ship' = [ship EXCEPT ![s].status = "ACTIVE", ![s].pause = "NEW"]
    /\ UNCHANGED <<watch, released, grace>> /\ Still

\* A new code: the session waits again, its device is revoked.
Regenerate(s) ==
    /\ Matters(s, {"NOT_STARTED", "APP_OUTDATED"})
    /\ ship[s].status \in {"ACTIVE", "PAUSED"}
    /\ ship' = [ship EXCEPT ![s].status = "ASSIGNED", ![s].build = 0,
                            ![s].pause = "NEW"]
    /\ UNCHANGED <<watch, released, grace>> /\ Still

\* complete, cancel or expiry.
CloseSession(s) ==
    /\ ship[s].status # "CLOSED"
    /\ ship' = [ship EXCEPT ![s].status = "CLOSED", ![s].pause = "NEW"]
    /\ UNCHANGED <<watch, released, grace>> /\ Still

\* An accepted fix that moves the marker, with what the phone says of itself.
Fix(s, level, at) ==
    /\ Matters(s, {"SIGNAL_LOST", "BATTERY_LOW", "ARRIVED"})
    /\ ship[s].status \in {"ACTIVE", "PAUSED"}
    /\ level # ship[s].battery => Matters(s, {"BATTERY_LOW"})
    /\ at # ship[s].there => Matters(s, {"ARRIVED"})
    /\ ship' = [ship EXCEPT ![s].fix = "FRESH", ![s].battery = level,
                            ![s].there = at]
    /\ UNCHANGED <<watch, released, grace>> /\ Still

Silence(s) ==
    /\ Matters(s, {"SIGNAL_LOST", "BATTERY_LOW", "ARRIVED"})
    /\ ship[s].fix = "FRESH"
    /\ ship' = [ship EXCEPT ![s].fix = "SILENT"]
    /\ UNCHANGED <<watch, released, grace>> /\ Still

Wait(s) ==
    /\ Matters(s, {"NOT_STARTED"})
    /\ ~ship[s].waited
    /\ ship' = [ship EXCEPT ![s].waited = TRUE]
    /\ UNCHANGED <<watch, released, grace>> /\ Still

PauseLasts(s) ==
    /\ Matters(s, {"PAUSED_TOO_LONG"})
    /\ ship[s].status = "PAUSED" /\ ship[s].pause # "HOUR"
    /\ ship' = [ship EXCEPT ![s].pause = IF @ = "NEW" THEN "LONG" ELSE "HOUR"]
    /\ UNCHANGED <<watch, released, grace>> /\ Still

\* Mutant: a phone that runs a staged build.
ReportStaged(s, b) ==
    /\ Matters(s, {"APP_OUTDATED"})
    /\ ship[s].status # "CLOSED"
    /\ ship' = [ship EXCEPT ![s].build = released + b]
    /\ UNCHANGED <<watch, released, grace>> /\ Still

\* The bound device tells its build at claim and with each token refresh.
Report(s, b) ==
    /\ Matters(s, {"APP_OUTDATED"})
    /\ ship[s].status # "CLOSED"
    /\ b \in 1..released /\ b > ship[s].build
    /\ ship' = [ship EXCEPT ![s].build = b]
    /\ UNCHANGED <<watch, released, grace>> /\ Still

Announce ==
    /\ \E s \in Sessions : Matters(s, {"APP_OUTDATED"})
    /\ released < MaxVersion
    /\ released' = released + 1
    /\ grace' = TRUE
    /\ UNCHANGED <<watch, ship>> /\ Still

GraceEnds ==
    /\ grace
    /\ grace' = FALSE
    /\ UNCHANGED <<watch, ship, released>> /\ Still

\* The 6 hours after which an arrival is written again.
EventAges(s) ==
    /\ entered[s]
    /\ entered' = [entered EXCEPT ![s] = FALSE]
    /\ UNCHANGED <<world, recoveries, desk, jobs>>

-----------------------------------------------------------------------------
(* kh.raise_alert, kh.resolve_alert and the conditions of the detectors    *)

Open(s, kind) == \E a \in AlertIds :
    alert[a] # Free /\ alert[a].open /\ alert[a].s = s /\ alert[a].kind = kind

Room == \E a \in AlertIds : alert[a] = Free

\* Rows are only added: the next one is the first that is free.
NextId(a) == /\ alert[a] = Free
             /\ \A b \in 1..(a - 1) : alert[b] # Free

Severity(s, kind) ==
    IF kind = "SIGNAL_LOST" \/ (kind = "PAUSED_TOO_LONG" /\ ship[s].pause = "HOUR")
    THEN "CRITICAL" ELSE IF kind = "ARRIVED" THEN "INFO" ELSE "WARNING"

\* What each detector raises for; code is the build it read at its start ...
SilenceDue(s) == ship[s].status = "ACTIVE" /\ ship[s].fix = "SILENT"
PauseDue(s) == /\ ship[s].status = "PAUSED" /\ ship[s].started
               /\ ~ship[s].settled /\ ship[s].pause # "NEW"
NotStartedDue(s) == /\ ship[s].status = "ASSIGNED"
                    /\ ~ship[s].started /\ ship[s].waited
BatteryDue(s) == /\ ship[s].status = "ACTIVE"
                 /\ ship[s].battery = "LOW" /\ ship[s].fix = "FRESH"
ArrivalDue(s) == /\ ship[s].status = "ACTIVE" /\ ship[s].there
                 /\ ship[s].fix = "FRESH" /\ ~entered[s]
OutdatedDue(s, code) == /\ ship[s].status = "ACTIVE"
                        /\ ship[s].build \in 1..(code - 1)

Due(s, kind, code) ==
    \/ kind = "SIGNAL_LOST" /\ SilenceDue(s)
    \/ kind = "PAUSED_TOO_LONG" /\ PauseDue(s)
    \/ kind = "NOT_STARTED" /\ NotStartedDue(s)
    \/ kind = "BATTERY_LOW" /\ BatteryDue(s)
    \/ kind = "ARRIVED" /\ ArrivalDue(s)
    \/ kind = "APP_OUTDATED" /\ OutdatedDue(s, code)

\* ... and what its second half clears for; nothing clears an arrival.
SilenceOver(s) == ship[s].fix = "FRESH"
PauseOver(s) == ship[s].status # "PAUSED" \/ ship[s].settled
NotStartedOver(s) == ship[s].started
BatteryOver(s) == ship[s].battery = "OK"
OutdatedOver(s, code) == ship[s].status # "ACTIVE" \/ ship[s].build >= code

Over(s, kind, code) ==
    \/ kind = "SIGNAL_LOST" /\ SilenceOver(s)
    \/ kind = "PAUSED_TOO_LONG" /\ PauseOver(s)
    \/ kind = "NOT_STARTED" /\ NotStartedOver(s)
    \/ kind = "BATTERY_LOW" /\ BatteryOver(s)
    \/ kind = "APP_OUTDATED" /\ OutdatedOver(s, code)

\* detect_arrivals looks at its events instead of at open alerts.
ToRaise(job, code) ==
    {i \in Item : /\ i.kind = job /\ Due(i.s, job, code)
                  /\ job # "ARRIVED" => ~Open(i.s, job)
                  /\ i.severity = Severity(i.s, job)}

\* Mutant: finished shipments are not looked for.
ToClearLive(job, code) ==
    {i \in Pair : i.kind = job /\ Open(i.s, i.kind) /\ Over(i.s, job, code)}

ToClear(job, code) ==
    {i \in Pair : /\ Open(i.s, i.kind)
                  /\ IF job = Close THEN ship[i.s].status = "CLOSED"
                                    ELSE i.kind = job /\ Over(i.s, job, code)}

-----------------------------------------------------------------------------
(* The jobs                                                                *)

\* Mutant: without NX.
TickAnyway(e, job) ==
    /\ exec[e] = Idle
    /\ job # Close => \E s \in Sessions : Matters(s, {job})
    /\ lock' = lock \cup {job}
    /\ exec' = [exec EXCEPT ![e] =
          [at |-> IF job = Close THEN "CLEAR_SELECT" ELSE "RAISE_SELECT",
           job |-> job, todo |-> {}, hand |-> 0, code |-> 0, late |-> FALSE]]
    /\ UNCHANGED <<world, entered, recoveries, desk, deaths, dropped>>

\* withLeaderLock: SET lock:<job> NX EX.
Tick(e, job) ==
    /\ exec[e] = Idle
    /\ job \notin lock
    /\ job # Close => \E s \in Sessions : Matters(s, {job})
    /\ lock' = lock \cup {job}
    /\ exec' = [exec EXCEPT ![e] =
          [at |-> IF job = Close THEN "CLEAR_SELECT" ELSE "RAISE_SELECT",
           job |-> job, todo |-> {}, hand |-> 0, code |-> 0,
           late |-> FALSE]]
    /\ UNCHANGED <<world, entered, recoveries, desk, deaths, dropped>>

\* Mutant: without EX.
LockKept(job) == FALSE /\ job \in lock /\ UNCHANGED vars

\* The key's time to live, whatever its execution does by then.
LockExpires(job) ==
    /\ job \in lock
    /\ lock' = lock \ {job}
    /\ exec' = [e \in Executions |->
          IF exec[e] # Idle /\ exec[e].job = job THEN [exec[e] EXCEPT !.late = TRUE]
          ELSE exec[e]]
    /\ UNCHANGED <<world, entered, recoveries, desk, deaths, dropped>>

\* detectOutdatedApps stops when nothing is announced, or too recently.
TooEarly(e) ==
    /\ exec[e].at = "RAISE_SELECT" /\ exec[e].job = "APP_OUTDATED"
    /\ released = 0 \/ grace
    /\ exec' = [exec EXCEPT ![e] = Idle]
    /\ UNCHANGED <<world, entered, recoveries, desk, lock, deaths, dropped>>

\* The first select; detect_arrivals writes its events in the same statement.
SelectDue(e) ==
    /\ exec[e].at = "RAISE_SELECT"
    /\ exec[e].job = "APP_OUTDATED" => released # 0 /\ ~grace
    /\ LET job == exec[e].job IN
       /\ exec' = [exec EXCEPT ![e].at = "RAISE", ![e].todo = ToRaise(job, released),
                               ![e].code = released]
       /\ entered' = [s \in Sessions |->
            entered[s] \/ (job = "ARRIVED" /\ Due(s, job, released))]
    /\ UNCHANGED <<world, recoveries, desk, lock, deaths, dropped>>

\* kh.raise_alert opened a row: it is published next.
RaiseNew(e, i, a) ==
    /\ exec[e].at = "RAISE" /\ i \in exec[e].todo
    /\ ~Open(i.s, i.kind) /\ NextId(a)
    /\ alert' = [alert EXCEPT ![a] = [s |-> i.s, kind |-> i.kind,
                  severity |-> i.severity, open |-> TRUE, by |-> NoUser]]
    /\ exec' = [exec EXCEPT ![e].at = "OPENED", ![e].hand = a,
                            ![e].todo = @ \ {i}]
    /\ UNCHANGED <<world, entered, recoveries, told, acking, lock, deaths, dropped>>

\* One was open already: ON CONFLICT DO NOTHING, and nobody is told.  With
\* the bound on rows reached, the item is passed over.
RaiseKnown(e, i) ==
    /\ exec[e].at = "RAISE" /\ i \in exec[e].todo
    /\ Open(i.s, i.kind) \/ ~Room
    /\ exec' = [exec EXCEPT ![e].todo = @ \ {i}]
    /\ UNCHANGED <<world, entered, recoveries, desk, lock, deaths, dropped>>

Publish(e, from, to, verb) ==
    /\ exec[e].at = from
    /\ told' = [told EXCEPT ![exec[e].hand][verb] = @ + 1]
    /\ exec' = [exec EXCEPT ![e].at = to, ![e].hand = IF to = "RECOVERED" THEN @ ELSE 0]

PublishRaised(e) ==
    /\ Publish(e, "OPENED", "RAISE", "raised")
    /\ UNCHANGED <<world, entered, recoveries, alert, acking, lock, deaths, dropped>>

\* Mutant: the loop over the rows is left after one.
RaisedEarly(e) ==
    /\ exec[e].at = "RAISE"
    /\ exec' = [exec EXCEPT ![e] = IF exec[e].job = "ARRIVED" THEN Idle
                                   ELSE [@ EXCEPT !.at = "CLEAR_SELECT", !.todo = {}]]
    /\ UNCHANGED <<world, entered, recoveries, desk, lock, deaths, dropped>>

\* An arrival has no second half.
Raised(e) ==
    /\ exec[e].at = "RAISE" /\ exec[e].todo = {}
    /\ exec' = [exec EXCEPT ![e] = IF exec[e].job = "ARRIVED" THEN Idle
                                   ELSE [@ EXCEPT !.at = "CLEAR_SELECT"]]
    /\ UNCHANGED <<world, entered, recoveries, desk, lock, deaths, dropped>>

SelectOver(e) ==
    /\ exec[e].at = "CLEAR_SELECT"
    /\ exec' = [exec EXCEPT ![e].at = "CLEAR",
                            ![e].todo = ToClear(exec[e].job, exec[e].code)]
    /\ UNCHANGED <<world, entered, recoveries, desk, lock, deaths, dropped>>

\* kh.resolve_alert closes the open row, if there is one.
ClearOpen(e, i, a) ==
    /\ exec[e].at = "CLEAR" /\ i \in exec[e].todo
    /\ alert[a] # Free /\ alert[a].open
    /\ alert[a].s = i.s /\ alert[a].kind = i.kind
    /\ alert' = [alert EXCEPT ![a].open = FALSE]
    /\ exec' = [exec EXCEPT ![e].at = "RESOLVED", ![e].hand = a, ![e].todo = @ \ {i}]
    /\ UNCHANGED <<world, entered, recoveries, told, acking, lock, deaths, dropped>>

\* Mutant: what resolve_alert returned is not looked at.
ClearNoneLogged(e, i) ==
    /\ exec[e].at = "CLEAR" /\ i \in exec[e].todo
    /\ ~Open(i.s, i.kind)
    /\ recoveries' = [recoveries EXCEPT ![i.s] = @ + 1]
    /\ exec' = [exec EXCEPT ![e].todo = @ \ {i}]
    /\ UNCHANGED <<world, entered, desk, lock, deaths, dropped>>

ClearNone(e, i) ==
    /\ exec[e].at = "CLEAR" /\ i \in exec[e].todo
    /\ ~Open(i.s, i.kind)
    /\ exec' = [exec EXCEPT ![e].todo = @ \ {i}]
    /\ UNCHANGED <<world, entered, recoveries, desk, lock, deaths, dropped>>

\* clearAlert publishes ...
PublishResolved(e) ==
    /\ Publish(e, "RESOLVED",
               IF exec[e].job = "SIGNAL_LOST" THEN "RECOVERED" ELSE "CLEAR", "resolved")
    /\ UNCHANGED <<world, entered, recoveries, alert, acking, lock, deaths, dropped>>

\* ... and clearRecoveredSignals writes GPS_RECOVERED for the row's session.
LogRecovered(e) ==
    /\ exec[e].at = "RECOVERED"
    /\ LET s == alert[exec[e].hand].s IN
       recoveries' = [recoveries EXCEPT ![s] = @ + 1]
    /\ exec' = [exec EXCEPT ![e].at = "CLEAR", ![e].hand = 0]
    /\ UNCHANGED <<world, entered, desk, lock, deaths, dropped>>

Finish(e) ==
    /\ exec[e].at = "CLEAR" /\ exec[e].todo = {}
    /\ exec' = [exec EXCEPT ![e] = Idle]
    /\ UNCHANGED <<world, entered, recoveries, desk, lock, deaths, dropped>>

\* The execution still has to raise an arrival of s.
Owes(e, s) == /\ exec[e] # Idle /\ exec[e].job = "ARRIVED"
              /\ \E i \in exec[e].todo : i.s = s

\* A statement fails, or the process dies: the rest of the rows is dropped.
Die(e) ==
    /\ exec[e] # Idle
    /\ deaths < MaxDeaths
    /\ deaths' = deaths + 1
    /\ dropped' = dropped \cup {s \in Sessions : Owes(e, s)}
    /\ exec' = [exec EXCEPT ![e] = Idle]
    /\ UNCHANGED <<world, entered, recoveries, desk, lock>>

-----------------------------------------------------------------------------
(* The dispatchers                                                         *)

\* Mutant: the last writer wins.
AcknowledgeAgain(u, a) ==
    /\ alert[a] # Free
    /\ alert[a].kind \in AckKinds
    /\ alert' = [alert EXCEPT ![a].by = u]
    /\ acking' = acking \cup {a}
    /\ UNCHANGED <<world, entered, recoveries, told, jobs>>

\* acknowledge: the UPDATE asks acknowledged_at IS NULL, open or not.
Acknowledge(u, a) ==
    /\ alert[a] # Free /\ alert[a].by = NoUser
    /\ alert[a].kind \in AckKinds
    /\ alert' = [alert EXCEPT ![a].by = u]
    /\ acking' = acking \cup {a}
    /\ UNCHANGED <<world, entered, recoveries, told, jobs>>

\* After the second select, and only by the call that claimed the row.
PublishAcknowledged(a) ==
    /\ a \in acking
    /\ acking' = acking \ {a}
    /\ told' = [told EXCEPT ![a]["acknowledged"] = @ + 1]
    /\ UNCHANGED <<world, entered, recoveries, alert, jobs>>

\* The second select fails.
AcknowledgeFails(a) ==
    /\ a \in acking
    /\ acking' = acking \ {a}
    /\ UNCHANGED <<world, entered, recoveries, alert, told, jobs>>

-----------------------------------------------------------------------------
World ==
    \/ \E s \in Sessions :
          \/ \E withFix \in BOOLEAN : Start(s, withFix)
          \/ Pause(s) \/ Resume(s) \/ Regenerate(s) \/ CloseSession(s)
          \/ \E level \in {"LOW", "MID", "OK"}, at \in BOOLEAN :
                Fix(s, level, at)
          \/ Silence(s) \/ Wait(s) \/ PauseLasts(s) \/ EventAges(s)
          \/ \E b \in 1..MaxVersion : Report(s, b)
    \/ Announce \/ GraceEnds

\* What an execution does when nothing stops it.
Step(e) ==
    \/ TooEarly(e) \/ SelectDue(e) \/ PublishRaised(e) \/ Raised(e)
    \/ SelectOver(e) \/ PublishResolved(e) \/ LogRecovered(e) \/ Finish(e)
    \/ \E i \in exec[e].todo :
          \/ RaiseKnown(e, i) \/ ClearNone(e, i)
          \/ \E a \in AlertIds : RaiseNew(e, i, a) \/ ClearOpen(e, i, a)

Next ==
    \/ World
    \/ \E e \in Executions : (exec[e] # Idle /\ Step(e)) \/ Die(e)
    \/ \E e \in Executions, job \in Jobs : Tick(e, job)
    \/ \E job \in Jobs : LockExpires(job)
    \/ \E a \in AlertIds :
          \/ \E u \in Users : Acknowledge(u, a)
          \/ PublishAcknowledged(a) \/ AcknowledgeFails(a)

Spec == Init /\ [][Next]_vars

\* Cron fires for ever and Redis lets keys run out; an execution that is not
\* stopped goes on.  SF for the ticks: the bound on executions is not the code's.
Fairness ==
    /\ \A e \in Executions : WF_vars(exec[e] # Idle /\ Step(e))
    /\ \A job \in Jobs : /\ WF_vars(LockExpires(job))
                         /\ SF_vars(\E e \in Executions : Tick(e, job))

FairSpec == Spec /\ Fairness

-----------------------------------------------------------------------------
(* Properties                                                              *)

\* Each transition of an alert is published at most once, however many
\* executions and dispatchers meet on its row.
TellsOnce == \A a \in AlertIds, v \in Verbs : told[a][v] <= 1

\* One GPS_RECOVERED at most for each silence that ended: the RETURNING of
\* kh.resolve_alert gives the row to one caller only.
RecoveryPerOutage == \A s \in Sessions :
    recoveries[s] <= Cardinality({a \in AlertIds : alert[a] # Free
        /\ alert[a].s = s /\ alert[a].kind = "SIGNAL_LOST" /\ ~alert[a].open})

\* An arrival that is logged, and so not looked for again for six hours, is on
\* the desk, about to be, or was in the hands of an execution that stopped.
ArrivalReachesDesk == \A s \in Sessions : entered[s] =>
    \/ \E a \in AlertIds : alert[a] # Free /\ alert[a].s = s /\ alert[a].kind = "ARRIVED"
    \/ \E e \in Executions : Owes(e, s)
    \/ s \in dropped \/ ~Room

\* Two executions of one job run side by side only after a lock ran out under
\* the first.
OneRunnerPerJob == \A e, f \in Executions :
    (e # f /\ exec[e] # Idle /\ exec[f] # Idle /\ exec[e].job = exec[f].job)
        => exec[e].late \/ exec[f].late

\* Whatever executions and dispatchers meet on an alert, the jobs keep it in order.
JobsAreOrderly ==
    TellsOnce /\ RecoveryPerOutage /\ ArrivalReachesDesk /\ OneRunnerPerJob

Judged(kind) == kind = "APP_OUTDATED" => ~grace /\ released > 0

\* A condition that lasts is on the desk in the end, whatever executions
\* overlapped or stopped ...
NothingIsMissed == \A s \in Sessions :
    <>[](Room /\ \A kind \in watch[s] : Due(s, kind, released) /\ Judged(kind))
        => <>[](\A kind \in watch[s] : Open(s, kind))

\* ... and one that is over, or whose shipment is, leaves it: no row raised from
\* an old select stays open for ever.
NothingLingers == \A s \in Sessions :
    <>[](\/ ship[s].status = "CLOSED"
         \/ \A kind \in watch[s] : Over(s, kind, released) /\ Judged(kind))
        => <>[](\A kind \in watch[s] : ~Open(s, kind))

\* The desk catches up with the fleet, whichever runs and locks were lost.
DeskCatchesUp == NothingIsMissed /\ NothingLingers

\* "WARNING for the first hour, CRITICAL after" (raisePausedAlerts).
CriticalAfterAnHour == \A s \in Sessions :
    (Open(s, "PAUSED_TOO_LONG") /\ ship[s].pause = "HOUR" /\ ship[s].status = "PAUSED")
      ~> \/ ship[s].status # "PAUSED"
         \/ \E a \in AlertIds : alert[a] # Free /\ alert[a].open /\ alert[a].s = s
              /\ alert[a].kind = "PAUSED_TOO_LONG" /\ alert[a].severity = "CRITICAL"

=============================================================================

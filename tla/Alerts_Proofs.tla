---------------------------- MODULE Alerts_Proofs ----------------------------
(***************************************************************************)
(* Theorems about kh.alerts and the jobs that write it, for any number of  *)
(* sessions, dispatchers and executions, any lock that runs out early and  *)
(* any execution that stops half-way.                                      *)
(*                                                                         *)
(* The invariant follows an execution through its two halves: what its     *)
(* list may hold (Progress), which row is in its hand and what is not yet  *)
(* told of that row (InHand), and that two executions never hold one row   *)
(* for the same purpose (Apart), which is what the RETURNING of            *)
(* kh.raise_alert and kh.resolve_alert gives.                              *)
(*                                                                         *)
(* The second half is the bell that reads those rows (AlertDesk): DeskInv  *)
(* says of each query what on its way will bring it up to date.            *)
(***************************************************************************)
EXTENDS MCAlertDesk, FiniteSetTheorems, TLAPS

ExecRec == [at : Phases, job : Jobs, todo : SUBSET (Item \cup Pair),
            hand : AlertIds \cup {0}, code : 0..MaxVersion, late : BOOLEAN]

Holding == {"OPENED", "RESOLVED", "RECOVERED"}
Clearing == {"RESOLVED", "RECOVERED"}
Busy(e) == exec[e] # Idle
Known(a) == alert[a] # Free

Progress(e) == Busy(e) =>
    /\ exec[e].at = "RAISE_SELECT" => exec[e].todo = {}
    /\ exec[e].at \in {"RAISE", "OPENED"} =>
          exec[e].todo \in SUBSET Item /\ \A i \in exec[e].todo : i.kind = exec[e].job
    /\ exec[e].at \in {"CLEAR", "RESOLVED", "RECOVERED"} =>
          /\ exec[e].todo \in SUBSET Pair
          /\ exec[e].job # Close => \A i \in exec[e].todo : i.kind = exec[e].job
    /\ exec[e].job = "ARRIVED" => exec[e].at \in {"RAISE_SELECT", "RAISE", "OPENED"}
    /\ exec[e].job = Close => exec[e].at \in {"CLEAR_SELECT", "CLEAR", "RESOLVED"}
    /\ exec[e].at = "RECOVERED" => exec[e].job = "SIGNAL_LOST"

InHand(e) == Busy(e) /\ exec[e].at \in Holding =>
    /\ exec[e].hand \in AlertIds /\ Known(exec[e].hand)
    /\ exec[e].at = "OPENED" => told[exec[e].hand]["raised"] = 0
    /\ exec[e].at = "RESOLVED" => told[exec[e].hand]["resolved"] = 0
    /\ exec[e].at \in Clearing =>
          /\ ~alert[exec[e].hand].open
          /\ exec[e].job = "SIGNAL_LOST" => alert[exec[e].hand].kind = "SIGNAL_LOST"

Apart(e, f) == (Busy(e) /\ Busy(f) /\ exec[e].hand = exec[f].hand) =>
    /\ ~(exec[e].at = "OPENED" /\ exec[f].at = "OPENED")
    /\ ~(exec[e].at \in Clearing /\ exec[f].at \in Clearing)

RowsFit == \A a \in AlertIds :
    /\ ~Known(a) => a \notin acking /\ \A v \in Verbs : told[a][v] = 0
    /\ Known(a) => /\ alert[a].open => told[a]["resolved"] = 0
                   /\ alert[a].by = NoUser => a \notin acking /\ told[a]["acknowledged"] = 0
    /\ a \in acking => told[a]["acknowledged"] = 0

RecoveryOwed(a) == \E e \in Executions :
    Busy(e) /\ exec[e].at \in Clearing /\ exec[e].job = "SIGNAL_LOST" /\ exec[e].hand = a

Logged(s) == {a \in AlertIds : /\ Known(a) /\ alert[a].s = s
    /\ alert[a].kind = "SIGNAL_LOST" /\ ~alert[a].open /\ ~RecoveryOwed(a)}

Recoveries == \A s \in Sessions : recoveries[s] <= Cardinality(Logged(s))

Hands == /\ \A e \in Executions : Progress(e) /\ InHand(e)
         /\ \A e, f \in Executions : e # f => Apart(e, f)

Locked == \A e \in Executions : Busy(e) => exec[e].late \/ exec[e].job \in lock

Telling == Hands /\ RowsFit /\ TellsOnce

IInv == TypeOK /\ Telling /\ Recoveries /\ ArrivalReachesDesk /\ Locked /\ OneRunnerPerJob

-----------------------------------------------------------------------------
(* Records.                                                                *)

LEMMA RowIsNotFree == \A r \in Row : r # Free
<1>. SUFFICES ASSUME NEW r \in Row PROVE r # Free
  OBVIOUS
<1>1. "kind" \in DOMAIN r
  BY DEF Row
<1>2. "kind" \notin DOMAIN Free
  BY DEF Free
<1>. QED
  BY <1>1, <1>2

LEMMA RecIsNotIdle == \A r \in ExecRec : r # Idle
<1>. SUFFICES ASSUME NEW r \in ExecRec PROVE r # Idle
  OBVIOUS
<1>1. r.at \in Phases
  BY DEF ExecRec
<1>. QED
  BY <1>1 DEF Idle, Phases

LEMMA ExecTypes ==
  ASSUME TypeOK, NEW e \in Executions
  PROVE  /\ Busy(e) => exec[e] \in ExecRec
         /\ exec[e].at \in Phases => Busy(e)
  BY DEF TypeOK, Busy, ExecRec, Idle, Phases

LEMMA AlertTypes ==
  ASSUME TypeOK, NEW a \in AlertIds
  PROVE  Known(a) => alert[a] \in Row
  BY DEF TypeOK, Known

LEMMA Kinds4 == Kinds \subseteq AllKinds /\ Close \notin Kinds
  BY KindAssumption DEF AllKinds, Close

-----------------------------------------------------------------------------
(* Types.                                                                  *)

LEMMA InitTypes == Init => TypeOK
<1>. SUFFICES ASSUME Init PROVE TypeOK
  OBVIOUS
<1>1. MaxAlerts \in Nat /\ MaxVersion \in Nat \ {0} /\ MaxDeaths \in Nat
  BY BoundAssumption
<1>2. ship \in [Sessions -> Ship]
  <2>1. \A b \in BOOLEAN : [status |-> "ASSIGNED", started |-> FALSE,
          fix |-> "NONE", battery |-> "OK", waited |-> FALSE, pause |-> "NEW",
          settled |-> b, there |-> FALSE, build |-> 0] \in Ship
    BY <1>1 DEF Ship
  <2>. QED
    BY <2>1 DEF Init
<1>3. watch \in [Sessions -> SUBSET Kinds]
  BY WatchAssumption DEF Init
<1>4. /\ recoveries \in [Sessions -> Nat] /\ told \in [AlertIds -> [Verbs -> Nat]]
      /\ alert \in [AlertIds -> Row \cup {Free}]
      /\ exec \in [Executions -> {Idle} \cup ExecRec]
  BY DEF Init
<1>5. /\ released = 0 /\ grace = FALSE /\ lock = {} /\ acking = {} /\ deaths = 0 /\ dropped = {}
      /\ entered = [s \in Sessions |-> FALSE]
  BY DEF Init
<1>6. /\ released \in 0..MaxVersion /\ deaths \in 0..MaxDeaths
      /\ lock \subseteq Jobs /\ acking \subseteq AlertIds /\ dropped \subseteq Sessions
  BY <1>1, <1>5
<1>7. grace \in BOOLEAN /\ entered \in [Sessions -> BOOLEAN]
  BY <1>5
<1>. QED
  BY <1>2, <1>3, <1>4, <1>6, <1>7, Zenon DEF TypeOK, ExecRec

OtherVars == <<recoveries, alert, told, lock, exec, acking, deaths, dropped>>

\* What happens to a shipment or its phone.
ShipStep(s) ==
    \/ \E withFix \in BOOLEAN : Start(s, withFix)
    \/ Pause(s) \/ Resume(s) \/ Regenerate(s) \/ CloseSession(s)
    \/ \E level \in {"LOW", "MID", "OK"}, at \in BOOLEAN : Fix(s, level, at)
    \/ Silence(s) \/ Wait(s) \/ PauseLasts(s)
    \/ \E b \in 1..MaxVersion : Report(s, b)

LEMMA ShipTypes ==
  ASSUME NEW s \in Sessions, ship \in [Sessions -> Ship], released \in 0..MaxVersion,
         ShipStep(s)
  PROVE  ship' \in [Sessions -> Ship]
<1>0. ship[s] \in Ship /\ MaxVersion \in Nat /\ 0 \in 0..MaxVersion
  BY BoundAssumption
<1>1. ASSUME NEW withFix \in BOOLEAN, Start(s, withFix) PROVE ship' \in [Sessions -> Ship]
  <2>. DEFINE r == [ship[s] EXCEPT !.status = "ACTIVE", !.started = TRUE,
                                 !.fix = IF withFix THEN "FRESH" ELSE @]
  <2>1. r \in Ship
    BY <1>0 DEF Ship
  <2>2. ship' = [ship EXCEPT ![s] = r]
    BY <1>1 DEF Start
  <2>. HIDE DEF r
  <2>. QED
    BY <2>1, <2>2
<1>2. CASE Pause(s)
  <2>. DEFINE r == [ship[s] EXCEPT !.status = "PAUSED"]
  <2>1. r \in Ship
    BY <1>0 DEF Ship
  <2>2. ship' = [ship EXCEPT ![s] = r]
    BY <1>2 DEF Pause
  <2>. HIDE DEF r
  <2>. QED
    BY <2>1, <2>2
<1>3. CASE Resume(s)
  <2>. DEFINE r == [ship[s] EXCEPT !.status = "ACTIVE", !.pause = "NEW"]
  <2>1. r \in Ship
    BY <1>0 DEF Ship
  <2>2. ship' = [ship EXCEPT ![s] = r]
    BY <1>3 DEF Resume
  <2>. HIDE DEF r
  <2>. QED
    BY <2>1, <2>2
<1>4. CASE Regenerate(s)
  <2>. DEFINE r == [ship[s] EXCEPT !.status = "ASSIGNED", !.build = 0, !.pause = "NEW"]
  <2>1. r \in Ship
    BY <1>0 DEF Ship
  <2>2. ship' = [ship EXCEPT ![s] = r]
    BY <1>4 DEF Regenerate
  <2>. HIDE DEF r
  <2>. QED
    BY <2>1, <2>2
<1>5. CASE CloseSession(s)
  <2>. DEFINE r == [ship[s] EXCEPT !.status = "CLOSED", !.pause = "NEW"]
  <2>1. r \in Ship
    BY <1>0 DEF Ship
  <2>2. ship' = [ship EXCEPT ![s] = r]
    BY <1>5 DEF CloseSession
  <2>. HIDE DEF r
  <2>. QED
    BY <2>1, <2>2
<1>6. ASSUME NEW level \in {"LOW", "MID", "OK"}, NEW at \in BOOLEAN, Fix(s, level, at)
      PROVE  ship' \in [Sessions -> Ship]
  <2>. DEFINE r == [ship[s] EXCEPT !.fix = "FRESH", !.battery = level, !.there = at]
  <2>1. r \in Ship
    BY <1>0 DEF Ship
  <2>2. ship' = [ship EXCEPT ![s] = r]
    BY <1>6 DEF Fix
  <2>. HIDE DEF r
  <2>. QED
    BY <2>1, <2>2
<1>7. CASE Silence(s)
  <2>. DEFINE r == [ship[s] EXCEPT !.fix = "SILENT"]
  <2>1. r \in Ship
    BY <1>0 DEF Ship
  <2>2. ship' = [ship EXCEPT ![s] = r]
    BY <1>7 DEF Silence
  <2>. HIDE DEF r
  <2>. QED
    BY <2>1, <2>2
<1>8. CASE Wait(s)
  <2>. DEFINE r == [ship[s] EXCEPT !.waited = TRUE]
  <2>1. r \in Ship
    BY <1>0 DEF Ship
  <2>2. ship' = [ship EXCEPT ![s] = r]
    BY <1>8 DEF Wait
  <2>. HIDE DEF r
  <2>. QED
    BY <2>1, <2>2
<1>9. CASE PauseLasts(s)
  <2>. DEFINE r == [ship[s] EXCEPT !.pause = IF @ = "NEW" THEN "LONG" ELSE "HOUR"]
  <2>1. r \in Ship
    BY <1>0 DEF Ship
  <2>2. ship' = [ship EXCEPT ![s] = r]
    BY <1>9 DEF PauseLasts
  <2>. HIDE DEF r
  <2>. QED
    BY <2>1, <2>2
<1>10. ASSUME NEW b \in 1..MaxVersion, Report(s, b) PROVE ship' \in [Sessions -> Ship]
  <2>. DEFINE r == [ship[s] EXCEPT !.build = b]
  <2>1. r \in Ship
    BY <1>0 DEF Ship
  <2>2. ship' = [ship EXCEPT ![s] = r]
    BY <1>10 DEF Report
  <2>. HIDE DEF r
  <2>. QED
    BY <2>1, <2>2
<1>. QED
  BY <1>1, <1>2, <1>3, <1>4, <1>5, <1>6, <1>7, <1>8, <1>9, <1>10 DEF ShipStep

LEMMA ShipMoves ==
  ASSUME TypeOK, NEW s \in Sessions, ShipStep(s)
  PROVE  /\ ship' \in [Sessions -> Ship]
         /\ UNCHANGED <<watch, released, grace, entered, OtherVars>>
<1>1. ship' \in [Sessions -> Ship]
  <2>1. ship \in [Sessions -> Ship] /\ released \in 0..MaxVersion
    BY DEF TypeOK
  <2>. QED
    BY <2>1, ShipTypes
<1>2. UNCHANGED <<watch, released, grace, entered, OtherVars>>
  BY DEF ShipStep, Start, Pause, Resume, Regenerate, CloseSession, Fix, Silence, Wait,
     PauseLasts, Report, Still, OtherVars, desk, jobs
<1>. QED
  BY <1>1, <1>2

\* Shipments, phones and time move nothing of the jobs and dispatchers.
LEMMA WorldMoves ==
  ASSUME TypeOK, World
  PROVE  /\ TypeOK' /\ UNCHANGED OtherVars
         /\ \A s \in Sessions : entered'[s] => entered[s]
<1>1. ASSUME NEW s \in Sessions, ShipStep(s)
      PROVE  /\ TypeOK' /\ UNCHANGED OtherVars
             /\ \A t \in Sessions : entered'[t] => entered[t]
  BY <1>1, ShipMoves DEF TypeOK, OtherVars
<1>2. ASSUME NEW s \in Sessions, EventAges(s)
      PROVE  /\ TypeOK' /\ UNCHANGED OtherVars
             /\ \A t \in Sessions : entered'[t] => entered[t]
  <2>1. UNCHANGED <<watch, ship, released, grace, OtherVars>>
    BY <1>2 DEF EventAges, world, OtherVars, desk, jobs
  <2>2. entered \in [Sessions -> BOOLEAN] /\ entered' = [entered EXCEPT ![s] = FALSE]
    BY <1>2 DEF EventAges, TypeOK
  <2>3. /\ entered' \in [Sessions -> BOOLEAN]
        /\ \A t \in Sessions : entered'[t] => entered[t]
    BY <2>2
  <2>. QED
    BY <2>1, <2>3 DEF TypeOK, OtherVars
<1>3. ASSUME Announce \/ GraceEnds
      PROVE  /\ TypeOK' /\ UNCHANGED OtherVars
             /\ \A t \in Sessions : entered'[t] => entered[t]
  <2>1. UNCHANGED <<watch, ship, entered, OtherVars>>
    BY <1>3 DEF Announce, GraceEnds, Still, OtherVars, desk, jobs
  <2>2. released \in 0..MaxVersion /\ MaxVersion \in Nat /\ grace \in BOOLEAN
    BY BoundAssumption DEF TypeOK
  <2>3. released' \in 0..MaxVersion /\ grace' \in BOOLEAN
    <3>1. CASE Announce
      BY <2>2, <3>1 DEF Announce
    <3>2. CASE GraceEnds
      BY <2>2, <3>2 DEF GraceEnds
    <3>. QED
      BY <1>3, <3>1, <3>2
  <2>. QED
    BY <2>1, <2>3 DEF TypeOK, OtherVars
<1>. QED
  BY <1>1, <1>2, <1>3 DEF World, ShipStep

-----------------------------------------------------------------------------
(* What a step makes of its execution.                                     *)

ExecType == exec' \in [Executions -> {Idle} \cup ExecRec]

Stopped(e) ==
    /\ ExecType /\ exec'[e] = Idle
    /\ \A f \in Executions \ {e} : exec'[f] = exec[f]

Became(e, at, todo, hand) ==
    /\ ExecType /\ exec'[e] \in ExecRec
    /\ exec'[e].at = at /\ exec'[e].todo = todo /\ exec'[e].hand = hand
    /\ exec'[e].job = exec[e].job /\ exec'[e].late = exec[e].late
    /\ \A f \in Executions \ {e} : exec'[f] = exec[f]

LEMMA Stops ==
  ASSUME TypeOK, NEW e \in Executions, exec' = [exec EXCEPT ![e] = Idle]
  PROVE  Stopped(e)
<1>1. exec \in [Executions -> {Idle} \cup ExecRec]
  BY DEF TypeOK, ExecRec
<1>. QED
  BY <1>1 DEF Stopped, ExecType

LEMMA Becomes ==
  ASSUME TypeOK, NEW e \in Executions, NEW r \in ExecRec, exec' = [exec EXCEPT ![e] = r],
         r.job = exec[e].job, r.late = exec[e].late,
         NEW at, NEW todo, NEW hand, r.at = at, r.todo = todo, r.hand = hand
  PROVE  Became(e, at, todo, hand)
<1>1. exec \in [Executions -> {Idle} \cup ExecRec]
  BY DEF TypeOK, ExecRec
<1>2. exec'[e] = r /\ ExecType /\ \A f \in Executions \ {e} : exec'[f] = exec[f]
  BY <1>1 DEF ExecType
<1>. QED
  BY <1>2 DEF Became

LEMMA Fields ==
  ASSUME NEW r \in ExecRec
  PROVE  /\ r.at \in Phases /\ r.job \in Jobs /\ r.todo \in SUBSET (Item \cup Pair)
         /\ r.hand \in AlertIds \cup {0} /\ r.code \in 0..MaxVersion /\ r.late \in BOOLEAN
  BY DEF ExecRec

LEMMA ListTypes ==
  \A job, code : ToRaise(job, code) \in SUBSET Item /\ ToClear(job, code) \in SUBSET Pair
  BY DEF ToRaise, ToClear

\* The steps that touch nothing but the execution and, for arrivals, the log.
LEMMA QuietMoves ==
  ASSUME TypeOK, NEW e \in Executions, Busy(e)
  PROVE  /\ TooEarly(e) => Stopped(e)
         /\ Finish(e) => Stopped(e)
         /\ Die(e) => Stopped(e)
         /\ Raised(e) => IF exec[e].job = "ARRIVED" THEN Stopped(e)
                         ELSE Became(e, "CLEAR_SELECT", exec[e].todo, exec[e].hand)
         /\ SelectDue(e) => Became(e, "RAISE", ToRaise(exec[e].job, released), exec[e].hand)
         /\ SelectOver(e) =>
               Became(e, "CLEAR", ToClear(exec[e].job, exec[e].code), exec[e].hand)
         /\ \A i : RaiseKnown(e, i) \/ ClearNone(e, i) =>
               Became(e, exec[e].at, exec[e].todo \ {i}, exec[e].hand)
<1>0. exec[e] \in ExecRec
  BY ExecTypes
<1>a. /\ exec[e].at \in Phases /\ exec[e].todo \in SUBSET (Item \cup Pair)
      /\ exec[e].hand \in AlertIds \cup {0} /\ exec[e].code \in 0..MaxVersion
  BY <1>0, Fields
<1>1. Phases = {"RAISE_SELECT", "RAISE", "OPENED", "CLEAR_SELECT", "CLEAR", "RESOLVED",
                "RECOVERED"} /\ released \in 0..MaxVersion
  BY DEF Phases, TypeOK
<1>2. TooEarly(e) \/ Finish(e) \/ Die(e) => Stopped(e)
  BY Stops DEF TooEarly, Finish, Die
<1>3. ASSUME Raised(e), exec[e].job = "ARRIVED" PROVE Stopped(e)
  BY <1>3, Stops DEF Raised
<1>4. ASSUME Raised(e), exec[e].job # "ARRIVED"
      PROVE  Became(e, "CLEAR_SELECT", exec[e].todo, exec[e].hand)
  <2>. DEFINE r == [exec[e] EXCEPT !.at = "CLEAR_SELECT"]
  <2>1. exec' = [exec EXCEPT ![e] = r]
    BY <1>4 DEF Raised
  <2>2. exec[e].todo \in SUBSET (Item \cup Pair)
    BY <1>a
  <2>3. /\ r \in ExecRec /\ r.job = exec[e].job /\ r.late = exec[e].late
        /\ r.at = "CLEAR_SELECT" /\ r.todo = exec[e].todo /\ r.hand = exec[e].hand
    BY <1>0, <1>1, <1>a, <2>2 DEF ExecRec
  <2>. HIDE DEF r
  <2>4. Became(e, "CLEAR_SELECT", exec[e].todo, exec[e].hand)
    BY <2>1, <2>3, Becomes
  <2>. QED
    BY <2>4
<1>5. ASSUME SelectDue(e)
      PROVE  Became(e, "RAISE", ToRaise(exec[e].job, released), exec[e].hand)
  <2>. DEFINE T == ToRaise(exec[e].job, released)
              r == [exec[e] EXCEPT !.at = "RAISE", !.todo = T, !.code = released]
  <2>1. exec' = [exec EXCEPT ![e] = r]
    BY <1>5 DEF SelectDue
  <2>2. T \in SUBSET (Item \cup Pair)
    BY ListTypes
  <2>. HIDE DEF T
  <2>3. /\ r \in ExecRec /\ r.job = exec[e].job /\ r.late = exec[e].late
        /\ r.at = "RAISE" /\ r.todo = T /\ r.hand = exec[e].hand
    BY <1>0, <1>1, <1>a, <2>2 DEF ExecRec
  <2>. HIDE DEF r
  <2>4. Became(e, "RAISE", T, exec[e].hand)
    BY <2>1, <2>3, Becomes
  <2>. QED
    BY <2>4 DEF T
<1>6. ASSUME SelectOver(e)
      PROVE  Became(e, "CLEAR", ToClear(exec[e].job, exec[e].code), exec[e].hand)
  <2>. DEFINE T == ToClear(exec[e].job, exec[e].code)
              r == [exec[e] EXCEPT !.at = "CLEAR", !.todo = T]
  <2>1. exec' = [exec EXCEPT ![e] = r]
    BY <1>6 DEF SelectOver
  <2>2. T \in SUBSET (Item \cup Pair)
    BY ListTypes
  <2>. HIDE DEF T
  <2>3. /\ r \in ExecRec /\ r.job = exec[e].job /\ r.late = exec[e].late
        /\ r.at = "CLEAR" /\ r.todo = T /\ r.hand = exec[e].hand
    BY <1>0, <1>1, <1>a, <2>2 DEF ExecRec
  <2>. HIDE DEF r
  <2>4. Became(e, "CLEAR", T, exec[e].hand)
    BY <2>1, <2>3, Becomes
  <2>. QED
    BY <2>4 DEF T
<1>7. ASSUME NEW i, RaiseKnown(e, i) \/ ClearNone(e, i)
      PROVE  Became(e, exec[e].at, exec[e].todo \ {i}, exec[e].hand)
  <2>. DEFINE r == [exec[e] EXCEPT !.todo = @ \ {i}]
  <2>1. exec' = [exec EXCEPT ![e] = r]
    BY <1>7 DEF RaiseKnown, ClearNone
  <2>2. exec[e].todo \ {i} \in SUBSET (Item \cup Pair)
    BY <1>a
  <2>3. /\ r \in ExecRec /\ r.job = exec[e].job /\ r.late = exec[e].late
        /\ r.at = exec[e].at /\ r.todo = exec[e].todo \ {i} /\ r.hand = exec[e].hand
    BY <1>0, <1>1, <1>a, <2>2 DEF ExecRec
  <2>. HIDE DEF r
  <2>4. Became(e, exec[e].at, exec[e].todo \ {i}, exec[e].hand)
    BY <2>1, <2>3, Becomes
  <2>. QED
    BY <2>4
<1>. QED
  BY <1>2, <1>3, <1>4, <1>5, <1>6, <1>7

-----------------------------------------------------------------------------
(* What a step makes of the rows and of what was told of them.             *)

AlertType == alert' \in [AlertIds -> Row \cup {Free}]

Rewritten(a) ==
    /\ AlertType /\ alert'[a] \in Row
    /\ \A b \in AlertIds \ {a} : alert'[b] = alert[b]

Tells(a, v) ==
    /\ told' \in [AlertIds -> [Verbs -> Nat]]
    /\ told'[a][v] = told[a][v] + 1
    /\ \A b \in AlertIds, w \in Verbs : (b # a \/ w # v) => told'[b][w] = told[b][w]

LEMMA Rewrites ==
  ASSUME TypeOK, NEW a \in AlertIds, NEW r \in Row, alert' = [alert EXCEPT ![a] = r]
  PROVE  Rewritten(a) /\ alert'[a] = r
<1>1. alert \in [AlertIds -> Row \cup {Free}]
  BY DEF TypeOK
<1>. QED
  BY <1>1 DEF Rewritten, AlertType

LEMMA Telling1 ==
  ASSUME TypeOK, NEW a \in AlertIds, NEW v \in Verbs,
         told' = [told EXCEPT ![a][v] = @ + 1]
  PROVE  Tells(a, v)
<1>1. told \in [AlertIds -> [Verbs -> Nat]]
  BY DEF TypeOK
<1>. QED
  BY <1>1 DEF Tells

LEMMA RaiseMoves ==
  ASSUME TypeOK, NEW e \in Executions, Busy(e), Progress(e),
         NEW i, NEW a \in AlertIds, RaiseNew(e, i, a)
  PROVE  /\ Became(e, "OPENED", exec[e].todo \ {i}, a)
         /\ Rewritten(a) /\ ~Known(a)
         /\ alert'[a].open = TRUE /\ alert'[a].by = NoUser
<1>0. exec[e] \in ExecRec /\ exec[e].todo \ {i} \in SUBSET (Item \cup Pair) /\ i \in Item
  BY ExecTypes, Fields DEF Progress, RaiseNew
<1>1. Became(e, "OPENED", exec[e].todo \ {i}, a)
  <2>. DEFINE r == [exec[e] EXCEPT !.at = "OPENED", !.hand = a, !.todo = @ \ {i}]
  <2>1. exec' = [exec EXCEPT ![e] = r]
    BY DEF RaiseNew
  <2>2. /\ r \in ExecRec /\ r.job = exec[e].job /\ r.late = exec[e].late
        /\ r.at = "OPENED" /\ r.todo = exec[e].todo \ {i} /\ r.hand = a
    BY <1>0 DEF ExecRec, Phases
  <2>. HIDE DEF r
  <2>. QED
    BY <2>1, <2>2, Becomes
<1>2. Rewritten(a) /\ alert'[a].open = TRUE /\ alert'[a].by = NoUser
  <2>. DEFINE r == [s |-> i.s, kind |-> i.kind, severity |-> i.severity,
                    open |-> TRUE, by |-> NoUser]
  <2>1. alert' = [alert EXCEPT ![a] = r]
    BY DEF RaiseNew
  <2>2. r \in Row /\ r.open = TRUE /\ r.by = NoUser
    BY <1>0 DEF Row, Item
  <2>. HIDE DEF r
  <2>. QED
    BY <2>1, <2>2, Rewrites
<1>. QED
  BY <1>1, <1>2 DEF RaiseNew, NextId, Known

LEMMA ClearMoves ==
  ASSUME TypeOK, NEW e \in Executions, Busy(e),
         NEW i, NEW a \in AlertIds, ClearOpen(e, i, a)
  PROVE  /\ Became(e, "RESOLVED", exec[e].todo \ {i}, a)
         /\ Rewritten(a) /\ Known(a)
         /\ alert'[a].s = alert[a].s /\ alert'[a].kind = alert[a].kind
         /\ alert'[a].open = FALSE /\ alert'[a].by = alert[a].by
<1>0. /\ exec[e] \in ExecRec /\ exec[e].todo \ {i} \in SUBSET (Item \cup Pair)
      /\ Known(a) /\ alert[a] \in Row
  BY ExecTypes, AlertTypes, Fields DEF ClearOpen, Known
<1>1. Became(e, "RESOLVED", exec[e].todo \ {i}, a)
  <2>. DEFINE r == [exec[e] EXCEPT !.at = "RESOLVED", !.hand = a, !.todo = @ \ {i}]
  <2>1. exec' = [exec EXCEPT ![e] = r]
    BY DEF ClearOpen
  <2>2. /\ r \in ExecRec /\ r.job = exec[e].job /\ r.late = exec[e].late
        /\ r.at = "RESOLVED" /\ r.todo = exec[e].todo \ {i} /\ r.hand = a
    BY <1>0 DEF ExecRec, Phases
  <2>. HIDE DEF r
  <2>. QED
    BY <2>1, <2>2, Becomes
<1>2. /\ Rewritten(a) /\ alert'[a].s = alert[a].s /\ alert'[a].kind = alert[a].kind
      /\ alert'[a].open = FALSE /\ alert'[a].by = alert[a].by
  <2>. DEFINE r == [alert[a] EXCEPT !.open = FALSE]
  <2>1. alert' = [alert EXCEPT ![a] = r]
    BY DEF ClearOpen
  <2>2. /\ r \in Row /\ r.s = alert[a].s /\ r.kind = alert[a].kind
        /\ r.open = FALSE /\ r.by = alert[a].by
    BY <1>0 DEF Row
  <2>. HIDE DEF r
  <2>. QED
    BY <2>1, <2>2, Rewrites
<1>. QED
  BY <1>0, <1>1, <1>2

LEMMA PublishMoves ==
  ASSUME TypeOK, NEW e \in Executions, Busy(e), InHand(e),
         PublishRaised(e) \/ PublishResolved(e)
  PROVE  /\ exec[e].hand \in AlertIds
         /\ PublishRaised(e) => /\ exec[e].at = "OPENED" /\ Tells(exec[e].hand, "raised")
                                /\ Became(e, "RAISE", exec[e].todo, 0)
         /\ PublishResolved(e) =>
               /\ exec[e].at = "RESOLVED" /\ Tells(exec[e].hand, "resolved")
               /\ IF exec[e].job = "SIGNAL_LOST"
                  THEN Became(e, "RECOVERED", exec[e].todo, exec[e].hand)
                  ELSE Became(e, "CLEAR", exec[e].todo, 0)
<1>0. exec[e] \in ExecRec /\ exec[e].hand \in AlertIds
  BY ExecTypes DEF PublishRaised, PublishResolved, Publish, InHand, Holding
<1>a. exec[e].todo \in SUBSET (Item \cup Pair)
  BY <1>0, Fields
<1>1. ASSUME NEW from, NEW to \in Phases, NEW verb \in Verbs, Publish(e, from, to, verb)
      PROVE  /\ exec[e].at = from /\ Tells(exec[e].hand, verb)
             /\ Became(e, to, exec[e].todo, IF to = "RECOVERED" THEN exec[e].hand ELSE 0)
  <2>. DEFINE h == IF to = "RECOVERED" THEN exec[e].hand ELSE 0
              r == [exec[e] EXCEPT !.at = to, !.hand = h]
  <2>1. exec' = [exec EXCEPT ![e] = r]
    BY <1>1 DEF Publish
  <2>2. h \in AlertIds \cup {0}
    BY <1>0
  <2>. HIDE DEF h
  <2>3. /\ r \in ExecRec /\ r.job = exec[e].job /\ r.late = exec[e].late
        /\ r.at = to /\ r.todo = exec[e].todo /\ r.hand = h
    BY <1>0, <2>2 DEF ExecRec
  <2>. HIDE DEF r
  <2>4. Became(e, to, exec[e].todo, h)
    BY <2>1, <2>3, Becomes
  <2>5. Tells(exec[e].hand, verb)
    BY <1>0, <1>1, Telling1 DEF Publish
  <2>. QED
    BY <1>1, <2>4, <2>5 DEF Publish, h
<1>2. {"RAISE", "RECOVERED", "CLEAR"} \subseteq Phases /\ {"raised", "resolved"} \subseteq Verbs
  BY DEF Phases, Verbs
<1>3. ASSUME PublishRaised(e)
      PROVE  /\ exec[e].at = "OPENED" /\ Tells(exec[e].hand, "raised")
             /\ Became(e, "RAISE", exec[e].todo, 0)
  BY <1>1, <1>2, <1>3 DEF PublishRaised
<1>4. ASSUME PublishResolved(e), exec[e].job = "SIGNAL_LOST"
      PROVE  /\ exec[e].at = "RESOLVED" /\ Tells(exec[e].hand, "resolved")
             /\ Became(e, "RECOVERED", exec[e].todo, exec[e].hand)
  BY <1>1, <1>2, <1>4 DEF PublishResolved
<1>5. ASSUME PublishResolved(e), exec[e].job # "SIGNAL_LOST"
      PROVE  /\ exec[e].at = "RESOLVED" /\ Tells(exec[e].hand, "resolved")
             /\ Became(e, "CLEAR", exec[e].todo, 0)
  BY <1>1, <1>2, <1>5 DEF PublishResolved
<1>. QED
  BY <1>0, <1>3, <1>4, <1>5

LEMMA LogMoves ==
  ASSUME TypeOK, NEW e \in Executions, Busy(e), LogRecovered(e)
  PROVE  Became(e, "CLEAR", exec[e].todo, 0)
<1>0. exec[e] \in ExecRec
  BY ExecTypes
<1>. DEFINE r == [exec[e] EXCEPT !.at = "CLEAR", !.hand = 0]
<1>1. exec' = [exec EXCEPT ![e] = r]
  BY DEF LogRecovered
<1>2. /\ r \in ExecRec /\ r.job = exec[e].job /\ r.late = exec[e].late
      /\ r.at = "CLEAR" /\ r.todo = exec[e].todo /\ r.hand = 0
  BY <1>0 DEF ExecRec, Phases
<1>. HIDE DEF r
<1>. QED
  BY <1>1, <1>2, Becomes

LEMMA TickMoves ==
  ASSUME TypeOK, NEW e \in Executions, NEW job \in Jobs, Tick(e, job)
  PROVE  /\ ExecType /\ exec'[e] \in ExecRec
         /\ exec'[e].at = IF job = Close THEN "CLEAR_SELECT" ELSE "RAISE_SELECT"
         /\ exec'[e].todo = {} /\ exec'[e].job = job
         /\ \A f \in Executions \ {e} : exec'[f] = exec[f]
<1>. DEFINE r == [at |-> IF job = Close THEN "CLEAR_SELECT" ELSE "RAISE_SELECT",
                  job |-> job, todo |-> {}, hand |-> 0, code |-> 0, late |-> FALSE]
<1>1. exec' = [exec EXCEPT ![e] = r]
  BY DEF Tick
<1>2. 0 \in 0..MaxVersion
  BY BoundAssumption
<1>3. /\ r \in ExecRec /\ r.todo = {} /\ r.job = job
      /\ r.at = IF job = Close THEN "CLEAR_SELECT" ELSE "RAISE_SELECT"
  BY <1>2 DEF ExecRec, Phases
<1>. HIDE DEF r
<1>4. exec \in [Executions -> {Idle} \cup ExecRec]
  BY DEF TypeOK, ExecRec
<1>. QED
  BY <1>1, <1>3, <1>4 DEF ExecType

\* A lock that runs out leaves its execution where it is.
Alike(f) ==
    IF Busy(f)
    THEN /\ exec'[f] \in ExecRec
         /\ exec'[f].at = exec[f].at /\ exec'[f].todo = exec[f].todo
         /\ exec'[f].hand = exec[f].hand /\ exec'[f].job = exec[f].job
    ELSE exec'[f] = Idle

LEMMA ExpireMoves ==
  ASSUME TypeOK, NEW job \in Jobs, LockExpires(job)
  PROVE  /\ ExecType
         /\ \A f \in Executions :
               /\ Alike(f)
               /\ Busy(f) => exec'[f].late = (exec[f].late \/ exec[f].job = job)
<1>1. ASSUME NEW f \in Executions
      PROVE  /\ Alike(f)
             /\ Busy(f) => exec'[f].late = (exec[f].late \/ exec[f].job = job)
  <2>1. exec'[f] = IF Busy(f) /\ exec[f].job = job THEN [exec[f] EXCEPT !.late = TRUE]
                   ELSE exec[f]
    BY <1>1 DEF LockExpires, Busy
  <2>2. CASE Busy(f) /\ exec[f].job = job
    <3>. DEFINE r == [exec[f] EXCEPT !.late = TRUE]
    <3>1. exec[f] \in ExecRec
      BY <2>2, ExecTypes
    <3>2. /\ r \in ExecRec /\ r.at = exec[f].at /\ r.todo = exec[f].todo
          /\ r.hand = exec[f].hand /\ r.job = exec[f].job /\ r.late = TRUE
      BY <3>1 DEF ExecRec
    <3>3. exec'[f] = r
      BY <2>1, <2>2
    <3>. HIDE DEF r
    <3>. QED
      BY <2>2, <3>2, <3>3 DEF Alike
  <2>3. CASE Busy(f) /\ exec[f].job # job
    <3>1. exec[f] \in ExecRec /\ exec'[f] = exec[f]
      BY <2>1, <2>3, ExecTypes
    <3>2. exec[f].late \in BOOLEAN
      BY <3>1, Fields
    <3>. QED
      BY <2>3, <3>1, <3>2 DEF Alike
  <2>4. CASE ~Busy(f)
    BY <2>1, <2>4 DEF Alike, Busy
  <2>. QED
    BY <2>2, <2>3, <2>4
<1>2. ExecType
  <2>1. DOMAIN exec' = Executions /\ exec' = [f \in Executions |-> exec'[f]]
    BY DEF LockExpires
  <2>2. \A f \in Executions : exec'[f] \in {Idle} \cup ExecRec
    BY <1>1 DEF Alike
  <2>. QED
    BY <2>1, <2>2 DEF ExecType
<1>. QED
  BY <1>1, <1>2

LEMMA AcknowledgeMoves ==
  ASSUME TypeOK, NEW a \in AlertIds, NEW u \in Users, Acknowledge(u, a)
  PROVE  /\ Rewritten(a) /\ Known(a) /\ alert[a].by = NoUser
         /\ alert'[a].s = alert[a].s /\ alert'[a].kind = alert[a].kind
         /\ alert'[a].open = alert[a].open /\ alert'[a].by # NoUser
<1>0. Known(a) /\ alert[a] \in Row
  BY AlertTypes DEF Acknowledge, Known
<1>. DEFINE r == [alert[a] EXCEPT !.by = u]
<1>1. alert' = [alert EXCEPT ![a] = r]
  BY DEF Acknowledge
<1>2. /\ r \in Row /\ r.s = alert[a].s /\ r.kind = alert[a].kind
      /\ r.open = alert[a].open /\ r.by = u
  BY <1>0 DEF Row
<1>. HIDE DEF r
<1>. QED
  BY <1>0, <1>1, <1>2, Rewrites, UserAssumption DEF Acknowledge

AtDesk ==
    \E a \in AlertIds : \/ \E u \in Users : Acknowledge(u, a)
                        \/ PublishAcknowledged(a) \/ AcknowledgeFails(a)

LEMMA DeskMoves ==
  ASSUME TypeOK, AtDesk
  PROVE  /\ UNCHANGED <<world, entered, recoveries, lock, exec, deaths, dropped>>
         /\ AlertType /\ told' \in [AlertIds -> [Verbs -> Nat]] /\ acking' \subseteq AlertIds
         /\ \A b \in AlertIds :
               /\ Known(b) <=> alert'[b] # Free
               /\ Known(b) => /\ alert'[b] \in Row /\ alert'[b].open = alert[b].open
                              /\ alert'[b].s = alert[b].s /\ alert'[b].kind = alert[b].kind
         /\ \A b \in AlertIds : /\ told'[b]["raised"] = told[b]["raised"]
                                /\ told'[b]["resolved"] = told[b]["resolved"]
<1>0. /\ alert \in [AlertIds -> Row \cup {Free}] /\ acking \subseteq AlertIds
      /\ told \in [AlertIds -> [Verbs -> Nat]]
  BY DEF TypeOK
<1>1. ASSUME NEW a \in AlertIds, NEW u \in Users, Acknowledge(u, a)
      PROVE  /\ UNCHANGED <<world, entered, recoveries, told, lock, exec, deaths, dropped>>
             /\ acking' \subseteq AlertIds /\ Rewritten(a) /\ Known(a)
             /\ alert'[a].s = alert[a].s /\ alert'[a].kind = alert[a].kind
             /\ alert'[a].open = alert[a].open
  BY <1>0, <1>1, AcknowledgeMoves DEF Acknowledge, jobs
<1>2. ASSUME NEW a \in AlertIds, PublishAcknowledged(a)
      PROVE  /\ UNCHANGED <<world, entered, recoveries, alert, lock, exec, deaths, dropped>>
             /\ acking' \subseteq AlertIds /\ Tells(a, "acknowledged")
  BY <1>0, <1>2, Telling1 DEF PublishAcknowledged, jobs, Verbs
<1>3. ASSUME NEW a \in AlertIds, AcknowledgeFails(a)
      PROVE  /\ UNCHANGED <<world, entered, recoveries, alert, told, lock, exec, deaths, dropped>>
             /\ acking' \subseteq AlertIds
  BY <1>0, <1>3 DEF AcknowledgeFails, jobs
<1>4. \A b \in AlertIds : Known(b) => alert[b] \in Row
  BY AlertTypes
<1>5. "raised" \in Verbs /\ "resolved" \in Verbs
  BY DEF Verbs
<1>6. CASE \E a \in AlertIds, u \in Users : Acknowledge(u, a)
  <2>1. PICK a \in AlertIds, u \in Users : Acknowledge(u, a)
    BY <1>6
  <2>. QED
    BY <1>0, <1>1, <1>4, <2>1, RowIsNotFree DEF Rewritten, Known
<1>7. CASE \E a \in AlertIds : PublishAcknowledged(a)
  <2>1. PICK a \in AlertIds : PublishAcknowledged(a)
    BY <1>7
  <2>. QED
    BY <1>0, <1>2, <1>4, <1>5, <2>1 DEF Tells, Known, AlertType
<1>8. CASE \E a \in AlertIds : AcknowledgeFails(a)
  BY <1>0, <1>3, <1>4, <1>8 DEF Known, AlertType
<1>. QED
  BY <1>6, <1>7, <1>8 DEF AtDesk

-----------------------------------------------------------------------------
(* Every step keeps the types.                                             *)

\* The steps that leave the rows and what was told of them alone.
Quiet(e) ==
    \/ TooEarly(e) \/ SelectDue(e) \/ Raised(e) \/ SelectOver(e) \/ Finish(e) \/ Die(e)
    \/ \E i \in exec[e].todo : RaiseKnown(e, i) \/ ClearNone(e, i)

Loud(e) ==
    \/ PublishRaised(e) \/ PublishResolved(e) \/ LogRecovered(e)
    \/ \E i \in exec[e].todo, a \in AlertIds : RaiseNew(e, i, a) \/ ClearOpen(e, i, a)

LEMMA Parts ==
  ASSUME [Next]_vars
  PROVE  \/ UNCHANGED vars \/ World \/ AtDesk
         \/ \E e \in Executions : Busy(e) /\ (Quiet(e) \/ Loud(e))
         \/ \E e \in Executions, job \in Jobs : Tick(e, job)
         \/ \E job \in Jobs : LockExpires(job)
<1>1. CASE UNCHANGED vars
  BY <1>1
<1>2. ASSUME NEW e \in Executions, exec[e] # Idle, Step(e)
      PROVE  Busy(e) /\ (Quiet(e) \/ Loud(e))
  BY <1>2 DEF Busy, Step, Quiet, Loud
<1>3. ASSUME NEW e \in Executions, Die(e) PROVE Busy(e) /\ Quiet(e)
  BY <1>3 DEF Busy, Die, Quiet
<1>. QED
  BY <1>1, <1>2, <1>3 DEF Next, AtDesk

LEMMA QuietEffect ==
  ASSUME NEW e \in Executions, Quiet(e)
  PROVE  /\ UNCHANGED <<world, recoveries, desk, lock>>
         /\ ~SelectDue(e) => entered' = entered
         /\ ~Die(e) => UNCHANGED <<deaths, dropped>>
  BY DEF Quiet, TooEarly, SelectDue, Raised, SelectOver, Finish, Die, RaiseKnown, ClearNone

\* Where a quiet step leaves its execution.
LEMMA QuietExec ==
  ASSUME TypeOK, NEW e \in Executions, Busy(e), Quiet(e), Progress(e)
  PROVE  /\ ExecType
         /\ \A f \in Executions \ {e} : exec'[f] = exec[f]
         /\ exec'[e] # Idle => /\ exec'[e].at \notin Holding
                               /\ exec'[e].job = exec[e].job
                               /\ exec'[e].late = exec[e].late
         /\ Progress(e)'
<1>0. exec[e] \in ExecRec
  BY ExecTypes
<1>1. ASSUME Stopped(e)
      PROVE  ExecType /\ Progress(e)' /\ exec'[e] = Idle
             /\ \A f \in Executions \ {e} : exec'[f] = exec[f]
  BY <1>1 DEF Stopped, Progress, Busy
<1>2. ASSUME NEW at, NEW todo, NEW hand, Became(e, at, todo, hand)
      PROVE  /\ ExecType /\ exec'[e].at = at /\ exec'[e].todo = todo
             /\ exec'[e].job = exec[e].job /\ exec'[e].late = exec[e].late
             /\ \A f \in Executions \ {e} : exec'[f] = exec[f]
  BY <1>2 DEF Became
<1>3. CASE TooEarly(e) \/ Finish(e) \/ Die(e)
  BY <1>1, <1>3, QuietMoves
<1>4. CASE Raised(e)
  <2>1. exec[e].at = "RAISE" /\ exec[e].todo = {}
    BY <1>4 DEF Raised
  <2>2. exec[e].job # Close
    BY <2>1 DEF Progress
  <2>3. CASE exec[e].job = "ARRIVED"
    BY <1>1, <1>4, <2>3, QuietMoves
  <2>4. CASE exec[e].job # "ARRIVED"
    <3>1. Became(e, "CLEAR_SELECT", exec[e].todo, exec[e].hand)
      BY <1>4, <2>4, QuietMoves
    <3>. QED
      BY <1>2, <2>2, <2>4, <3>1 DEF Progress, Holding
  <2>. QED
    BY <2>3, <2>4
<1>5. CASE SelectDue(e)
  <2>. DEFINE T == ToRaise(exec[e].job, released)
  <2>0. Became(e, "RAISE", T, exec[e].hand)
    BY <1>5, QuietMoves
  <2>1. Became(e, "RAISE", T, exec[e].hand) /\ exec[e].at = "RAISE_SELECT"
    BY <1>5, <2>0 DEF SelectDue
  <2>2. T \in SUBSET Item /\ \A i \in T : i.kind = exec[e].job
    BY DEF ToRaise
  <2>3. exec[e].job # Close
    BY <2>1 DEF Progress, Busy
  <2>. HIDE DEF T
  <2>. QED
    BY <1>2, <2>1, <2>2, <2>3 DEF Progress, Holding
<1>6. CASE SelectOver(e)
  <2>. DEFINE T == ToClear(exec[e].job, exec[e].code)
  <2>1. Became(e, "CLEAR", T, exec[e].hand) /\ exec[e].at = "CLEAR_SELECT"
    BY <1>6, QuietMoves DEF SelectOver
  <2>2. T \in SUBSET Pair /\ (exec[e].job # Close => \A i \in T : i.kind = exec[e].job)
    BY DEF ToClear
  <2>3. exec[e].job # "ARRIVED"
    BY <2>1 DEF Progress, Busy
  <2>. HIDE DEF T
  <2>. QED
    BY <1>2, <2>1, <2>2, <2>3 DEF Progress, Holding
<1>7. CASE \E i \in exec[e].todo : RaiseKnown(e, i) \/ ClearNone(e, i)
  <2>1. PICK i \in exec[e].todo : RaiseKnown(e, i) \/ ClearNone(e, i)
    BY <1>7
  <2>2. Became(e, exec[e].at, exec[e].todo \ {i}, exec[e].hand) /\ exec[e].at \in {"RAISE", "CLEAR"}
    BY <2>1, QuietMoves DEF RaiseKnown, ClearNone
  <2>. QED
    BY <1>2, <2>2 DEF Progress, Holding
<1>. QED
  BY <1>3, <1>4, <1>5, <1>6, <1>7 DEF Quiet

LEMMA QuietTypes ==
  ASSUME TypeOK, NEW e \in Executions, Busy(e), Quiet(e), Progress(e)
  PROVE  TypeOK'
<1>1. /\ UNCHANGED <<watch, ship, released, grace, recoveries, alert, told, acking, lock>>
      /\ ~SelectDue(e) => entered' = entered
      /\ ~Die(e) => UNCHANGED <<deaths, dropped>>
  BY QuietEffect DEF world, desk
<1>2. exec' \in [Executions -> {Idle} \cup ExecRec]
  BY QuietExec DEF ExecType
<1>3. entered' \in [Sessions -> BOOLEAN]
  <2>1. CASE SelectDue(e)
    <3>1. /\ entered \in [Sessions -> BOOLEAN]
          /\ entered' = [s \in Sessions |-> entered[s] \/
                (exec[e].job = "ARRIVED" /\ Due(s, exec[e].job, released))]
      BY <2>1 DEF SelectDue, TypeOK
    <3>. QED
      BY <3>1, Zenon
  <2>. QED
    BY <1>1, <2>1 DEF TypeOK
<1>4. deaths' \in 0..MaxDeaths /\ dropped' \subseteq Sessions
  <2>1. CASE Die(e)
    BY <2>1, BoundAssumption DEF Die, TypeOK
  <2>. QED
    BY <1>1, <2>1 DEF TypeOK
<1>. QED
  BY <1>1, <1>2, <1>3, <1>4, Zenon DEF TypeOK, ExecRec

LEMMA LoudEffect ==
  ASSUME NEW e \in Executions, Loud(e)
  PROVE  UNCHANGED <<watch, ship, released, grace, entered, acking, lock, deaths, dropped>>
<1>1. ASSUME NEW i, NEW a \in AlertIds, RaiseNew(e, i, a) \/ ClearOpen(e, i, a)
      PROVE  UNCHANGED <<watch, ship, released, grace, entered, acking, lock, deaths, dropped>>
  BY <1>1 DEF RaiseNew, ClearOpen, world
<1>2. ASSUME PublishRaised(e) \/ PublishResolved(e)
      PROVE  UNCHANGED <<watch, ship, released, grace, entered, acking, lock, deaths, dropped>>
  BY <1>2 DEF PublishRaised, PublishResolved, world
<1>3. ASSUME LogRecovered(e)
      PROVE  UNCHANGED <<watch, ship, released, grace, entered, acking, lock, deaths, dropped>>
  BY <1>3 DEF LogRecovered, world, desk
<1>. QED
  BY <1>1, <1>2, <1>3 DEF Loud

LEMMA LoudTypes ==
  ASSUME TypeOK, NEW e \in Executions, Busy(e), Loud(e), Progress(e), InHand(e)
  PROVE  TypeOK'
<1>1. UNCHANGED <<watch, ship, released, grace, entered, acking, lock, deaths, dropped>>
  BY LoudEffect
<1>2. /\ exec' \in [Executions -> {Idle} \cup ExecRec]
      /\ alert' \in [AlertIds -> Row \cup {Free}]
      /\ told' \in [AlertIds -> [Verbs -> Nat]]
      /\ recoveries' \in [Sessions -> Nat]
  <2>0. /\ alert \in [AlertIds -> Row \cup {Free}] /\ recoveries \in [Sessions -> Nat]
        /\ told \in [AlertIds -> [Verbs -> Nat]]
    BY DEF TypeOK
  <2>1. ASSUME NEW i, NEW a \in AlertIds, RaiseNew(e, i, a)
        PROVE  /\ ExecType /\ AlertType /\ UNCHANGED <<told, recoveries>>
    <3>1. ExecType /\ AlertType
      BY <2>1, RaiseMoves DEF Became, Rewritten
    <3>. QED
      BY <2>1, <3>1 DEF RaiseNew
  <2>2. ASSUME NEW i, NEW a \in AlertIds, ClearOpen(e, i, a)
        PROVE  /\ ExecType /\ AlertType /\ UNCHANGED <<told, recoveries>>
    <3>1. ExecType /\ AlertType
      BY <2>2, ClearMoves DEF Became, Rewritten
    <3>. QED
      BY <2>2, <3>1 DEF ClearOpen
  <2>3. ASSUME PublishRaised(e) \/ PublishResolved(e)
        PROVE  /\ ExecType /\ told' \in [AlertIds -> [Verbs -> Nat]]
               /\ UNCHANGED <<alert, recoveries>>
    <3>1. ExecType /\ told' \in [AlertIds -> [Verbs -> Nat]]
      BY <2>3, PublishMoves DEF Became, Tells
    <3>. QED
      BY <2>3, <3>1 DEF PublishRaised, PublishResolved
  <2>4. ASSUME LogRecovered(e)
        PROVE  /\ ExecType /\ UNCHANGED <<alert, told>> /\ recoveries' \in [Sessions -> Nat]
    <3>1. ExecType /\ UNCHANGED <<alert, told>>
      BY <2>4, LogMoves DEF Became, LogRecovered, desk
    <3>2. PICK s : recoveries' = [recoveries EXCEPT ![s] = recoveries[s] + 1]
      BY <2>4 DEF LogRecovered
    <3>3. \A t \in Sessions : recoveries'[t] \in Nat
      BY <2>0, <3>2
    <3>. QED
      BY <2>0, <3>1, <3>2, <3>3
  <2>. QED
    BY <2>0, <2>1, <2>2, <2>3, <2>4 DEF Loud, ExecType, AlertType
<1>. QED
  BY <1>1, <1>2, Zenon DEF TypeOK, ExecRec

LEMMA TypeStep ==
  ASSUME TypeOK, Hands, [Next]_vars
  PROVE  TypeOK'
<1>1. CASE UNCHANGED vars
  BY <1>1 DEF TypeOK, vars, world, desk, jobs
<1>2. CASE World
  BY <1>2, WorldMoves
<1>3. CASE AtDesk
  <2>1. /\ UNCHANGED <<watch, ship, released, grace, entered, recoveries, lock, exec, deaths, dropped>>
        /\ AlertType /\ told' \in [AlertIds -> [Verbs -> Nat]] /\ acking' \subseteq AlertIds
    BY <1>3, DeskMoves DEF world
  <2>. QED
    BY <2>1, Zenon DEF TypeOK, AlertType
<1>4. ASSUME NEW e \in Executions, Busy(e), Quiet(e) \/ Loud(e) PROVE TypeOK'
  BY <1>4, QuietTypes, LoudTypes DEF Hands
<1>5. ASSUME NEW e \in Executions, NEW job \in Jobs, Tick(e, job) PROVE TypeOK'
  <2>1. /\ ExecType
        /\ UNCHANGED <<watch, ship, released, grace, entered, recoveries, alert, told, acking,
                       deaths, dropped>>
    BY <1>5, TickMoves DEF Tick, world, desk
  <2>2. lock' \subseteq Jobs
    BY <1>5 DEF Tick, TypeOK
  <2>. QED
    BY <2>1, <2>2, Zenon DEF TypeOK, ExecType, ExecRec
<1>6. ASSUME NEW job \in Jobs, LockExpires(job) PROVE TypeOK'
  <2>1. /\ ExecType
        /\ UNCHANGED <<watch, ship, released, grace, entered, recoveries, alert, told, acking,
                       deaths, dropped>>
    BY <1>6, ExpireMoves DEF LockExpires, world, desk
  <2>2. lock' \subseteq Jobs
    BY <1>6 DEF LockExpires, TypeOK
  <2>. QED
    BY <2>1, <2>2, Zenon DEF TypeOK, ExecType, ExecRec
<1>. QED
  BY <1>1, <1>2, <1>3, <1>4, <1>5, <1>6, Parts

-----------------------------------------------------------------------------
(* What is told of a row, and whose hand it is in.                         *)

LEMMA QuietTelling ==
  ASSUME TypeOK, Telling, NEW e \in Executions, Busy(e), Quiet(e)
  PROVE  Telling'
<1>1. UNCHANGED <<alert, told, acking>>
  BY QuietEffect DEF desk
<1>2. /\ \A f \in Executions \ {e} : exec'[f] = exec[f]
      /\ exec'[e] # Idle => exec'[e].at \notin Holding
      /\ Progress(e)'
  BY QuietExec DEF Telling, Hands
<1>3. \A f \in Executions : Progress(f)'
  <2>1. ASSUME NEW f \in Executions \ {e} PROVE Progress(f)'
    <3>1. Progress(f) /\ exec'[f] = exec[f]
      BY <1>2 DEF Telling, Hands
    <3>. QED
      BY <3>1 DEF Progress, Busy
  <2>. QED
    BY <1>2, <2>1
<1>4. \A f \in Executions : InHand(f)'
  <2>1. InHand(e)'
    BY <1>2 DEF InHand, Busy
  <2>2. \A f \in Executions \ {e} : InHand(f)'
    BY <1>1, <1>2 DEF Telling, Hands, InHand, Busy, Known
  <2>. QED
    BY <2>1, <2>2
<1>5. \A f, g \in Executions : f # g => Apart(f, g)'
  BY <1>2 DEF Telling, Hands, Apart, Busy, Holding, Clearing
<1>6. RowsFit' /\ TellsOnce'
  BY <1>1 DEF Telling, RowsFit, TellsOnce, Known
<1>. QED
  BY <1>3, <1>4, <1>5, <1>6 DEF Telling, Hands

LEMMA RaiseTelling ==
  ASSUME TypeOK, Telling, NEW e \in Executions, Busy(e),
         NEW i, NEW a \in AlertIds, RaiseNew(e, i, a)
  PROVE  Telling'
<1>0. Progress(e) /\ exec[e].at = "RAISE"
  BY DEF Telling, Hands, RaiseNew
<1>1. /\ Became(e, "OPENED", exec[e].todo \ {i}, a) /\ Rewritten(a) /\ ~Known(a)
      /\ alert'[a].open = TRUE /\ alert'[a].by = NoUser
  BY <1>0, RaiseMoves
<1>2. UNCHANGED <<told, acking>>
  BY DEF RaiseNew
<1>3. /\ \A f \in Executions \ {e} : exec'[f] = exec[f]
      /\ exec'[e].at = "OPENED" /\ exec'[e].todo = exec[e].todo \ {i}
      /\ exec'[e].hand = a /\ exec'[e].job = exec[e].job /\ Busy(e)'
  BY <1>1, RecIsNotIdle DEF Became, Busy
<1>4. /\ \A b \in AlertIds \ {a} : alert'[b] = alert[b]
      /\ alert'[a] # Free /\ a \notin acking /\ \A v \in Verbs : told[a][v] = 0
  BY <1>1, RowIsNotFree DEF Rewritten, Telling, RowsFit
<1>5. \A f \in Executions : Progress(f)'
  <2>1. Progress(e)'
    BY <1>0, <1>3 DEF Progress, Busy
  <2>. QED
    BY <1>3, <2>1 DEF Telling, Hands, Progress, Busy
<1>6. \A f \in Executions \ {e} : Busy(f) /\ exec[f].at \in Holding => exec[f].hand # a
  BY <1>1 DEF Telling, Hands, InHand
<1>7. \A f \in Executions : InHand(f)'
  <2>1. InHand(e)'
    BY <1>2, <1>3, <1>4 DEF InHand, Known, Clearing, Verbs
  <2>2. \A f \in Executions \ {e} : InHand(f)'
    BY <1>2, <1>3, <1>4, <1>6 DEF Telling, Hands, InHand, Busy, Known
  <2>. QED
    BY <2>1, <2>2
<1>8. \A f, g \in Executions : f # g => Apart(f, g)'
  <2>1. \A f, g \in Executions \ {e} : f # g => Apart(f, g)'
    BY <1>3 DEF Telling, Hands, Apart, Busy
  <2>2. \A f \in Executions \ {e} : Apart(f, e)' /\ Apart(e, f)'
    BY <1>3, <1>6 DEF Apart, Busy, Holding, Clearing
  <2>. QED
    BY <2>1, <2>2
<1>9. RowsFit'
  BY <1>1, <1>2, <1>4 DEF Telling, RowsFit, Known, Verbs
<1>10. TellsOnce'
  BY <1>2 DEF Telling, TellsOnce
<1>. QED
  BY <1>5, <1>7, <1>8, <1>9, <1>10 DEF Telling, Hands

LEMMA ClearTelling ==
  ASSUME TypeOK, Telling, NEW e \in Executions, Busy(e),
         NEW i, NEW a \in AlertIds, ClearOpen(e, i, a)
  PROVE  Telling'
<1>0. Progress(e) /\ exec[e].at = "CLEAR" /\ i \in exec[e].todo
  BY DEF Telling, Hands, ClearOpen
<1>1. /\ Became(e, "RESOLVED", exec[e].todo \ {i}, a)
      /\ Rewritten(a) /\ Known(a) /\ alert[a].open /\ alert[a].kind = i.kind
      /\ alert'[a].kind = alert[a].kind
      /\ alert'[a].open = FALSE /\ alert'[a].by = alert[a].by
  <2>1. Became(e, "RESOLVED", exec[e].todo \ {i}, a)
    BY ClearMoves
  <2>2. Rewritten(a) /\ Known(a)
    BY ClearMoves
  <2>3. alert[a].open /\ alert[a].kind = i.kind
    BY DEF ClearOpen
  <2>4. /\ alert'[a].kind = alert[a].kind
        /\ alert'[a].open = FALSE /\ alert'[a].by = alert[a].by
    BY ClearMoves
  <2>. QED
    BY <2>1, <2>2, <2>3, <2>4
<1>2. UNCHANGED <<told, acking>>
  BY DEF ClearOpen
<1>3. /\ \A f \in Executions \ {e} : exec'[f] = exec[f]
      /\ exec'[e].at = "RESOLVED" /\ exec'[e].todo = exec[e].todo \ {i}
      /\ exec'[e].hand = a /\ exec'[e].job = exec[e].job /\ Busy(e)'
  BY <1>1, RecIsNotIdle DEF Became, Busy
<1>4. /\ \A b \in AlertIds \ {a} : alert'[b] = alert[b]
      /\ alert'[a] # Free /\ told[a]["resolved"] = 0
  BY <1>1, RowIsNotFree DEF Rewritten, Telling, RowsFit
<1>5. \A f \in Executions : Progress(f)'
  <2>1. Progress(e)'
    BY <1>0, <1>3 DEF Progress, Busy
  <2>. QED
    BY <1>3, <2>1 DEF Telling, Hands, Progress, Busy
<1>6. \A f \in Executions \ {e} : Busy(f) /\ exec[f].at \in Clearing => exec[f].hand # a
  BY <1>1 DEF Telling, Hands, InHand, Clearing, Holding
<1>7. \A f \in Executions : InHand(f)'
  <2>1. InHand(e)'
    <3>1. exec[e].job = "SIGNAL_LOST" => i.kind = "SIGNAL_LOST"
      BY <1>0 DEF Progress, Close
    <3>. QED
      BY <1>1, <1>2, <1>3, <1>4, <3>1 DEF InHand, Known
  <2>2. ASSUME NEW f \in Executions \ {e} PROVE InHand(f)'
    <3>1. InHand(f) /\ exec'[f] = exec[f]
      BY <1>3 DEF Telling, Hands
    <3>2. CASE Busy(f) /\ exec[f].at \in Holding /\ exec[f].hand = a
      BY <1>2, <1>4, <1>6, <3>1, <3>2 DEF InHand, Busy, Known
    <3>3. CASE Busy(f) /\ exec[f].at \in Holding /\ exec[f].hand # a
      BY <1>2, <1>4, <3>1, <3>3 DEF InHand, Busy, Known
    <3>4. CASE ~(Busy(f) /\ exec[f].at \in Holding)
      BY <3>1, <3>4 DEF InHand, Busy
    <3>. QED
      BY <3>2, <3>3, <3>4
  <2>. QED
    BY <2>1, <2>2
<1>8. \A f, g \in Executions : f # g => Apart(f, g)'
  <2>1. \A f, g \in Executions \ {e} : f # g => Apart(f, g)'
    BY <1>3 DEF Telling, Hands, Apart, Busy
  <2>2. \A f \in Executions \ {e} : Apart(f, e)' /\ Apart(e, f)'
    BY <1>3, <1>6 DEF Apart, Busy
  <2>. QED
    BY <2>1, <2>2
<1>9. RowsFit'
  BY <1>1, <1>2, <1>4 DEF Telling, RowsFit, Known
<1>10. TellsOnce'
  BY <1>2 DEF Telling, TellsOnce
<1>. QED
  BY <1>5, <1>7, <1>8, <1>9, <1>10 DEF Telling, Hands

LEMMA PublishTelling ==
  ASSUME TypeOK, Telling, NEW e \in Executions, Busy(e),
         PublishRaised(e) \/ PublishResolved(e)
  PROVE  Telling'
<1>. DEFINE a == exec[e].hand
            v == IF exec[e].at = "OPENED" THEN "raised" ELSE "resolved"
            to == IF exec[e].at = "OPENED" THEN "RAISE"
                  ELSE IF exec[e].job = "SIGNAL_LOST" THEN "RECOVERED" ELSE "CLEAR"
<1>0. InHand(e) /\ Progress(e)
  BY DEF Telling, Hands
<1>1. /\ a \in AlertIds /\ Tells(a, v) /\ exec[e].at \in {"OPENED", "RESOLVED"}
      /\ \/ exec[e].at = "OPENED" /\ Became(e, "RAISE", exec[e].todo, 0)
         \/ /\ exec[e].at = "RESOLVED" /\ exec[e].job = "SIGNAL_LOST"
            /\ Became(e, "RECOVERED", exec[e].todo, exec[e].hand)
         \/ /\ exec[e].at = "RESOLVED" /\ exec[e].job # "SIGNAL_LOST"
            /\ Became(e, "CLEAR", exec[e].todo, 0)
  BY <1>0, PublishMoves
<1>2. UNCHANGED <<alert, acking>>
  BY DEF PublishRaised, PublishResolved
<1>3. /\ \A f \in Executions \ {e} : exec'[f] = exec[f]
      /\ exec'[e].at = to /\ exec'[e].todo = exec[e].todo
      /\ exec'[e].job = exec[e].job /\ Busy(e)'
      /\ to = "RECOVERED" => exec'[e].hand = exec[e].hand
  BY <1>1, RecIsNotIdle DEF Became, Busy
<1>4. told[a][v] = 0 /\ Known(a) /\ v \in {"raised", "resolved"}
      /\ (v = "resolved" => ~alert[a].open)
  BY <1>0, <1>1 DEF InHand, Holding, Clearing
<1>5. /\ told'[a][v] = 1
      /\ \A b \in AlertIds, w \in Verbs : (b # a \/ w # v) => told'[b][w] = told[b][w]
  <2>1. told'[a][v] = told[a][v] + 1
    BY <1>1 DEF Tells
  <2>2. told'[a][v] = 1
    BY <2>1, <1>4
  <2>. QED
    BY <1>1, <2>2 DEF Tells
<1>6. \A f \in Executions : Progress(f)'
  <2>1. Progress(e)'
    BY <1>0, <1>1, <1>3 DEF Progress, Busy, Close
  <2>. QED
    BY <1>3, <2>1 DEF Telling, Hands, Progress, Busy
<1>7. \A f \in Executions : InHand(f)'
  <2>1. InHand(e)'
    <3>1. CASE to = "RECOVERED"
      BY <1>0, <1>1, <1>2, <1>3, <3>1 DEF InHand, Known, Holding, Clearing, Busy
    <3>2. CASE to # "RECOVERED"
      BY <1>3, <3>2 DEF InHand, Holding
    <3>. QED
      BY <3>1, <3>2
  <2>2. ASSUME NEW f \in Executions \ {e} PROVE InHand(f)'
    <3>1. InHand(f) /\ exec'[f] = exec[f] /\ Apart(e, f)
      BY <1>3 DEF Telling, Hands
    <3>2. ASSUME Busy(f), exec[f].at = "OPENED"
          PROVE  told'[exec[f].hand]["raised"] = 0
      BY <1>1, <1>5, <3>1, <3>2 DEF InHand, Holding, Apart, Verbs
    <3>3. ASSUME Busy(f), exec[f].at = "RESOLVED"
          PROVE  told'[exec[f].hand]["resolved"] = 0
      BY <1>1, <1>5, <3>1, <3>3 DEF InHand, Holding, Apart, Clearing, Verbs
    <3>. QED
      BY <1>2, <3>1, <3>2, <3>3 DEF InHand, Busy, Known
  <2>. QED
    BY <2>1, <2>2
<1>8. \A f, g \in Executions : f # g => Apart(f, g)'
  <2>1. \A f, g \in Executions \ {e} : f # g => Apart(f, g)'
    BY <1>3 DEF Telling, Hands, Apart, Busy
  <2>2. \A f \in Executions \ {e} : Apart(f, e)' /\ Apart(e, f)'
    <3>1. ASSUME NEW f \in Executions \ {e} PROVE Apart(f, e)' /\ Apart(e, f)'
      <4>1. Apart(f, e) /\ exec'[f] = exec[f]
        BY <1>3 DEF Telling, Hands
      <4>2. CASE to = "RECOVERED"
        BY <1>1, <1>3, <4>1, <4>2 DEF Apart, Busy, Clearing
      <4>3. CASE to # "RECOVERED"
        BY <1>3, <4>3 DEF Apart, Clearing
      <4>. QED
        BY <4>2, <4>3
    <3>. QED
      BY <3>1
  <2>. QED
    BY <2>1, <2>2
<1>9. RowsFit'
  <2>1. ASSUME NEW b \in AlertIds
        PROVE  /\ ~Known(b) => \A w \in Verbs : told'[b][w] = told[b][w]
               /\ told'[b]["acknowledged"] = told[b]["acknowledged"]
               /\ Known(b) /\ alert[b].open => told'[b]["resolved"] = told[b]["resolved"]
    BY <1>4, <1>5 DEF Verbs
  <2>. QED
    BY <1>2, <2>1 DEF Telling, RowsFit, Known
<1>10. TellsOnce'
  <2>1. ASSUME NEW b \in AlertIds, NEW w \in Verbs PROVE told'[b][w] <= 1
    <3>1. CASE b = a /\ w = v
      BY <1>5, <3>1
    <3>2. CASE b # a \/ w # v
      BY <1>5, <3>2 DEF Telling, TellsOnce
    <3>. QED
      BY <3>1, <3>2
  <2>. QED
    BY <2>1 DEF TellsOnce
<1>. QED
  BY <1>6, <1>7, <1>8, <1>9, <1>10 DEF Telling, Hands

\* A step that leaves the rows and what was told of them alone.
LEMMA SameRows ==
  ASSUME Telling, UNCHANGED <<alert, told, acking>>
  PROVE  RowsFit' /\ TellsOnce'
  BY DEF Telling, RowsFit, TellsOnce, Known

LEMMA LogTelling ==
  ASSUME TypeOK, Telling, NEW e \in Executions, Busy(e), LogRecovered(e)
  PROVE  Telling'
<1>0. Progress(e) /\ exec[e].at = "RECOVERED"
  BY DEF Telling, Hands, LogRecovered
<1>1. Became(e, "CLEAR", exec[e].todo, 0)
  BY LogMoves
<1>2. UNCHANGED <<alert, told, acking>>
  BY DEF LogRecovered, desk
<1>3. /\ \A f \in Executions \ {e} : exec'[f] = exec[f]
      /\ exec'[e].at = "CLEAR" /\ exec'[e].todo = exec[e].todo
      /\ exec'[e].job = exec[e].job /\ Busy(e)'
  BY <1>1, RecIsNotIdle DEF Became, Busy
<1>4. \A f \in Executions : Progress(f)'
  <2>1. Progress(e)'
    BY <1>0, <1>3 DEF Progress, Busy
  <2>. QED
    BY <1>3, <2>1 DEF Telling, Hands, Progress, Busy
<1>5. \A f \in Executions : InHand(f)'
  <2>1. InHand(e)'
    BY <1>3 DEF InHand, Holding
  <2>2. \A f \in Executions \ {e} : InHand(f)'
    BY <1>2, <1>3 DEF Telling, Hands, InHand, Busy, Known
  <2>. QED
    BY <2>1, <2>2
<1>6. \A f, g \in Executions : f # g => Apart(f, g)'
  BY <1>3 DEF Telling, Hands, Apart, Busy, Clearing
<1>. QED
  BY <1>2, <1>4, <1>5, <1>6, SameRows DEF Telling, Hands

LEMMA TickTelling ==
  ASSUME TypeOK, Telling, NEW e \in Executions, NEW job \in Jobs, Tick(e, job)
  PROVE  Telling'
<1>1. /\ exec'[e].at = IF job = Close THEN "CLEAR_SELECT" ELSE "RAISE_SELECT"
      /\ exec'[e].todo = {} /\ exec'[e].job = job /\ Busy(e)'
      /\ \A f \in Executions \ {e} : exec'[f] = exec[f]
  BY TickMoves, RecIsNotIdle DEF Busy
<1>2. UNCHANGED <<alert, told, acking>>
  BY DEF Tick, desk
<1>3. \A f \in Executions : Progress(f)'
  <2>1. Progress(e)'
    BY <1>1 DEF Progress, Busy, Close
  <2>. QED
    BY <1>1, <2>1 DEF Telling, Hands, Progress, Busy
<1>4. exec'[e].at \notin Holding
  BY <1>1 DEF Holding
<1>5. \A f \in Executions : InHand(f)'
  <2>1. InHand(e)'
    BY <1>4 DEF InHand
  <2>2. \A f \in Executions \ {e} : InHand(f)'
    BY <1>1, <1>2 DEF Telling, Hands, InHand, Busy, Known
  <2>. QED
    BY <2>1, <2>2
<1>6. \A f, g \in Executions : f # g => Apart(f, g)'
  BY <1>1, <1>4 DEF Telling, Hands, Apart, Busy, Clearing, Holding
<1>. QED
  BY <1>2, <1>3, <1>5, <1>6, SameRows DEF Telling, Hands

LEMMA ExpireTelling ==
  ASSUME TypeOK, Telling, NEW job \in Jobs, LockExpires(job)
  PROVE  Telling'
<1>1. \A f \in Executions : Busy(f)' => /\ Busy(f) /\ exec'[f].at = exec[f].at
                                        /\ exec'[f].todo = exec[f].todo
                                        /\ exec'[f].hand = exec[f].hand
                                        /\ exec'[f].job = exec[f].job
  BY ExpireMoves DEF Alike, Busy
<1>2. UNCHANGED <<alert, told, acking>>
  BY DEF LockExpires, desk
<1>3. \A f \in Executions : Progress(f)'
  BY <1>1 DEF Telling, Hands, Progress
<1>4. \A f \in Executions : InHand(f)'
  BY <1>1, <1>2 DEF Telling, Hands, InHand, Known
<1>5. \A f, g \in Executions : f # g => Apart(f, g)'
  BY <1>1 DEF Telling, Hands, Apart
<1>. QED
  BY <1>2, <1>3, <1>4, <1>5, SameRows DEF Telling, Hands

LEMMA DeskTelling ==
  ASSUME TypeOK, Telling, AtDesk
  PROVE  Telling'
<1>1. /\ UNCHANGED exec
      /\ \A b \in AlertIds :
            /\ Known(b) <=> alert'[b] # Free
            /\ Known(b) => alert'[b].open = alert[b].open /\ alert'[b].kind = alert[b].kind
            /\ told'[b]["raised"] = told[b]["raised"]
            /\ told'[b]["resolved"] = told[b]["resolved"]
  BY DeskMoves
<1>2. Hands'
  <2>1. \A f \in Executions : Progress(f)'
    BY <1>1 DEF Telling, Hands, Progress, Busy
  <2>2. \A f \in Executions : InHand(f)'
    BY <1>1 DEF Telling, Hands, InHand, Busy, Known
  <2>3. \A f, g \in Executions : f # g => Apart(f, g)'
    BY <1>1 DEF Telling, Hands, Apart, Busy
  <2>. QED
    BY <2>1, <2>2, <2>3 DEF Hands
<1>3. RowsFit' /\ TellsOnce'
  <2>1. ASSUME NEW a \in AlertIds, NEW u \in Users, Acknowledge(u, a)
        PROVE  RowsFit' /\ TellsOnce'
    <3>1. /\ Rewritten(a) /\ Known(a) /\ alert[a].by = NoUser
          /\ alert'[a].open = alert[a].open /\ alert'[a].by # NoUser
      BY <2>1, AcknowledgeMoves
    <3>2. told' = told /\ acking' = acking \cup {a}
      BY <2>1 DEF Acknowledge
    <3>3. alert'[a] # Free /\ \A b \in AlertIds \ {a} : alert'[b] = alert[b]
      BY <3>1, RowIsNotFree DEF Rewritten
    <3>. QED
      BY <3>1, <3>2, <3>3 DEF Telling, RowsFit, TellsOnce, Known
  <2>2. ASSUME NEW a \in AlertIds, PublishAcknowledged(a)
        PROVE  RowsFit' /\ TellsOnce'
    <3>1. alert' = alert /\ acking' = acking \ {a} /\ a \in acking
      BY <2>2 DEF PublishAcknowledged
    <3>2. /\ told'[a]["acknowledged"] = told[a]["acknowledged"] + 1
          /\ \A b \in AlertIds, w \in Verbs :
                (b # a \/ w # "acknowledged") => told'[b][w] = told[b][w]
      BY <2>2, Telling1 DEF PublishAcknowledged, Tells, Verbs
    <3>3. told[a]["acknowledged"] = 0 /\ Known(a) /\ alert[a].by # NoUser
      BY <3>1 DEF Telling, RowsFit
    <3>4. told'[a]["acknowledged"] = 1
      BY <3>2, <3>3
    <3>5. RowsFit'
      BY <3>1, <3>2, <3>3 DEF Telling, RowsFit, Known, Verbs
    <3>6. ASSUME NEW b \in AlertIds, NEW w \in Verbs PROVE told'[b][w] <= 1
      <4>1. CASE b = a /\ w = "acknowledged"
        BY <3>4, <4>1
      <4>2. CASE b # a \/ w # "acknowledged"
        BY <3>2, <4>2 DEF Telling, TellsOnce
      <4>. QED
        BY <4>1, <4>2
    <3>. QED
      BY <3>5, <3>6 DEF TellsOnce
  <2>3. ASSUME NEW a \in AlertIds, AcknowledgeFails(a)
        PROVE  RowsFit' /\ TellsOnce'
    BY <2>3 DEF AcknowledgeFails, Telling, RowsFit, TellsOnce, Known
  <2>. QED
    BY <2>1, <2>2, <2>3 DEF AtDesk
<1>. QED
  BY <1>2, <1>3 DEF Telling

LEMMA StillTelling ==
  ASSUME Telling, UNCHANGED <<alert, told, acking, exec>>
  PROVE  Telling'
<1>1. \A f \in Executions : Progress(f)'
  BY DEF Telling, Hands, Progress, Busy
<1>2. \A f \in Executions : InHand(f)'
  BY DEF Telling, Hands, InHand, Busy, Known
<1>3. \A f, g \in Executions : f # g => Apart(f, g)'
  BY DEF Telling, Hands, Apart, Busy
<1>. QED
  BY <1>1, <1>2, <1>3, SameRows DEF Telling, Hands

LEMMA TellingStep ==
  ASSUME TypeOK, Telling, [Next]_vars
  PROVE  Telling'
<1>1. CASE UNCHANGED vars \/ World
  <2>1. UNCHANGED <<alert, told, acking, exec>>
    BY <1>1, WorldMoves DEF vars, desk, jobs, OtherVars
  <2>. QED
    BY <2>1, StillTelling
<1>2. CASE AtDesk
  BY <1>2, DeskTelling
<1>3. ASSUME NEW e \in Executions, Busy(e), Quiet(e) \/ Loud(e) PROVE Telling'
  BY <1>3, QuietTelling, PublishTelling, LogTelling, RaiseTelling, ClearTelling DEF Loud
<1>. QED
  BY <1>1, <1>2, <1>3, Parts, TickTelling, ExpireTelling

-----------------------------------------------------------------------------
(* The effect of a step on its execution, in the terms of the remaining    *)
(* invariants.                                                             *)

LEMMA LoudExec ==
  ASSUME TypeOK, NEW e \in Executions, Busy(e), Loud(e), Progress(e), InHand(e)
  PROVE  /\ \A f \in Executions \ {e} : exec'[f] = exec[f]
         /\ Busy(e)' /\ exec'[e].job = exec[e].job /\ exec'[e].late = exec[e].late
<1>1. ASSUME NEW at, NEW todo, NEW hand, Became(e, at, todo, hand)
      PROVE  /\ \A f \in Executions \ {e} : exec'[f] = exec[f]
             /\ Busy(e)' /\ exec'[e].job = exec[e].job /\ exec'[e].late = exec[e].late
  BY <1>1, RecIsNotIdle DEF Became, Busy
<1>2. ASSUME PublishRaised(e) \/ PublishResolved(e)
      PROVE  \E at, todo, hand : Became(e, at, todo, hand)
  BY <1>2, PublishMoves
<1>3. ASSUME LogRecovered(e)
      PROVE  \E at, todo, hand : Became(e, at, todo, hand)
  BY <1>3, LogMoves
<1>4. ASSUME NEW i, NEW a \in AlertIds, RaiseNew(e, i, a) \/ ClearOpen(e, i, a)
      PROVE  \E at, todo, hand : Became(e, at, todo, hand)
  BY <1>4, RaiseMoves, ClearMoves
<1>. QED
  BY <1>1, <1>2, <1>3, <1>4 DEF Loud

LEMMA RowsStay ==
  ASSUME TypeOK, Telling, [Next]_vars, NEW a \in AlertIds, Known(a)
  PROVE  /\ Known(a)' /\ alert'[a].s = alert[a].s /\ alert'[a].kind = alert[a].kind
         /\ ~alert[a].open => ~alert'[a].open
<1>1. CASE alert' = alert
  BY <1>1 DEF Known
<1>2. CASE AtDesk
  BY <1>2, DeskMoves DEF Known
<1>3. ASSUME NEW e \in Executions, Busy(e), NEW i, NEW b \in AlertIds,
             RaiseNew(e, i, b) \/ ClearOpen(e, i, b)
      PROVE  /\ Known(a)' /\ alert'[a].s = alert[a].s /\ alert'[a].kind = alert[a].kind
             /\ ~alert[a].open => ~alert'[a].open
  <2>1. CASE RaiseNew(e, i, b)
    <3>1. Rewritten(b) /\ ~Known(b)
      BY <1>3, <2>1, RaiseMoves DEF Telling, Hands
    <3>. QED
      BY <3>1 DEF Rewritten, Known
  <2>2. CASE ClearOpen(e, i, b)
    <3>1. /\ Rewritten(b) /\ alert'[b].s = alert[b].s /\ alert'[b].kind = alert[b].kind
          /\ alert'[b].open = FALSE
      BY <1>3, <2>2, ClearMoves
    <3>. QED
      BY <3>1, RowIsNotFree DEF Rewritten, Known
  <2>. QED
    BY <1>3, <2>1, <2>2
<1>4. ASSUME NEW e \in Executions, Busy(e), Loud(e),
             ~\E i \in exec[e].todo, b \in AlertIds : RaiseNew(e, i, b) \/ ClearOpen(e, i, b)
      PROVE  alert' = alert
  BY <1>4 DEF Loud, PublishRaised, PublishResolved, LogRecovered, desk
<1>5. ASSUME NEW e \in Executions, Quiet(e) PROVE alert' = alert
  BY <1>5, QuietEffect DEF desk
<1>6. UNCHANGED vars \/ World => alert' = alert
  BY WorldMoves DEF OtherVars, vars, desk
<1>7. (\E e \in Executions, job \in Jobs : Tick(e, job)) \/ (\E job \in Jobs : LockExpires(job))
         => alert' = alert
  BY DEF Tick, LockExpires, desk
<1>. QED
  BY <1>1, <1>2, <1>3, <1>4, <1>5, <1>6, <1>7, Parts

-----------------------------------------------------------------------------
(* Locks.                                                                  *)

LEMMA LocksStep ==
  ASSUME TypeOK, Telling, Locked, OneRunnerPerJob, [Next]_vars
  PROVE  Locked' /\ OneRunnerPerJob'
<1>1. ASSUME lock' = lock,
             \A f \in Executions : Busy(f)' => /\ Busy(f) /\ exec'[f].job = exec[f].job
                                               /\ exec'[f].late = exec[f].late
      PROVE  Locked' /\ OneRunnerPerJob'
  BY <1>1 DEF Locked, OneRunnerPerJob, Busy
<1>2. CASE UNCHANGED vars \/ World \/ AtDesk
  <2>1. lock' = lock /\ exec' = exec
    BY <1>2, WorldMoves, DeskMoves DEF OtherVars, vars, jobs
  <2>. QED
    BY <1>1, <2>1 DEF Busy
<1>3. ASSUME NEW e \in Executions, Busy(e), Quiet(e) PROVE Locked' /\ OneRunnerPerJob'
  <2>1. lock' = lock
    BY <1>3, QuietEffect
  <2>2. /\ \A f \in Executions \ {e} : exec'[f] = exec[f]
        /\ Busy(e)' => exec'[e].job = exec[e].job /\ exec'[e].late = exec[e].late
    BY <1>3, QuietExec DEF Telling, Hands, Busy
  <2>. QED
    BY <1>1, <1>3, <2>1, <2>2 DEF Busy
<1>4. ASSUME NEW e \in Executions, Busy(e), Loud(e) PROVE Locked' /\ OneRunnerPerJob'
  <2>1. lock' = lock
    BY <1>4, LoudEffect
  <2>2. /\ \A f \in Executions \ {e} : exec'[f] = exec[f]
        /\ exec'[e].job = exec[e].job /\ exec'[e].late = exec[e].late
    BY <1>4, LoudExec DEF Telling, Hands
  <2>. QED
    BY <1>1, <1>4, <2>1, <2>2 DEF Busy
<1>5. ASSUME NEW e \in Executions, NEW job \in Jobs, Tick(e, job)
      PROVE  Locked' /\ OneRunnerPerJob'
  <2>1. /\ exec'[e].job = job /\ \A f \in Executions \ {e} : exec'[f] = exec[f]
    BY <1>5, TickMoves
  <2>2. job \notin lock /\ lock' = lock \cup {job}
    BY <1>5 DEF Tick
  <2>3. \A f \in Executions \ {e} : Busy(f) /\ exec[f].job = job => exec[f].late
    BY <2>2 DEF Locked
  <2>. QED
    BY <2>1, <2>2, <2>3 DEF Locked, OneRunnerPerJob, Busy
<1>6. ASSUME NEW job \in Jobs, LockExpires(job) PROVE Locked' /\ OneRunnerPerJob'
  <2>1. lock' = lock \ {job}
    BY <1>6 DEF LockExpires
  <2>2. \A f \in Executions : Busy(f)' => /\ Busy(f) /\ exec'[f].job = exec[f].job
                                          /\ exec'[f].late = (exec[f].late \/ exec[f].job = job)
    BY <1>6, ExpireMoves DEF Alike, Busy
  <2>. QED
    BY <2>1, <2>2 DEF Locked, OneRunnerPerJob, Busy
<1>. QED
  BY <1>2, <1>3, <1>4, <1>5, <1>6, Parts

-----------------------------------------------------------------------------
(* The log of recoveries.                                                  *)

\* A closed row that is logged already, or owed by nobody, stays so.
LEMMA LoggedGrows ==
  ASSUME TypeOK, Telling, [Next]_vars, NEW s \in Sessions
  PROVE  Logged(s) \subseteq Logged(s)'
<1>. SUFFICES ASSUME NEW a \in AlertIds, Known(a), ~alert[a].open, ~RecoveryOwed(a)
              PROVE  ~RecoveryOwed(a)'
  BY RowsStay DEF Logged
<1>0. \A e \in Executions : Progress(e) /\ InHand(e)
  BY DEF Telling, Hands
<1>1. ASSUME \A f \in Executions : (Busy(f)' /\ exec'[f].at \in Clearing) =>
                /\ Busy(f) /\ exec[f].at \in Clearing /\ exec'[f].job = exec[f].job
                /\ exec'[f].hand = exec[f].hand
      PROVE  ~RecoveryOwed(a)'
  BY <1>1 DEF RecoveryOwed
<1>2. CASE UNCHANGED vars \/ World \/ AtDesk
  <2>1. exec' = exec
    BY <1>2, WorldMoves, DeskMoves DEF OtherVars, vars, jobs
  <2>. QED
    BY <1>1, <2>1 DEF Busy
<1>3. ASSUME NEW e \in Executions, Busy(e), Quiet(e) PROVE ~RecoveryOwed(a)'
  <2>1. /\ \A f \in Executions \ {e} : exec'[f] = exec[f]
        /\ Busy(e)' => exec'[e].at \notin Holding
    BY <1>0, <1>3, QuietExec DEF Busy
  <2>. QED
    BY <1>1, <2>1 DEF Busy, Holding, Clearing
<1>4. ASSUME NEW e \in Executions, Busy(e), Loud(e) PROVE ~RecoveryOwed(a)'
  <2>0. ASSUME NEW at, NEW todo, NEW hand, Became(e, at, todo, hand),
               at \in Clearing /\ exec[e].job = "SIGNAL_LOST" => hand # a
        PROVE  ~RecoveryOwed(a)'
    BY <2>0 DEF RecoveryOwed, Became, Busy
  <2>1. CASE PublishRaised(e)
    BY <1>0, <1>4, <2>0, <2>1, PublishMoves DEF Clearing
  <2>2. CASE PublishResolved(e)
    <3>1. exec[e].at = "RESOLVED" /\ (exec[e].job = "SIGNAL_LOST" => exec[e].hand # a)
      BY <1>0, <1>4, <2>2, PublishMoves DEF RecoveryOwed, Clearing
    <3>2. IF exec[e].job = "SIGNAL_LOST" THEN Became(e, "RECOVERED", exec[e].todo, exec[e].hand)
          ELSE Became(e, "CLEAR", exec[e].todo, 0)
      BY <1>0, <1>4, <2>2, PublishMoves
    <3>. QED
      BY <2>0, <3>1, <3>2
  <2>3. CASE LogRecovered(e)
    BY <1>4, <2>0, <2>3, LogMoves DEF Clearing
  <2>4. ASSUME NEW i, NEW b \in AlertIds, RaiseNew(e, i, b) PROVE ~RecoveryOwed(a)'
    <3>1. Became(e, "OPENED", exec[e].todo \ {i}, b)
      BY <1>0, <1>4, <2>4, RaiseMoves
    <3>. QED
      BY <2>0, <3>1 DEF Clearing
  <2>5. ASSUME NEW i, NEW b \in AlertIds, ClearOpen(e, i, b) PROVE ~RecoveryOwed(a)'
    <3>1. Became(e, "RESOLVED", exec[e].todo \ {i}, b)
      BY <1>4, <2>5, ClearMoves
    <3>2. b # a
      BY <2>5 DEF ClearOpen
    <3>. QED
      BY <2>0, <3>1, <3>2
  <2>. QED
    BY <1>4, <2>1, <2>2, <2>3, <2>4, <2>5 DEF Loud
<1>5. ASSUME NEW e \in Executions, NEW job \in Jobs, Tick(e, job)
      PROVE  ~RecoveryOwed(a)'
  <2>1. /\ exec'[e].at \notin Clearing /\ \A f \in Executions \ {e} : exec'[f] = exec[f]
    BY <1>5, TickMoves DEF Clearing
  <2>. QED
    BY <1>1, <2>1 DEF Busy
<1>6. ASSUME NEW job \in Jobs, LockExpires(job) PROVE ~RecoveryOwed(a)'
  BY <1>1, <1>6, ExpireMoves DEF Alike, Busy
<1>. QED
  BY <1>2, <1>3, <1>4, <1>5, <1>6, Parts

LEMMA LoggedFinite ==
  ASSUME TypeOK, NEW s \in Sessions
  PROVE  IsFiniteSet(Logged(s)) /\ Cardinality(Logged(s)) \in Nat
<1>1. IsFiniteSet(AlertIds)
  BY BoundAssumption, FS_Interval DEF AlertIds
<1>2. Logged(s) \subseteq AlertIds
  BY DEF Logged
<1>. QED
  BY <1>1, <1>2, FS_Subset, FS_CardinalityType

LEMMA RecoveriesStep ==
  ASSUME TypeOK, Telling, Recoveries, [Next]_vars
  PROVE  Recoveries'
<1>0. TypeOK'
  BY TypeStep DEF Telling
<1>a. \A s \in Sessions : recoveries[s] \in Nat /\ recoveries'[s] \in Nat
  BY <1>0 DEF TypeOK
<1>b. ASSUME NEW s \in Sessions
      PROVE  /\ IsFiniteSet(Logged(s)) /\ Cardinality(Logged(s)) \in Nat
             /\ IsFiniteSet(Logged(s)') /\ Cardinality(Logged(s)') \in Nat
  <2>1. IsFiniteSet(AlertIds)
    BY BoundAssumption, FS_Interval DEF AlertIds
  <2>2. Logged(s)' \subseteq AlertIds
    BY DEF Logged
  <2>. QED
    BY <2>1, <2>2, LoggedFinite, FS_Subset, FS_CardinalityType
<1>1. \A s \in Sessions : Cardinality(Logged(s)) <= Cardinality(Logged(s)')
  BY <1>b, LoggedGrows, FS_Subset
<1>2. CASE recoveries' = recoveries
  <2>. SUFFICES ASSUME NEW s \in Sessions
                PROVE  recoveries'[s] <= Cardinality(Logged(s)')
    BY DEF Recoveries
  <2>1. recoveries[s] <= Cardinality(Logged(s))
    BY DEF Recoveries
  <2>. QED
    BY <1>2, <1>a, <1>b, <1>1, <2>1
<1>3. ASSUME NEW e \in Executions, Busy(e), LogRecovered(e) PROVE Recoveries'
  <2>a. PICK h : h = exec[e].hand
    OBVIOUS
  <2>b. PICK t : t = alert[h].s
    OBVIOUS
  <2>1. exec[e].at = "RECOVERED" /\ exec[e].job = "SIGNAL_LOST"
    BY <1>3 DEF LogRecovered, Telling, Hands, Progress
  <2>2. h \in AlertIds /\ Known(h) /\ ~alert[h].open /\ alert[h].kind = "SIGNAL_LOST"
    BY <1>3, <2>a, <2>1 DEF Telling, Hands, InHand, Holding, Clearing
  <2>3. t \in Sessions
    BY <2>b, <2>2, AlertTypes DEF Row
  <2>4. recoveries' = [recoveries EXCEPT ![t] = recoveries[t] + 1] /\ alert' = alert
    BY <1>3, <2>a, <2>b DEF LogRecovered, desk
  <2>5. h \notin Logged(t)
    BY <1>3, <2>a, <2>1 DEF Logged, RecoveryOwed, Clearing
  <2>6. /\ exec'[e].at = "CLEAR" /\ \A f \in Executions \ {e} : exec'[f] = exec[f]
    BY <1>3, LogMoves DEF Became
  <2>7. \A f \in Executions \ {e} : Apart(e, f)
    BY DEF Telling, Hands
  <2>8. ~RecoveryOwed(h)'
    <3>1. \A f \in Executions \ {e} :
             ~(Busy(f)' /\ exec'[f].at \in Clearing /\ exec'[f].hand = h)
      BY <1>3, <2>a, <2>1, <2>6, <2>7 DEF Apart, Clearing, Busy
    <3>. QED
      BY <2>6, <3>1 DEF RecoveryOwed, Clearing
  <2>9. h \in Logged(t)'
    BY <2>b, <2>2, <2>4, <2>8 DEF Logged, Known
  <2>10. Logged(t) \cup {h} \subseteq Logged(t)'
    BY <2>3, <2>9, LoggedGrows
  <2>11. Cardinality(Logged(t) \cup {h}) = Cardinality(Logged(t)) + 1
    BY <1>b, <2>3, <2>5, FS_AddElement
  <2>12. Cardinality(Logged(t)) + 1 <= Cardinality(Logged(t)')
    <3>1. Cardinality(Logged(t) \cup {h}) <= Cardinality(Logged(t)')
      BY <1>b, <2>3, <2>10, FS_Subset
    <3>. QED
      BY <2>11, <3>1
  <2>13. recoveries'[t] = recoveries[t] + 1
         /\ \A s \in Sessions \ {t} : recoveries'[s] = recoveries[s]
    BY <2>3, <2>4 DEF TypeOK
  <2>14. ASSUME NEW s \in Sessions PROVE recoveries'[s] <= Cardinality(Logged(s)')
    <3>1. recoveries[s] <= Cardinality(Logged(s))
      BY DEF Recoveries
    <3>2. CASE s = t
      BY <1>a, <1>b, <2>12, <2>13, <3>1, <3>2
    <3>3. CASE s # t
      BY <1>a, <1>b, <1>1, <2>13, <3>1, <3>3
    <3>. QED
      BY <3>2, <3>3
  <2>. QED
    BY <2>14 DEF Recoveries
<1>4. UNCHANGED vars \/ World \/ AtDesk => recoveries' = recoveries
  BY WorldMoves, DeskMoves DEF OtherVars, vars
<1>5. ASSUME NEW e \in Executions, Quiet(e) PROVE recoveries' = recoveries
  BY <1>5, QuietEffect
<1>6. ASSUME NEW e \in Executions, Busy(e), Loud(e), ~LogRecovered(e)
      PROVE  recoveries' = recoveries
  <2>1. ASSUME NEW i, NEW a \in AlertIds, RaiseNew(e, i, a) \/ ClearOpen(e, i, a)
        PROVE  recoveries' = recoveries
    BY <2>1 DEF RaiseNew, ClearOpen
  <2>2. ASSUME PublishRaised(e) \/ PublishResolved(e) PROVE recoveries' = recoveries
    BY <2>2 DEF PublishRaised, PublishResolved
  <2>. QED
    BY <1>6, <2>1, <2>2 DEF Loud
<1>7. (\E e \in Executions, job \in Jobs : Tick(e, job)) \/ (\E job \in Jobs : LockExpires(job))
         => recoveries' = recoveries
  BY DEF Tick, LockExpires
<1>. QED
  BY <1>2, <1>3, <1>4, <1>5, <1>6, <1>7, Parts

-----------------------------------------------------------------------------
(* Arrivals.                                                               *)

HasRow(s) == \E a \in AlertIds :
    alert[a] # Free /\ alert[a].s = s /\ alert[a].kind = "ARRIVED"

OnDesk(s) ==
    HasRow(s) \/ (\E e \in Executions : Owes(e, s)) \/ s \in dropped \/ ~Room

\* An arrival leaves the list of an execution for a row, or with the execution.
LEMMA OnDeskStays ==
  ASSUME TypeOK, Telling, [Next]_vars, NEW s \in Sessions, OnDesk(s), dropped \subseteq dropped',
         \A e \in Executions : Owes(e, s) => Owes(e, s)' \/ OnDesk(s)'
  PROVE  OnDesk(s)'
<1>1. HasRow(s) => HasRow(s)'
  BY RowsStay DEF HasRow, Known
<1>2. ~Room => ~Room'
  BY RowsStay DEF Room, Known
<1>. QED
  BY <1>1, <1>2 DEF OnDesk

LEMMA QuietArrival ==
  ASSUME TypeOK, Telling, [Next]_vars, NEW e \in Executions, Busy(e), Quiet(e),
         NEW s \in Sessions, Owes(e, s)
  PROVE  Owes(e, s)' \/ OnDesk(s)'
<1>1. PICK j \in exec[e].todo : j.s = s
  BY DEF Owes
<1>2. Progress(e) /\ exec[e].job = "ARRIVED"
  BY DEF Telling, Hands, Owes
<1>3. exec[e].at \in {"RAISE", "OPENED"} /\ j \in Item /\ j.kind = "ARRIVED"
  BY <1>1, <1>2 DEF Progress
<1>4. CASE Die(e)
  BY <1>4 DEF Die, OnDesk
<1>5. ASSUME NEW i \in exec[e].todo, RaiseKnown(e, i) \/ ClearNone(e, i)
      PROVE  Owes(e, s)' \/ OnDesk(s)'
  <2>1. /\ exec'[e].todo = exec[e].todo \ {i} /\ exec'[e].job = exec[e].job /\ Busy(e)'
    BY <1>5, QuietMoves, RecIsNotIdle DEF Became, Busy
  <2>2. CASE i # j
    BY <1>1, <1>2, <2>1, <2>2 DEF Owes, Busy
  <2>3. CASE i = j
    <3>1. RaiseKnown(e, j) /\ alert' = alert
      BY <1>3, <1>5, <2>3 DEF RaiseKnown, ClearNone, desk
    <3>2. HasRow(s) \/ ~Room
      BY <1>1, <1>3, <3>1 DEF RaiseKnown, Open, HasRow
    <3>. QED
      BY <3>1, <3>2 DEF OnDesk, HasRow, Room
  <2>. QED
    BY <2>2, <2>3
<1>6. ~TooEarly(e) /\ ~SelectDue(e) /\ ~Raised(e) /\ ~SelectOver(e) /\ ~Finish(e)
  BY <1>1, <1>3 DEF TooEarly, SelectDue, Raised, SelectOver, Finish
<1>. QED
  BY <1>4, <1>5, <1>6 DEF Quiet

LEMMA LoudArrival ==
  ASSUME TypeOK, Telling, [Next]_vars, NEW e \in Executions, Busy(e), Loud(e),
         NEW s \in Sessions, Owes(e, s)
  PROVE  Owes(e, s)' \/ OnDesk(s)'
<1>1. PICK j \in exec[e].todo : j.s = s
  BY DEF Owes
<1>2. Progress(e) /\ InHand(e) /\ exec[e].job = "ARRIVED"
  BY DEF Telling, Hands, Owes
<1>3. exec[e].at \in {"RAISE", "OPENED"} /\ j \in Item /\ j.kind = "ARRIVED"
  BY <1>1, <1>2 DEF Progress
<1>4. CASE PublishRaised(e)
  <2>1. exec'[e].todo = exec[e].todo /\ exec'[e].job = exec[e].job /\ Busy(e)'
    BY <1>2, <1>4, PublishMoves, RecIsNotIdle DEF Became, Busy
  <2>. QED
    BY <1>1, <1>2, <2>1 DEF Owes, Busy
<1>5. ASSUME NEW i \in exec[e].todo, NEW a \in AlertIds, RaiseNew(e, i, a)
      PROVE  Owes(e, s)' \/ OnDesk(s)'
  <2>1. /\ exec'[e].todo = exec[e].todo \ {i} /\ exec'[e].job = exec[e].job /\ Busy(e)'
    BY <1>2, <1>5, RaiseMoves, RecIsNotIdle DEF Became, Busy
  <2>2. CASE i # j
    BY <1>1, <1>2, <2>1, <2>2 DEF Owes, Busy
  <2>3. CASE i = j
    <3>1. alert'[a] \in Row /\ alert'[a].s = j.s /\ alert'[a].kind = j.kind
      <4>1. Rewritten(a)
        BY <1>2, <1>5, RaiseMoves
      <4>2. alert'[a].s = i.s /\ alert'[a].kind = i.kind
        BY <1>5 DEF RaiseNew, TypeOK
      <4>. QED
        BY <2>3, <4>1, <4>2 DEF Rewritten
    <3>2. alert'[a] # Free
      BY <3>1, RowIsNotFree
    <3>. QED
      BY <1>1, <1>3, <3>1, <3>2 DEF OnDesk, HasRow
  <2>. QED
    BY <2>2, <2>3
<1>6. ~PublishResolved(e) /\ ~LogRecovered(e)
  BY <1>3 DEF PublishResolved, Publish, LogRecovered
<1>7. \A i, a : ~ClearOpen(e, i, a)
  BY <1>3 DEF ClearOpen
<1>. QED
  BY <1>4, <1>5, <1>6, <1>7 DEF Loud

\* The statement that logs an arrival hands it to the execution.
LEMMA SelectArrival ==
  ASSUME TypeOK, NEW e \in Executions, Busy(e), SelectDue(e),
         NEW s \in Sessions, ~entered[s], entered'[s]
  PROVE  Owes(e, s)'
<1>1. exec[e].job = "ARRIVED" /\ Due(s, "ARRIVED", released)
  BY DEF SelectDue
<1>2. "ARRIVED" \in Kinds
  BY <1>1, ExecTypes, Fields DEF Jobs, Close
<1>. DEFINE i == [s |-> s, kind |-> "ARRIVED", severity |-> Severity(s, "ARRIVED")]
<1>3. i \in ToRaise("ARRIVED", released)
  <2>1. Severity(s, "ARRIVED") \in {"INFO", "WARNING", "CRITICAL"}
    BY DEF Severity
  <2>. HIDE DEF Severity
  <2>2. i \in Item /\ i.s = s /\ i.kind = "ARRIVED" /\ i.severity = Severity(s, "ARRIVED")
    BY <1>2, <2>1 DEF Item
  <2>. QED
    BY <1>1, <2>2 DEF ToRaise
<1>4. i.s = s
  OBVIOUS
<1>. HIDE DEF i
<1>5. /\ exec'[e].todo = ToRaise("ARRIVED", released) /\ exec'[e].job = "ARRIVED" /\ Busy(e)'
  BY <1>1, QuietMoves, RecIsNotIdle DEF Became, Busy
<1>. QED
  BY <1>3, <1>4, <1>5 DEF Owes, Busy

LEMMA ArrivalStep ==
  ASSUME TypeOK, Telling, ArrivalReachesDesk, [Next]_vars
  PROVE  ArrivalReachesDesk'
<1>. SUFFICES ASSUME NEW s \in Sessions, entered'[s] PROVE OnDesk(s)'
  BY DEF ArrivalReachesDesk, OnDesk, HasRow
<1>0. entered[s] => OnDesk(s)
  BY DEF ArrivalReachesDesk, OnDesk, HasRow
<1>1. ASSUME entered' = entered, dropped \subseteq dropped',
             \A e \in Executions : Owes(e, s) => Owes(e, s)' \/ OnDesk(s)'
      PROVE  OnDesk(s)'
  BY <1>0, <1>1, OnDeskStays
<1>2. CASE UNCHANGED vars \/ World \/ AtDesk
  <2>1. exec' = exec /\ dropped' = dropped /\ (entered'[s] => entered[s])
    BY <1>2, WorldMoves, DeskMoves DEF OtherVars, vars, jobs
  <2>. QED
    BY <1>0, <2>1, OnDeskStays DEF Owes
<1>3. ASSUME NEW e \in Executions, Busy(e), Quiet(e) PROVE OnDesk(s)'
  <2>1. \A f \in Executions \ {e} : exec'[f] = exec[f]
    BY <1>3, QuietExec DEF Telling, Hands
  <2>2. \A f \in Executions : Owes(f, s) => Owes(f, s)' \/ OnDesk(s)'
    BY <1>3, <2>1, QuietArrival DEF Owes
  <2>3. dropped \subseteq dropped'
    BY <1>3, QuietEffect DEF Die
  <2>4. CASE entered[s]
    BY <1>0, <2>2, <2>3, <2>4, OnDeskStays
  <2>5. CASE ~entered[s]
    <3>1. SelectDue(e)
      BY <1>3, <2>5, QuietEffect
    <3>. QED
      BY <1>3, <2>5, <3>1, SelectArrival DEF OnDesk
  <2>. QED
    BY <2>4, <2>5
<1>4. ASSUME NEW e \in Executions, Busy(e), Loud(e) PROVE OnDesk(s)'
  <2>1. entered' = entered /\ dropped' = dropped
    BY <1>4, LoudEffect
  <2>2. \A f \in Executions \ {e} : exec'[f] = exec[f]
    BY <1>4, LoudExec DEF Telling, Hands
  <2>3. \A f \in Executions : Owes(f, s) => Owes(f, s)' \/ OnDesk(s)'
    BY <1>4, <2>2, LoudArrival DEF Owes
  <2>. QED
    BY <1>1, <2>1, <2>3
<1>5. ASSUME NEW e \in Executions, NEW job \in Jobs, Tick(e, job) PROVE OnDesk(s)'
  <2>1. /\ exec[e] = Idle /\ entered' = entered /\ dropped' = dropped
    BY <1>5 DEF Tick
  <2>2. \A f \in Executions \ {e} : exec'[f] = exec[f]
    BY <1>5, TickMoves
  <2>. QED
    BY <1>1, <2>1, <2>2 DEF Owes
<1>6. ASSUME NEW job \in Jobs, LockExpires(job) PROVE OnDesk(s)'
  <2>1. entered' = entered /\ dropped' = dropped
    BY <1>6 DEF LockExpires
  <2>2. \A f \in Executions : Busy(f) => /\ Busy(f)' /\ exec'[f].job = exec[f].job
                                         /\ exec'[f].todo = exec[f].todo
    BY <1>6, ExpireMoves, RecIsNotIdle DEF Alike, Busy
  <2>. QED
    BY <1>1, <2>1, <2>2 DEF Owes, Busy
<1>. QED
  BY <1>2, <1>3, <1>4, <1>5, <1>6, Parts

-----------------------------------------------------------------------------
(* The theorems.                                                           *)

LEMMA InitIInv == Init => IInv
<1>. SUFFICES ASSUME Init PROVE IInv
  OBVIOUS
<1>1. TypeOK
  BY InitTypes
<1>2. /\ \A e \in Executions : ~Busy(e)
      /\ \A a \in AlertIds : ~Known(a) /\ a \notin acking /\ \A v \in Verbs : told[a][v] = 0
  BY DEF Init, Busy, Known
<1>3. Telling
  BY <1>2 DEF Telling, Hands, Progress, InHand, Apart, RowsFit, TellsOnce
<1>4. Recoveries
  BY <1>1, LoggedFinite DEF Init, Recoveries
<1>5. ArrivalReachesDesk /\ Locked /\ OneRunnerPerJob
  BY <1>2 DEF Init, ArrivalReachesDesk, Locked, OneRunnerPerJob, Busy
<1>. QED
  BY <1>1, <1>3, <1>4, <1>5 DEF IInv

LEMMA StepIInv == IInv /\ [Next]_vars => IInv'
<1>. SUFFICES ASSUME IInv, [Next]_vars PROVE IInv'
  OBVIOUS
<1>1. TypeOK /\ Telling /\ Recoveries /\ ArrivalReachesDesk /\ Locked /\ OneRunnerPerJob
  BY DEF IInv
<1>2. TypeOK'
  BY <1>1, TypeStep DEF Telling
<1>3. Telling' /\ Recoveries' /\ ArrivalReachesDesk' /\ Locked' /\ OneRunnerPerJob'
  BY <1>1, TellingStep, RecoveriesStep, ArrivalStep, LocksStep
<1>. QED
  BY <1>2, <1>3 DEF IInv

LEMMA Invariance == Spec => []IInv
  BY InitIInv, StepIInv, PTL DEF Spec

\* Every row closed for a silence is counted, those still to be logged included.
LEMMA RecoveriesAreOutages ==
  ASSUME IInv
  PROVE  RecoveryPerOutage
<1>. SUFFICES ASSUME NEW s \in Sessions
              PROVE  recoveries[s] <= Cardinality({a \in AlertIds : alert[a] # Free
                       /\ alert[a].s = s /\ alert[a].kind = "SIGNAL_LOST" /\ ~alert[a].open})
  BY DEF RecoveryPerOutage
<1>. DEFINE Closed == {a \in AlertIds : alert[a] # Free
                       /\ alert[a].s = s /\ alert[a].kind = "SIGNAL_LOST" /\ ~alert[a].open}
<1>1. IsFiniteSet(AlertIds) /\ Closed \subseteq AlertIds
  BY BoundAssumption, FS_Interval DEF AlertIds
<1>2. Logged(s) \subseteq Closed
  BY DEF Logged, Known
<1>3. IsFiniteSet(Closed)
  BY <1>1, FS_Subset
<1>4. Cardinality(Logged(s)) <= Cardinality(Closed)
  BY <1>2, <1>3, FS_Subset
<1>5. /\ Cardinality(Logged(s)) \in Nat /\ Cardinality(Closed) \in Nat
      /\ recoveries[s] \in Nat /\ recoveries[s] <= Cardinality(Logged(s))
  BY <1>3, LoggedFinite, FS_CardinalityType DEF IInv, Recoveries, TypeOK
<1>. HIDE DEF Closed
<1>6. recoveries[s] <= Cardinality(Closed)
  BY <1>4, <1>5
<1>. QED
  BY <1>6 DEF Closed

-----------------------------------------------------------------------------
(* The bell of a tab.  What it shows may lag behind the table only while   *)
(* something is on its way that ends in a new read.                        *)

Acking == \E r \in Rows : acks[r] # Desk!NoAck

ListOwed == news > 0 \/ timer \/ listQuery.phase = "sent" \/ Acking
CountOwed == news > 0 \/ timer \/ countQuery \/ Acking

DeskInv ==
    /\ Desk!DeskTypeOK
    /\ "list" \in behind \/ list = table \/ ListOwed
    /\ listQuery.phase = "answered" => "list" \in behind \/ news > 0 \/ timer
    /\ "count" \in behind \/ badge = Desk!Unacknowledged(table) \/ CountOwed
    /\ listQuery # Desk!Idle => listQuery.over = {}

NoAckRec == [stage : {"idle"}]
AckRec == [stage : {"asked", "applied"}, list : Desk!Lists, badge : 0 .. Cardinality(Rows)]
SentRec == [phase : {"sent"}, over : SUBSET Rows]
AnsweredRec == [phase : {"answered"}, over : SUBSET Rows, value : Desk!Lists]

LEMMA DeskTypes ==
    Desk!DeskTypeOK <=>
      /\ table \in Desk!Lists /\ list \in Desk!Lists
      /\ news \in 0 .. MaxNews /\ socket \in BOOLEAN /\ timer \in BOOLEAN
      /\ badge \in 0 .. Cardinality(Rows)
      /\ listQuery \in {Desk!Idle} \cup SentRec \cup AnsweredRec
      /\ countQuery \in BOOLEAN /\ acks \in [Rows -> NoAckRec \cup AckRec]
      /\ bulk \subseteq Rows /\ trouble \in 0 .. MaxTrouble
      /\ behind \subseteq Desk!Queries
  BY Zenon DEF Desk!DeskTypeOK, NoAckRec, AckRec, SentRec, AnsweredRec, Desk!Cardinality,
     Cardinality

LEMMA NextDeskTypes ==
  ASSUME /\ table' \in Desk!Lists /\ list' \in Desk!Lists
         /\ news' \in 0 .. MaxNews /\ socket' \in BOOLEAN /\ timer' \in BOOLEAN
         /\ badge' \in 0 .. Cardinality(Rows)
         /\ listQuery' \in {Desk!Idle} \cup SentRec \cup AnsweredRec
         /\ countQuery' \in BOOLEAN /\ acks' \in [Rows -> NoAckRec \cup AckRec]
         /\ bulk' \subseteq Rows /\ trouble' \in 0 .. MaxTrouble
         /\ behind' \subseteq Desk!Queries
  PROVE  Desk!DeskTypeOK'
  BY Zenon DEF Desk!DeskTypeOK, NoAckRec, AckRec, SentRec, AnsweredRec, Desk!Cardinality,
     Cardinality

LEMMA Counts ==
  ASSUME NEW l
  PROVE  Desk!Unacknowledged(l) \in 0 .. Cardinality(Rows)
<1>. DEFINE S == { r \in Rows : l[r] = "NEW" }
<1>1. S \subseteq Rows /\ IsFiniteSet(Rows)
  BY DeskAssumption
<1>2. Cardinality(S) <= Cardinality(Rows) /\ IsFiniteSet(S)
  BY <1>1, FS_Subset
<1>3. Cardinality(S) \in Nat /\ Cardinality(Rows) \in Nat
  BY <1>1, <1>2, FS_CardinalityType
<1>4. Desk!Unacknowledged(l) = Cardinality(S)
  BY DEF Desk!Unacknowledged, Desk!Cardinality, Cardinality
<1>. QED
  BY <1>2, <1>3, <1>4

\* What a frame to every tab does to this one.
LEMMA Announced ==
  ASSUME Desk!DeskTypeOK, Desk!Broadcast
  PROVE  /\ news' \in 0 .. MaxNews /\ behind' \subseteq Desk!Queries
         /\ behind \subseteq behind' /\ news <= news'
         /\ news' > 0 \/ ("list" \in behind' /\ "count" \in behind')
<1>1. news \in 0 .. MaxNews /\ behind \subseteq Desk!Queries /\ MaxNews \in Nat
  BY DeskTypes, DeskAssumption
<1>2. CASE socket
  <2>1. news < MaxNews /\ news' = news + 1 /\ behind' = behind
    BY <1>2 DEF Desk!Broadcast
  <2>. QED
    BY <1>1, <2>1
<1>3. CASE ~socket
  <2>1. news' = news /\ behind' = {"list", "count"}
    BY <1>3 DEF Desk!Broadcast, Desk!Queries
  <2>. QED
    BY <1>1, <2>1 DEF Desk!Queries
<1>. QED
  BY <1>2, <1>3

\* A request under way may have read the table before the change.
LEMMA Overtakes ==
  ASSUME Desk!DeskTypeOK, Desk!Changed
  PROVE  /\ listQuery' \in {Desk!Idle} \cup SentRec \cup AnsweredRec
         /\ listQuery' = listQuery \/ (listQuery'.phase = "answered" /\ listQuery # Desk!Idle
                                       /\ listQuery'.over = listQuery.over)
         /\ listQuery' # Desk!Idle => listQuery # Desk!Idle
<1>1. listQuery \in {Desk!Idle} \cup SentRec \cup AnsweredRec /\ table \in Desk!Lists
  BY DeskTypes
<1>2. CASE listQuery.phase = "sent"
  <2>1. listQuery \in SentRec /\ listQuery # Desk!Idle
    BY <1>1, <1>2 DEF SentRec, AnsweredRec, Desk!Idle
  <2>2. Desk!Overtaken(listQuery) \in AnsweredRec
    BY <1>1, <2>1 DEF SentRec, AnsweredRec, Desk!Overtaken
  <2>3. /\ Desk!Overtaken(listQuery).phase = "answered"
        /\ Desk!Overtaken(listQuery).over = listQuery.over
    BY DEF Desk!Overtaken
  <2>4. listQuery' = listQuery \/ listQuery' = Desk!Overtaken(listQuery)
    BY <1>2 DEF Desk!Changed
  <2>. QED
    BY <1>1, <2>1, <2>2, <2>3, <2>4
<1>3. CASE listQuery.phase # "sent"
  BY <1>1, <1>3 DEF Desk!Changed
<1>. QED
  BY <1>2, <1>3

\* A change of the table is announced to the tab or leaves it behind: either way
\* the bell is owed a read.
LEMMA Behind ==
  ASSUME DeskInv, table' \in Desk!Lists, Desk!Broadcast, Desk!Changed,
         UNCHANGED <<socket, timer, list, badge, countQuery, bulk, trouble>>,
         acks' \in [Rows -> NoAckRec \cup AckRec]
  PROVE  DeskInv'
<1>0. Desk!DeskTypeOK
  BY DEF DeskInv
<1>1. Desk!DeskTypeOK'
  BY <1>0, DeskTypes, NextDeskTypes, Announced, Overtakes
<1>2. news' > 0 \/ ("list" \in behind' /\ "count" \in behind')
  BY <1>0, Announced
<1>3. listQuery' # Desk!Idle => listQuery'.over = {}
  BY <1>0, Overtakes DEF DeskInv
<1>. QED
  BY <1>1, <1>2, <1>3 DEF DeskInv, ListOwed, CountOwed

\* Nothing was changed: the frame is one more on its way.
LEMMA Echo ==
  ASSUME DeskInv, Desk!Broadcast, UNCHANGED <<table, listQuery, socket, timer, list, badge,
             countQuery, acks, bulk, trouble>>
  PROVE  DeskInv'
<1>0. Desk!DeskTypeOK
  BY DEF DeskInv
<1>1. Desk!DeskTypeOK'
  BY <1>0, DeskTypes, NextDeskTypes, Announced
<1>2. news' > 0 \/ ("list" \in behind' /\ "count" \in behind')
  BY <1>0, Announced
<1>. QED
  BY <1>1, <1>2 DEF DeskInv, ListOwed, CountOwed

LEMMA NewListIs ==
    /\ Desk!NewList \in SentRec /\ Desk!NewList.phase = "sent" /\ Desk!NewList.over = {}
    /\ Desk!NewList # Desk!Idle /\ Desk!Idle.phase = "idle"
  BY DEF Desk!NewList, SentRec, Desk!Idle

\* invalidateQueries: what is shown from now on is read after this moment.
LEMMA AsksAgain ==
  ASSUME DeskInv, Desk!Invalidate, UNCHANGED <<table, news, socket, behind>>,
         list' \in Desk!Lists, badge' \in 0 .. Cardinality(Rows), timer' \in BOOLEAN,
         acks' \in [Rows -> NoAckRec \cup AckRec], bulk' \subseteq Rows,
         trouble' \in 0 .. MaxTrouble
  PROVE  DeskInv'
<1>0. Desk!DeskTypeOK
  BY DEF DeskInv
<1>1. listQuery' = Desk!NewList /\ countQuery' = TRUE
  BY DEF Desk!Invalidate
<1>2. Desk!DeskTypeOK'
  BY <1>0, <1>1, DeskTypes, NextDeskTypes, NewListIs
<1>. QED
  BY <1>1, <1>2, NewListIs DEF DeskInv, ListOwed, CountOwed

LEMMA Troubles ==
  ASSUME Desk!DeskTypeOK, Desk!Trouble \/ trouble' = trouble
  PROVE  trouble' \in 0 .. MaxTrouble
<1>1. trouble \in 0 .. MaxTrouble /\ MaxTrouble \in Nat
  BY DeskTypes, DeskAssumption
<1>. QED
  BY <1>1 DEF Desk!Trouble

LEMMA Ticks ==
  ASSUME Desk!DeskTypeOK, NEW r \in Rows
  PROVE  /\ [table EXCEPT ![r] = Desk!See(@)] \in Desk!Lists
         /\ [list EXCEPT ![r] = Desk!See(@)] \in Desk!Lists
         /\ [table EXCEPT ![r] = "NEW"] \in Desk!Lists
         /\ [table EXCEPT ![r] = "SEEN"] \in Desk!Lists
<1>1. table \in [Rows -> Desk!RowState] /\ list \in [Rows -> Desk!RowState]
  BY DeskTypes DEF Desk!Lists
<1>2. \A x \in Desk!RowState : Desk!See(x) \in Desk!RowState
  BY DEF Desk!See, Desk!RowState
<1>. QED
  BY <1>1, <1>2 DEF Desk!Lists, Desk!RowState

\* Somebody raises, ends or acknowledges a row.
LEMMA WorldKeeps ==
  ASSUME DeskInv, NEW r \in Rows, Desk!World(r)
  PROVE  DeskInv'
<1>0. Desk!DeskTypeOK /\ acks \in [Rows -> NoAckRec \cup AckRec]
  BY DeskTypes DEF DeskInv
<1>1. /\ Desk!Broadcast
      /\ UNCHANGED <<socket, timer, list, badge, countQuery, acks, bulk, trouble>>
      /\ \/ UNCHANGED <<table, listQuery>>
         \/ /\ Desk!Changed
            /\ table' = [table EXCEPT ![r] = "NEW"] \/ table' = [table EXCEPT ![r] = "SEEN"]
  BY DEF Desk!World
<1>2. CASE UNCHANGED <<table, listQuery>>
  BY <1>1, <1>2, Echo
<1>3. CASE ~UNCHANGED <<table, listQuery>>
  <2>1. table' \in Desk!Lists /\ Desk!Changed
    BY <1>0, <1>1, <1>3, Ticks
  <2>. QED
    BY <1>0, <1>1, <2>1, Behind
<1>. QED
  BY <1>2, <1>3

\* The server stamps a row for this tab, if nobody was first.
LEMMA StampKeeps ==
  ASSUME DeskInv, NEW r \in Rows, Desk!Stamp(r),
         UNCHANGED <<socket, timer, list, badge, countQuery, bulk, trouble>>,
         acks' \in [Rows -> NoAckRec \cup AckRec],
         Acking => Acking'
  PROVE  DeskInv'
<1>0. Desk!DeskTypeOK
  BY DEF DeskInv
<1>1. table' = [table EXCEPT ![r] = Desk!See(@)] /\ table' \in Desk!Lists
  BY <1>0, Ticks DEF Desk!Stamp
<1>2. CASE table[r] = "NEW"
  <2>1. Desk!Broadcast /\ Desk!Changed
    BY <1>2 DEF Desk!Stamp
  <2>. QED
    BY <1>1, <2>1, Behind
<1>3. CASE table[r] # "NEW"
  <2>1. UNCHANGED <<news, behind, listQuery>>
    BY <1>3 DEF Desk!Stamp
  <2>2. table' = table
    BY <1>0, <1>1, <1>3, DeskTypes DEF Desk!See, Desk!Lists
  <2>3. Desk!DeskTypeOK'
    BY <1>0, <1>1, <2>1, DeskTypes, NextDeskTypes
  <2>. QED
    BY <2>1, <2>2, <2>3 DEF DeskInv, ListOwed, CountOwed
<1>. QED
  BY <1>2, <1>3

LEMMA NoAckIs == Desk!NoAck \in NoAckRec /\ Desk!NoAck.stage = "idle"
  BY DEF Desk!NoAck, NoAckRec

LEMMA AckIs ==
  ASSUME Desk!DeskTypeOK, NEW r \in Rows, acks[r].stage \in {"asked", "applied"}
  PROVE  /\ acks[r] \in AckRec /\ acks[r] # Desk!NoAck
         /\ acks[r].list \in Desk!Lists /\ acks[r].badge \in 0 .. Cardinality(Rows)
<1>1. acks[r] \in NoAckRec \cup AckRec
  BY DeskTypes
<1>2. acks[r] \in AckRec
  BY <1>1 DEF NoAckRec
<1>. QED
  BY <1>2, NoAckIs DEF AckRec

LEMMA AppliesKeep ==
  ASSUME DeskInv, NEW r \in Rows, Desk!Apply(r) \/ Desk!ApplyOne(r)
  PROVE  DeskInv'
<1>0. Desk!DeskTypeOK /\ acks \in [Rows -> NoAckRec \cup AckRec]
  BY DeskTypes DEF DeskInv
<1>1. CASE Desk!Apply(r)
  <2>. DEFINE a == [acks[r] EXCEPT !.stage = "applied"]
  <2>1. /\ acks[r].stage = "asked" /\ Desk!Stamp(r)
        /\ acks' = [acks EXCEPT ![r] = a]
        /\ UNCHANGED <<socket, timer, list, badge, countQuery, bulk, trouble>>
    BY <1>1 DEF Desk!Apply
  <2>2. acks[r] \in AckRec
    BY <1>0, <2>1, AckIs
  <2>3. a \in AckRec /\ a.stage = "applied"
    BY <2>2 DEF AckRec
  <2>. HIDE DEF a
  <2>4. acks' \in [Rows -> NoAckRec \cup AckRec] /\ acks'[r] # Desk!NoAck
    BY <1>0, <2>1, <2>3, NoAckIs
  <2>5. Acking'
    BY <2>4 DEF Acking, Desk!NoAck
  <2>. QED
    BY <2>1, <2>4, <2>5, StampKeeps
<1>2. CASE Desk!ApplyOne(r)
  <2>1. Acking => Acking'
    BY <1>2 DEF Acking, Desk!ApplyOne
  <2>. QED
    BY <1>0, <1>2, <2>1, StampKeeps DEF Desk!ApplyOne
<1>. QED
  BY <1>1, <1>2

LEMMA AcknowledgeKeeps ==
  ASSUME DeskInv, NEW r \in Rows, Desk!Acknowledge(r)
  PROVE  DeskInv'
<1>0. Desk!DeskTypeOK /\ acks \in [Rows -> NoAckRec \cup AckRec]
  BY DeskTypes DEF DeskInv
<1>. DEFINE a == [stage |-> "asked", list |-> list, badge |-> badge]
<1>1. /\ acks' = [acks EXCEPT ![r] = a]
      /\ list' = [list EXCEPT ![r] = Desk!See(@)]
      /\ badge' = IF badge = 0 THEN 0 ELSE badge - 1
      /\ listQuery' = Desk!Idle /\ countQuery' = FALSE
      /\ UNCHANGED <<table, news, socket, timer, bulk, trouble, behind>>
  BY DEF Desk!Acknowledge
<1>2. list \in Desk!Lists /\ badge \in 0 .. Cardinality(Rows)
  BY <1>0, DeskTypes
<1>3. a \in AckRec /\ a.stage = "asked"
  BY <1>2 DEF AckRec
<1>. HIDE DEF a
<1>4. acks' \in [Rows -> NoAckRec \cup AckRec] /\ acks'[r] # Desk!NoAck
  BY <1>0, <1>1, <1>3, NoAckIs
<1>5. badge' \in 0 .. Cardinality(Rows)
  <2>1. Cardinality(Rows) \in Nat
    BY DeskAssumption, FS_CardinalityType
  <2>. QED
    BY <1>1, <1>2, <2>1
<1>6. Desk!DeskTypeOK'
  BY <1>0, <1>1, <1>4, <1>5, DeskTypes, NextDeskTypes, Ticks
<1>7. Acking'
  BY <1>4 DEF Acking, Desk!NoAck
<1>. QED
  BY <1>1, <1>6, <1>7, NewListIs DEF DeskInv, ListOwed, CountOwed

\* An acknowledgement or a burst of frames is over: both queries are asked again.
LEMMA SettlesKeep ==
  ASSUME DeskInv,
         \/ Desk!TimerFires \/ Desk!BulkSettles
         \/ \E r \in Rows : Desk!Settle(r) \/ Desk!RollBack(r)
  PROVE  DeskInv'
<1>0. /\ Desk!DeskTypeOK /\ acks \in [Rows -> NoAckRec \cup AckRec] /\ timer \in BOOLEAN
      /\ list \in Desk!Lists /\ badge \in 0 .. Cardinality(Rows)
      /\ bulk \subseteq Rows /\ trouble \in 0 .. MaxTrouble
  BY DeskTypes DEF DeskInv
<1>1. CASE Desk!TimerFires
  BY <1>0, <1>1, AsksAgain DEF Desk!TimerFires
<1>2. CASE Desk!BulkSettles
  <2>1. trouble' \in 0 .. MaxTrouble
    BY <1>0, <1>2, DeskAssumption DEF Desk!BulkSettles
  <2>. QED
    BY <1>0, <1>2, <2>1, AsksAgain DEF Desk!BulkSettles
<1>3. ASSUME NEW r \in Rows, Desk!Settle(r) PROVE DeskInv'
  <2>1. acks' \in [Rows -> NoAckRec \cup AckRec]
    BY <1>0, <1>3, NoAckIs DEF Desk!Settle
  <2>. QED
    BY <1>0, <1>3, <2>1, AsksAgain DEF Desk!Settle
<1>4. ASSUME NEW r \in Rows, Desk!RollBack(r) PROVE DeskInv'
  <2>1. /\ acks[r].stage \in {"asked", "applied"} /\ Desk!Trouble
        /\ list' = acks[r].list /\ badge' = acks[r].badge
        /\ acks' = [acks EXCEPT ![r] = Desk!NoAck] /\ Desk!Invalidate
        /\ UNCHANGED <<table, news, socket, timer, bulk, behind>>
    BY <1>4 DEF Desk!RollBack
  <2>2. list' \in Desk!Lists /\ badge' \in 0 .. Cardinality(Rows)
    BY <1>0, <2>1, AckIs
  <2>3. acks' \in [Rows -> NoAckRec \cup AckRec]
    BY <1>0, <2>1, NoAckIs
  <2>4. trouble' \in 0 .. MaxTrouble
    BY <1>0, <2>1, Troubles
  <2>. QED
    BY <1>0, <2>1, <2>2, <2>3, <2>4, AsksAgain
<1>. QED
  BY <1>1, <1>2, <1>3, <1>4

\* The socket, the first frame of a burst, and what a poll or a dispatcher starts.
LEMMA StartsKeep ==
  ASSUME DeskInv, \/ Desk!SocketDrops \/ Desk!SocketReturns \/ Desk!Frame
                  \/ Desk!PollList \/ Desk!PollCount \/ Desk!AcknowledgeAll
  PROVE  DeskInv'
<1>0. /\ Desk!DeskTypeOK /\ news \in 0 .. MaxNews /\ MaxNews \in Nat
      /\ behind \subseteq Desk!Queries /\ MaxTrouble \in Nat
  BY DeskTypes, DeskAssumption DEF DeskInv
<1>1. CASE Desk!SocketDrops
  <2>1. /\ Desk!Trouble /\ socket' = FALSE /\ news' = 0
        /\ behind' = IF news > 0 THEN Desk!Queries ELSE behind
        /\ UNCHANGED <<table, timer, list, badge, listQuery, countQuery, acks, bulk>>
    BY <1>1 DEF Desk!SocketDrops
  <2>2. trouble' \in 0 .. MaxTrouble
    BY <1>0, <2>1, Troubles
  <2>3. behind' \subseteq Desk!Queries /\ news' \in 0 .. MaxNews
    BY <1>0, <2>1
  <2>4. Desk!DeskTypeOK'
    BY <1>0, <2>1, <2>2, <2>3, DeskTypes, NextDeskTypes
  <2>5. CASE news > 0
    BY <2>1, <2>4, <2>5 DEF DeskInv, ListOwed, CountOwed, Desk!Queries
  <2>6. CASE ~(news > 0)
    BY <2>1, <2>4, <2>6 DEF DeskInv, ListOwed, CountOwed, Acking
  <2>. QED
    BY <2>5, <2>6
<1>2. CASE Desk!SocketReturns
  <2>1. Desk!DeskTypeOK'
    BY <1>0, <1>2, DeskTypes, NextDeskTypes DEF Desk!SocketReturns
  <2>. QED
    BY <1>2, <2>1 DEF Desk!SocketReturns, DeskInv, ListOwed, CountOwed, Acking
<1>3. CASE Desk!Frame
  <2>1. /\ news' = news - 1 /\ news > 0 /\ timer' = TRUE
        /\ UNCHANGED <<table, socket, list, badge, listQuery, countQuery, acks, bulk, trouble,
                       behind>>
    BY <1>3 DEF Desk!Frame
  <2>2. Desk!DeskTypeOK'
    BY <1>0, <2>1, DeskTypes, NextDeskTypes
  <2>. QED
    BY <2>1, <2>2 DEF DeskInv, ListOwed, CountOwed
<1>4. CASE Desk!PollList
  <2>1. /\ listQuery' = Desk!NewList
        /\ UNCHANGED <<table, news, socket, timer, list, badge, countQuery, acks, bulk, trouble,
                       behind>>
    BY <1>4 DEF Desk!PollList
  <2>2. Desk!DeskTypeOK'
    BY <1>0, <2>1, DeskTypes, NextDeskTypes, NewListIs
  <2>. QED
    BY <2>1, <2>2, NewListIs DEF DeskInv, ListOwed, CountOwed, Acking
<1>5. CASE Desk!PollCount
  <2>1. /\ countQuery' = TRUE
        /\ UNCHANGED <<table, news, socket, timer, list, badge, listQuery, acks, bulk, trouble,
                       behind>>
    BY <1>5 DEF Desk!PollCount
  <2>2. Desk!DeskTypeOK'
    BY <1>0, <2>1, DeskTypes, NextDeskTypes
  <2>. QED
    BY <2>1, <2>2 DEF DeskInv, ListOwed, CountOwed, Acking
<1>6. CASE Desk!AcknowledgeAll
  <2>1. /\ bulk' \subseteq Rows
        /\ UNCHANGED <<table, news, socket, timer, list, badge, listQuery, countQuery, acks,
                       trouble, behind>>
    BY <1>6 DEF Desk!AcknowledgeAll
  <2>2. Desk!DeskTypeOK'
    BY <1>0, <2>1, DeskTypes, NextDeskTypes
  <2>. QED
    BY <2>1, <2>2 DEF DeskInv, ListOwed, CountOwed, Acking
<1>. QED
  BY <1>1, <1>2, <1>3, <1>4, <1>5, <1>6

\* An answer lands, or none comes.
LEMMA LandsKeep ==
  ASSUME DeskInv, Desk!LandList \/ Desk!LandCount \/ Desk!QueryFails
  PROVE  DeskInv'
<1>0. /\ Desk!DeskTypeOK /\ table \in Desk!Lists /\ behind \subseteq Desk!Queries
      /\ listQuery \in {Desk!Idle} \cup SentRec \cup AnsweredRec
  BY DeskTypes DEF DeskInv
<1>1. CASE Desk!LandList
  <2>1. /\ listQuery # Desk!Idle /\ listQuery' = Desk!Idle
        /\ IF listQuery.phase = "sent"
           THEN list' = table /\ behind' = behind \ {"list"}
           ELSE list' = listQuery.value /\ UNCHANGED behind
        /\ UNCHANGED <<table, news, socket, timer, badge, countQuery, acks, bulk, trouble>>
    BY <1>1 DEF Desk!LandList
  <2>2. CASE listQuery.phase = "sent"
    <3>1. Desk!DeskTypeOK'
      BY <1>0, <2>1, <2>2, DeskTypes, NextDeskTypes
    <3>. QED
      BY <2>1, <2>2, <3>1, NewListIs DEF DeskInv, ListOwed, CountOwed, Acking
  <2>3. CASE listQuery.phase # "sent"
    <3>1. listQuery \in AnsweredRec
      BY <1>0, <2>1, <2>3 DEF SentRec
    <3>2. listQuery.phase = "answered" /\ list' \in Desk!Lists
      BY <2>1, <2>3, <3>1 DEF AnsweredRec
    <3>3. Desk!DeskTypeOK'
      BY <1>0, <2>1, <2>3, <3>2, DeskTypes, NextDeskTypes
    <3>. QED
      BY <2>1, <2>3, <3>2, <3>3, NewListIs DEF DeskInv, ListOwed, CountOwed, Acking
  <2>. QED
    BY <2>2, <2>3
<1>2. CASE Desk!LandCount
  <2>1. /\ countQuery' = FALSE /\ badge' = Desk!Unacknowledged(table)
        /\ behind' = behind \ {"count"}
        /\ UNCHANGED <<table, news, socket, timer, list, listQuery, acks, bulk, trouble>>
    BY <1>2 DEF Desk!LandCount
  <2>2. Desk!DeskTypeOK'
    BY <1>0, <2>1, Counts, DeskTypes, NextDeskTypes
  <2>3. badge' = Desk!Unacknowledged(table)'
    BY <2>1 DEF Desk!Unacknowledged
  <2>. QED
    BY <2>1, <2>2, <2>3 DEF DeskInv, ListOwed, CountOwed, Acking
<1>3. CASE Desk!QueryFails
  <2>1. /\ Desk!Trouble
        /\ \/ listQuery' = Desk!Idle /\ behind' = behind \cup {"list"}
              /\ UNCHANGED countQuery
           \/ countQuery' = FALSE /\ behind' = behind \cup {"count"} /\ UNCHANGED listQuery
        /\ UNCHANGED <<table, news, socket, timer, list, badge, acks, bulk>>
    BY <1>3 DEF Desk!QueryFails
  <2>2. trouble' \in 0 .. MaxTrouble
    BY <1>0, <2>1, Troubles
  <2>3. behind' \subseteq Desk!Queries
    BY <1>0, <2>1 DEF Desk!Queries
  <2>4. Desk!DeskTypeOK'
    BY <1>0, <2>1, <2>2, <2>3, DeskTypes, NextDeskTypes
  <2>. QED
    BY <2>1, <2>4, NewListIs DEF DeskInv, ListOwed, CountOwed, Acking
<1>. QED
  BY <1>1, <1>2, <1>3

LEMMA DeskStarts ==
  ASSUME Desk!DeskInit
  PROVE  DeskInv
<1>1. /\ table = [r \in Rows |-> "NONE"] /\ list = table
      /\ news = 0 /\ socket = TRUE /\ timer = FALSE
      /\ badge = 0 /\ listQuery = Desk!Idle /\ countQuery = FALSE
      /\ acks = [r \in Rows |-> Desk!NoAck]
      /\ bulk = {} /\ trouble = 0 /\ behind = {}
  BY DEF Desk!DeskInit
<1>2. Cardinality(Rows) \in Nat
  BY DeskAssumption, FS_CardinalityType
<1>3. table \in Desk!Lists
  BY <1>1 DEF Desk!Lists, Desk!RowState
<1>4. Desk!DeskTypeOK
  <2>1. news \in 0 .. MaxNews /\ badge \in 0 .. Cardinality(Rows) /\ trouble \in 0 .. MaxTrouble
    BY <1>1, <1>2, DeskAssumption
  <2>2. acks \in [Rows -> NoAckRec \cup AckRec]
    BY <1>1, NoAckIs
  <2>. QED
    BY <1>1, <1>3, <2>1, <2>2, DeskTypes
<1>5. Desk!Unacknowledged(table) = 0
  <2>1. { r \in Rows : table[r] = "NEW" } = {}
    BY <1>1
  <2>2. Desk!Unacknowledged(table) = Cardinality({})
    BY <2>1 DEF Desk!Unacknowledged, Desk!Cardinality, Cardinality
  <2>. QED
    BY <2>2, FS_EmptySet
<1>. QED
  BY <1>1, <1>4, <1>5, NewListIs DEF DeskInv

LEMMA DeskKeeps ==
  ASSUME DeskInv, Desk!DeskNext
  PROVE  DeskInv'
  BY WorldKeeps, AppliesKeep, AcknowledgeKeeps, SettlesKeep, StartsKeep, LandsKeep
     DEF Desk!DeskNext, Desk!Fetching, Desk!Answers, Desk!Bulk

\* Whose tick is taken back, and by what.
LEMMA UntickStep ==
  ASSUME DeskInv, Desk!DeskNext
  PROVE  Desk!UntickHasACauseStep
<1>. SUFFICES ASSUME NEW r \in Rows, acks[r] # Desk!NoAck, list[r] = "SEEN", list'[r] = "NEW"
              PROVE  \/ listQuery # Desk!Idle /\ r \notin listQuery.over
                     \/ \E q \in Rows : acks[q] # Desk!NoAck /\ acks'[q] = Desk!NoAck
  BY DEF Desk!UntickHasACauseStep
<1>0. Desk!DeskTypeOK /\ list \in Desk!Lists /\ acks \in [Rows -> NoAckRec \cup AckRec]
  BY DeskTypes DEF DeskInv
<1>1. CASE Desk!LandList
  BY <1>1 DEF Desk!LandList, DeskInv
<1>2. ASSUME NEW q \in Rows, Desk!RollBack(q)
      PROVE  acks[q] # Desk!NoAck /\ acks'[q] = Desk!NoAck
  <2>1. acks[q].stage \in {"asked", "applied"} /\ acks' = [acks EXCEPT ![q] = Desk!NoAck]
    BY <1>2 DEF Desk!RollBack
  <2>. QED
    BY <1>0, <2>1, AckIs
<1>3. ASSUME NEW q \in Rows, Desk!Acknowledge(q) PROVE list'[r] # "NEW"
  <2>1. list' = [list EXCEPT ![q] = Desk!See(@)]
    BY <1>3 DEF Desk!Acknowledge
  <2>. QED
    BY <1>0, <2>1 DEF Desk!See, Desk!Lists
<1>4. ASSUME NEW q \in Rows, Desk!World(q) \/ Desk!Apply(q) \/ Desk!Settle(q) \/ Desk!ApplyOne(q)
      PROVE  list' = list
  BY <1>4 DEF Desk!World, Desk!Apply, Desk!Settle, Desk!ApplyOne
<1>5. Desk!Frame \/ Desk!TimerFires \/ Desk!LandCount \/ Desk!PollList \/ Desk!PollCount
        => list' = list
  BY DEF Desk!Frame, Desk!TimerFires, Desk!LandCount, Desk!PollList, Desk!PollCount
<1>6. Desk!QueryFails \/ Desk!SocketDrops \/ Desk!SocketReturns \/ Desk!Bulk => list' = list
  BY DEF Desk!QueryFails, Desk!SocketDrops, Desk!SocketReturns, Desk!Bulk,
     Desk!AcknowledgeAll, Desk!BulkSettles
<1>. QED
  BY <1>1, <1>2, <1>3, <1>4, <1>5, <1>6 DEF Desk!DeskNext, Desk!Fetching, Desk!Answers

\* The jobs and the bell, each in a behaviour of its own.
BellInv == IInv /\ (scene = "desk" => DeskInv)

LEMMA BellParts ==
  ASSUME [BellNext]_BellVars
  PROVE  /\ scene' = scene /\ [Next]_vars
         /\ scene = "desk" => Desk!DeskNext \/ UNCHANGED deskVars
  BY DEF BellNext, BellVars

LEMMA BellKeeps ==
  ASSUME BellInv, [BellNext]_BellVars
  PROVE  BellInv'
<1>1. IInv'
  BY BellParts, StepIInv DEF BellInv
<1>2. ASSUME DeskInv, UNCHANGED deskVars PROVE DeskInv'
  <2>1. Desk!DeskTypeOK'
    BY <1>2, DeskTypes, NextDeskTypes DEF DeskInv, deskVars
  <2>2. UNCHANGED <<table, news, timer, list, badge, listQuery, countQuery, acks, behind>>
    BY <1>2 DEF deskVars
  <2>. QED
    BY <1>2, <2>1, <2>2 DEF DeskInv, ListOwed, CountOwed, Acking, Desk!Unacknowledged
<1>. QED
  BY <1>1, <1>2, BellParts, DeskKeeps DEF BellInv

LEMMA BellInvHolds == BellSpec => []BellInv
<1>1. BellInit => BellInv
  BY InitIInv, DeskStarts DEF BellInit, BellInv
<1>. QED
  BY <1>1, BellKeeps, PTL DEF BellSpec

\* The rows, the executions and the locks keep their shapes: an execution's
\* list, hand and place in its job are always ones the code can be in.
THEOREM TypeCorrect == Spec => []TypeOK
  BY Invariance, PTL DEF IInv

\* However many executions of a job overlap after a lock ran out, and wherever
\* one of them or a dispatcher stops: each transition of an alert is published at
\* most once, a silence that ended is logged at most once, a logged arrival is
\* on the desk, on its way or lost with its execution, and two executions of one
\* job meet only after the lock of one ran out.
THEOREM JobsStayOrderly == Spec => []JobsAreOrderly
<1>1. IInv => JobsAreOrderly
  BY RecoveriesAreOutages DEF IInv, Telling, JobsAreOrderly
<1>. QED
  BY <1>1, Invariance, PTL

\* The rows and executions behind the desk and everything the bell keeps stay
\* within their types.
THEOREM BellTypes == BellSpec => []BellTypeOK
<1>1. BellInv => BellTypeOK
  BY DEF BellInv, BellTypeOK, IInv, DeskInv
<1>. QED
  BY <1>1, BellInvHolds, PTL

\* When nothing is on its way to a tab, its list and its number are those of the
\* table, whatever cancelled requests, rollbacks, bursts and outages came before;
\* only a query that missed a frame may differ (useAlerts.ts).
THEOREM QuietBellIsCurrent == BellSpec => []BellIsCurrent
<1>1. ASSUME DeskInv, Desk!Quiet PROVE Desk!QuietIsCurrent
  <2>1. /\ news = 0 /\ ~timer /\ listQuery = Desk!Idle /\ ~countQuery
        /\ \A r \in Rows : acks[r] = Desk!NoAck
    BY <1>1 DEF Desk!Quiet
  <2>2. ~ListOwed /\ ~CountOwed
    BY <2>1, NewListIs DEF ListOwed, CountOwed, Acking
  <2>. QED
    BY <1>1, <2>2 DEF DeskInv, Desk!QuietIsCurrent
<1>2. BellInv => BellIsCurrent
  BY <1>1 DEF BellInv, BellIsCurrent, Desk!QuietIsCurrent
<1>. QED
  BY <1>2, BellInvHolds, PTL

\* A tick under way is taken back by a later read or a failed acknowledgement
\* only: onMutate cancels every read that began before it (useAlerts.ts).
THEOREM UnticksHaveACause == BellSpec => UntickHasACause
<1>1. ASSUME BellInv, [BellNext]_BellVars
      PROVE  [scene = "desk" => Desk!UntickHasACauseStep]_BellVars
  <2>1. CASE UNCHANGED deskVars
    BY <2>1 DEF Desk!UntickHasACauseStep, deskVars
  <2>2. CASE scene = "desk" /\ Desk!DeskNext
    BY <1>1, <2>2, UntickStep DEF BellInv
  <2>. QED
    BY <1>1, <2>1, <2>2, BellParts
<1>. QED
  BY <1>1, BellInvHolds, PTL DEF BellSpec, UntickHasACause

=============================================================================

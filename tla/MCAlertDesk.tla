----------------------------- MODULE MCAlertDesk -----------------------------
(***************************************************************************)
(* From the jobs that raise an alert (Alerts) to the bell and the list a   *)
(* dispatcher sees (AlertDesk), for TLC.  The parts share no state here:   *)
(* each behaviour is of one of them, those of the other stand still.       *)
(***************************************************************************)
EXTENDS MCAlerts

CONSTANTS
    Rows, MaxNews, MaxTrouble

ASSUME DeskAssumption == IsFiniteSet(Rows) /\ MaxNews \in Nat /\ MaxTrouble \in Nat

VARIABLES
    scene,         \* the part this behaviour is of
    table, news, socket, timer, list, badge, listQuery, countQuery, acks, bulk,
    trouble, behind

Desk == INSTANCE AlertDesk

deskVars == <<table, news, socket, timer, list, badge, listQuery, countQuery,
    acks, bulk, trouble, behind>>

Off == "off"
Scenes == {"alerts", "desk"}

BellInit ==
    /\ scene \in Scenes
    /\ Init
    /\ scene = "desk" => /\ watch = CHOOSE w \in Watches : TRUE
                         /\ \A s \in Sessions : ~ship[s].settled
    /\ IF scene = "desk" THEN Desk!DeskInit
       ELSE /\ table = Off /\ news = Off /\ socket = Off /\ timer = Off
            /\ list = Off /\ badge = Off /\ listQuery = Off /\ countQuery = Off
            /\ acks = Off /\ bulk = Off /\ trouble = Off /\ behind = Off

BellNext ==
    \/ scene = "alerts" /\ Next
          /\ UNCHANGED <<scene, deskVars>>
    \/ scene = "desk" /\ Desk!DeskNext
          /\ UNCHANGED <<scene, vars>>

BellVars == <<scene, vars, deskVars>>
BellSpec == BellInit /\ [][BellNext]_BellVars

-----------------------------------------------------------------------------
BellTypeOK == TypeOK /\ (scene = "desk" => Desk!DeskTypeOK)

\* When nothing is on its way to a tab, its bell and its list are the table.
BellIsCurrent == scene = "desk" => Desk!QuietIsCurrent

\* A tick of the dispatcher's own is taken back by a later read or a refusal only.
UntickHasACause == [][scene = "desk" => Desk!UntickHasACauseStep]_BellVars

=============================================================================

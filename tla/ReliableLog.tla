---------------------------- MODULE ReliableLog ----------------------------
(***************************************************************************)
(* What the offline-first pipeline promises about each fix, with no word   *)
(* about batches, retries or crashes (the comment that opens the class in  *)
(* TrackingRepository.kt): a fix the phone captured stays on the phone     *)
(* until the server holds it, and the only two other ways out are the ones *)
(* the code owns up to, the buffer cap and the server's validity check.    *)
(***************************************************************************)
EXTENDS Naturals, FiniteSets

CONSTANTS
    Points,
    Suspect,       \* fixes the server may refuse
    MaxRows        \* fixes the phone can hold

VARIABLES
    captured,      \* fixes taken so far
    held,          \* fixes on the phone
    delivered      \* fixes on the server

logVars == <<captured, held, delivered>>

Init == captured = {} /\ held = {} /\ delivered = {}

\* A new fix; at the cap it costs one fix, possibly itself.
Capture(p) ==
    /\ p \in Points \ captured
    /\ captured' = captured \cup {p}
    /\ IF Cardinality(held) < MaxRows
       THEN held' = held \cup {p}
       ELSE \E lost \in held \cup {p} : held' = (held \cup {p}) \ {lost}
    /\ UNCHANGED delivered

\* The server takes fixes that were captured, each once and for good.  A fix
\* dropped at the cap may still arrive from a request sent before.
Deliver(S) ==
    /\ S \subseteq captured
    /\ delivered' = delivered \cup S
    /\ UNCHANGED <<captured, held>>

\* The phone lets go only of fixes the server holds or will not hold.
LetGo(S) ==
    /\ S \subseteq held
    /\ S \subseteq delivered \cup Suspect
    /\ held' = held \ S
    /\ UNCHANGED <<captured, delivered>>

Next ==
    \/ \E p \in Points : Capture(p)
    \/ \E S \in SUBSET captured : Deliver(S)
    \/ \E S \in SUBSET held : LetGo(S)

Spec == Init /\ [][Next]_logVars

=============================================================================

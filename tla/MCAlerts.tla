------------------------------ MODULE MCAlerts ------------------------------
\* Instances of Alerts for TLC.  Each behaviour watches one kind: the job of
\* that kind and the one that closes what finished shipments leave open, so that
\* kinds that never meet are not multiplied with each other.
EXTENDS Alerts, TLC

EveryKind == { [s \in Sessions |-> {kind}] : kind \in AllKinds }

SilenceOnly == { [s \in Sessions |-> {"SIGNAL_LOST"}] }

\* The fair behaviours that watch silences, for a run about liveness alone.
SilenceNext == watch \in SilenceOnly /\ Next
SilenceSpec == Init /\ [][SilenceNext]_vars /\ Fairness

LookedAt == {"NOT_STARTED"}
Executors == Permutations(Executions)
=============================================================================

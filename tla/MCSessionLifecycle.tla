------------------------- MODULE MCSessionLifecycle -------------------------
\* Instances of SessionLifecycle for TLC.
EXTENDS SessionLifecycle, TLC

\* Sessions, phones and dispatchers are interchangeable.
Symmetry == Permutations(Sessions) \cup Permutations(Devices) \cup Permutations(Dispatchers)

=============================================================================

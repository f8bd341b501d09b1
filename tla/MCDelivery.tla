---------------------------- MODULE MCDelivery ----------------------------
\* Instances of Delivery for TLC.  A server that takes one point per request
\* makes every chunk of two meet the 413 path.
EXTENDS Delivery, TLC

TwoPoints == 1..2
ThreePoints == 1..3
First == {1}
Second == {2}
Nothing == {}

\* Batch ids are random: which one a chunk got says nothing.
BatchSymmetry == Permutations(Batches)

=============================================================================

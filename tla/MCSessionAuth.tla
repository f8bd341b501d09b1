--------------------------- MODULE MCSessionAuth ---------------------------
\* Instances of SessionAuth for TLC.
EXTENDS SessionAuth

=============================================================================

-------------------------- MODULE MCDriverMessages --------------------------
\* Instances of DriverMessages for TLC.
EXTENDS DriverMessages

=============================================================================

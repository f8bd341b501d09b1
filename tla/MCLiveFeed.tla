----------------------------- MODULE MCLiveFeed -----------------------------
\* Three fixes of one truck, one of which the server may refuse; a page that
\* keeps one segment and a server that streams segments of two.
EXTENDS LiveFeed

MCPoints == 1..3
MCSuspect == {2}

=============================================================================

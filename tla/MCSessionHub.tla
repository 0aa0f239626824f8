---------------------------- MODULE MCSessionHub ----------------------------
EXTENDS SessionHub

CONSTANTS p1, p2, s1, s2

MCProcs == {p1, p2}
MCSubs == {s1, s2}
=============================================================================

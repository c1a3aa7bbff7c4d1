---------------------------- MODULE MCMirrorSync ----------------------------
EXTENDS MirrorSync, TLC

CONSTANTS p1, p2, a, b, t1, t2, t3, stub

\* t2 is t1 with another description; t3 has a body of its own.
Bodies == [t \in Text \cup {stub} |-> CASE t = stub -> 0 [] t = t3 -> 3 [] OTHER -> 1]

=============================================================================

-------------------------- MODULE MCDomainLifecycle --------------------------
EXTENDS DomainLifecycle, TLC

CONSTANTS d1, d2, p1, p2, s1, s2

OneEach == (s1 :> p1) @@ (s2 :> p2)

\* p1 comes and goes; the operator works from p2.
Roles == (s1 :> {"enroll", "move", "unenroll", "visit"})
         @@ (s2 :> {"unregister", "deleting", "cancel"})
=============================================================================

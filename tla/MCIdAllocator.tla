---------------------------- MODULE MCIdAllocator ----------------------------
EXTENDS IdAllocator, TLC

CONSTANTS a1, a2, p1, p2

\* Two sprints create one child each under the same parent.
TwoProcesses == (a1 :> p1) @@ (a2 :> p2)
==============================================================================

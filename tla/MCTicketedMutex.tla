--------------------------- MODULE MCTicketedMutex ---------------------------
EXTENDS TicketedMutex, TLC

CONSTANTS r1, r2, r3, r4, s1, s2, p1, p2

\* Both sprints push for two members at once; one bracket of s2 gave no pid.
MCSprintOf == (r1 :> s1) @@ (r2 :> s1) @@ (r3 :> s2) @@ (r4 :> s2)
MCPidOf == (r1 :> p1) @@ (r2 :> p1) @@ (r3 :> p2) @@ (r4 :> NoPid)
==============================================================================

---------------------------- MODULE MCPushBracket ----------------------------
EXTENDS PushBracket, TLC

CONSTANTS r1, r2, r3, s1, s2, p1, p2

\* Sprint s1 pushes for two members at once, sprint s2 for one; every bracket
\* records the pid of its sprint's process.
MCSprintOf == (r1 :> s1) @@ (r2 :> s1) @@ (r3 :> s2)
MCPidOf == (r1 :> p1) @@ (r2 :> p1) @@ (r3 :> p2)
==============================================================================

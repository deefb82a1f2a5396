--------------------------- MODULE MCPauseResume ---------------------------
(* A small instance of PauseResume: two strands, two members, one operator. *)
EXTENDS PauseResume

CONSTANTS b1, b2, m1, m2

TwoMembers == <<m1, m2>>
=============================================================================

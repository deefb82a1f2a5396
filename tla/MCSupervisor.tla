---------------------------- MODULE MCSupervisor ----------------------------
EXTENDS Supervisor, TLC

CONSTANTS s1, s2, p1, p2, timer, page

Both == {{s1, s2}}
==============================================================================

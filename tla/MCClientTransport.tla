------------------------- MODULE MCClientTransport --------------------------
EXTENDS ClientTransport, TLC

CONSTANTS r1, r2
==============================================================================

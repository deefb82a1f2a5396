----------------------------- MODULE MCHubRelay -----------------------------
EXTENDS HubRelay, TLC

CONSTANT r1
==============================================================================

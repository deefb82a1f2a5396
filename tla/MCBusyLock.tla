----------------------------- MODULE MCBusyLock -----------------------------
EXTENDS BusyLock, TLC

CONSTANTS d1, d2, d3, s1

\* Dispatches are interchangeable.
Symmetry == Permutations(Dispatches)
==============================================================================

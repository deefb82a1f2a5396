CONSTANTS
    d1 = d1
    d2 = d2
    d3 = d3
    s1 = s1
    Dispatches = {d1, d2, d3}
    Stops = {s1}
    Cancellers = {}
    Retriers = {}
    MaxAttempts = 1
    None = None
SPECIFICATION Spec
INVARIANTS TypeOK LockHasOwner ExclusiveUnlessBreached WatchHasOwner
PROPERTIES StallHitsTheWatched
SYMMETRY Symmetry
CHECK_DEADLOCK FALSE

CONSTANTS
    d1 = d1
    d2 = d2
    d3 = d3
    s1 = s1
    Dispatches = {d1, d2}
    Stops = {}
    Cancellers = {d2}
    Retriers = {d1}
    MaxAttempts = 2
    None = None
SPECIFICATION LiveSpec
PROPERTIES LockFreed
CHECK_DEADLOCK FALSE

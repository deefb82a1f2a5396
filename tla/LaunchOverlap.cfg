CONSTANTS
    s1 = s1
    s2 = s2
    p1 = p1
    p2 = p2
    timer = timer
    page = page
    Sprints = {s1, s2}
    Pids = {p1, p2}
    Ports = {1, 2}
    MemberConflicts <- Both
    ScopeConflicts <- Both
    Watchers = {timer}
    Timer = timer
    MaxFaults = 0
    Forceable = {}
    Reusable = {}
    Foreign = Foreign
    None = None
SPECIFICATION Spec
CHECK_DEADLOCK FALSE
INVARIANT NoOverlap

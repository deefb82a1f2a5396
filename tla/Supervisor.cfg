CONSTANTS
    s1 = s1
    s2 = s2
    p1 = p1
    p2 = p2
    timer = timer
    page = page
    Sprints = {s1}
    Pids = {p1}
    Ports = {1}
    MemberConflicts = {}
    ScopeConflicts = {}
    Watchers = {timer, page}
    Timer = timer
    MaxFaults = 1
    Forceable = {s1}
    Reusable = {p1, p2}
    Foreign = Foreign
    None = None
SPECIFICATION LiveSpec
INVARIANTS TypeOK  ExitIsInHistory VerdictsOnce
PROPERTIES GrowsOnceLoaded DeadIsReleased
CHECK_DEADLOCK FALSE

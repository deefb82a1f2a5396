CONSTANTS
    r1 = r1
    Requests = {r1}
    Origin = origin
    Target = target
    QueueCap = 1
    Large = {}
    MaxRuns = 1
    MaxUpdates = 1
    MaxFaults = 0
    Expiring = {}
    None = None
SPECIFICATION Spec
INVARIANT UpdateIsNoAnswer
CHECK_DEADLOCK FALSE

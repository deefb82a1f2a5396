CONSTANTS
    r1 = r1
    r2 = r2
    r3 = r3
    s1 = s1
    s2 = s2
    p1 = p1
    p2 = p2
    NoPid = NoPid
    None = None
    Requests = {r1, r3}
    SprintOf <- MCSprintOf
    PidOf <- MCPidOf
    LeaseMs = 5
    RenewMs = 2
    MaxRestarts = 1
SPECIFICATION BracketSpec
INVARIANTS BracketTypeOK TimelyRenewalKeepsMutex
PROPERTIES AcquireAnswered MutexNeverWedged
CHECK_DEADLOCK FALSE

CONSTANTS
    r1 = r1
    r2 = r2
    r3 = r3
    r4 = r4
    s1 = s1
    s2 = s2
    p1 = p1
    p2 = p2
    NoPid = NoPid
    None = None
    Requests = {r1, r2, r3, r4}
    SprintOf <- MCSprintOf
    PidOf <- MCPidOf
    LeaseMs = 2
SPECIFICATION TicketSpec
INVARIANTS PromisesMatchQueue NeverIdleWithWaiters ByTokenIsHolder TicketsMatchMutex
PROPERTIES FifoGrants PollingEnds TicketsDrain
CHECK_DEADLOCK FALSE

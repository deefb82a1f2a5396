CONSTANTS
    b1 = b1
    b2 = b2
    m1 = m1
    m2 = m2
    Branches = {b1, b2}
    Limited = {b1}
    MemberList <- TwoMembers
    Contended = {m2}
    Operator = operator
    This = this
    Other = other
    None = None
    MaxCalls = 1
    MaxPauses = 2
    MaxLimits = 1
    MaxFaults = 1
SPECIFICATION LiveSpec
INVARIANTS TypeOK PausedIsQuiet BoundaryEngages RunsReserved
PROPERTIES GateOpens
CHECK_DEADLOCK FALSE

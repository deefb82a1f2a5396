CONSTANTS
    a1 = a1
    a2 = a2
    p1 = p1
    p2 = p2
    Calls = {a1, a2}
    PidOf <- TwoProcesses
    MaxFloor = 2
    MaxCrashes = 1
SPECIFICATION Spec
INVARIANTS TypeOK DocumentsConsistent
PROPERTIES KeepsPromise ReservationsEnd
CHECK_DEADLOCK FALSE

CONSTANTS
    r1 = r1
    r2 = r2
    Requests = {r1, r2}
    SendRetries = 2
    MaxStops = 1
    MaxFaults = 1
SPECIFICATION LiveSpec
INVARIANTS TypeOK RunsAreAccounted
PROPERTIES Settles
CHECK_DEADLOCK FALSE

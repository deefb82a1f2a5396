CONSTANTS
    r1 = r1
    Requests = {r1}
    Origin = origin
    Target = target
    QueueCap = 1
    Large = {"request", "result"}
    MaxRuns = 2
    MaxUpdates = 1
    MaxFaults = 1
    Expiring = {"request", "result"}
    None = None
SPECIFICATION LiveSpec
INVARIANTS TypeOK HandledOncePerMemory AnswersAreFounded
PROPERTIES PromiseSpec RunOrExpired
CHECK_DEADLOCK FALSE

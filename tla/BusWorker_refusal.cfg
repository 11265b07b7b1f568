SPECIFICATION RefusalSpec
CONSTANTS
    t1 = t1
    Task = {t1}
    Submitted = {t1}
    Reason = {r1}
    None = None
    MAX_PENDING_CANCELLATIONS = 1
    MAX_RETIRED_TASKS = 1
    MaxCallers = 1
    Priority <- Flat
    Prepared = {t1}
    Rejected = {}
    HasDeadline = {}
    Capacity = 1
    EventCapacity = 4
    MaxAttempts = 1
    MaxCalls = 0
    Durable = TRUE
    Faults = {"unleased"}
INVARIANTS
    OnlyEventWritesStopWorker

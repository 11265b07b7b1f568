SPECIFICATION SettingsSpec
CONSTANTS
    t1 = t1
    t2 = t2
    t3 = t3
    t4 = t4
    r1 = r1
    r2 = r2
    Task = {t1, t2, t3}
    Submitted = {t1, t2, t3}
    Reason = {r1}
    None = None
    MAX_PENDING_CANCELLATIONS = 1
    MAX_RETIRED_TASKS = 1
    MaxCallers = 1
    Priority <- T2Urgent
    Prepared = {t2}
    Rejected = {t1, t3}
    HasDeadline = {t2}
    Capacity = 2
    EventCapacity = 1
    MaxAttempts = 1
    MaxCalls = 0
    Durable = TRUE
    Faults = {}
    Nobody = Nobody
    OffTask = {"t1", "t2", "t3"}
    Token = {"k1"}
    Old = "old"
    ResourceOf <- MCResourceOf
    Legacy = {"t1", "t2", "t3"}
    Decision = {"d1", "d2"}
    MaxFaults = 1
    OffFences = 3
INVARIANTS
    OfflineCloses
    FifoWithinPriority
    DrainedOnExit
PROPERTIES
    TablesKeepReason
    ReleaseAccountedFor

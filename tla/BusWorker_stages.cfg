SPECIFICATION SettingsSpec
CONSTANTS
    t1 = t1
    Task = {t1, t2}
    Submitted = {t1}
    Reason = {r1}
    None = None
    MAX_PENDING_CANCELLATIONS = 1
    MAX_RETIRED_TASKS = 1
    MaxCallers = 1
    Priority <- Flat
    Prepared = {}
    Rejected = {}
    HasDeadline = {t1}
    Capacity = 1
    EventCapacity = 3
    MaxAttempts = 2
    MaxCalls = 2
    Durable = FALSE
    Faults = {"refused"}
INVARIANTS
    RetriedGrammar
    DurableStream
    ArmedNeverDispatched
PROPERTIES
    SignalEndsTask
    RacedShutdown

SPECIFICATION Spec
CONSTANTS
    NEvents = 2
    Timelines <- MCTimelines
    MaxStarts = 2
    MaxFaults = 2
    MaxRevision = 3
    RetryLimit = 1
    DedupCapacity = 1
    LedgerCapacity = 1
    DrainBatch = 2
    Offered <- mcOffered
    Exposed <- mcExposed
    Allowed <- mcAllowed
    Handler = {1, 2}
    InTask = {i1, i2, i3}
    Local = {l1}
    None = None
    Epochs = 2
    Calls = 2
    DispatchCost = 2
    Faults = 1
    QueueCapacity = 1
    Attempts = 2
    MaxPolls = 2
    Batch = 1
    Low = 0
    Ceiling = 1
    GwEvent <- mcEvents
    AllowedSender = {"peer"}
    GwRuntimes = 2
    GwDeliveries = 3
    GwFaults = 2
    GwCapacity = 1
    RetainedHigh = 4
INVARIANTS
    WatermarkCovered
    AppliedOnce
    ExchangeOnce
    CleanStopsRestart
    HandoffKept
PROPERTIES
    TransportsSettle
CHECK_DEADLOCK FALSE

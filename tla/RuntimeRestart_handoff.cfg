SPECIFICATION HandoffSpec
CONSTANTS
    t1 = t1
    t2 = t2
    t3 = t3
    Token = {1, 2}
    Task = {t1, t2, t3}
    Kind <- Mixed
    None = None
    QueueCapacity = 2
    Crashes = 0
    NSets = 2
    TaskOf <- MCTaskOf
    TextOf <- MCTextOf
    SpoolBytes = 3
    MatrixBytes = 2
    MaxOutput = 4
    QuotaLimit = 6
    AttemptLimit = 2
    SpoolFaults = 2
    MaxEpoch = 3
INVARIANTS
    EligibleHandedOff

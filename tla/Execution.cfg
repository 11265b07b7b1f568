SPECIFICATION ExecSpec
CONSTANTS
    t1 = t1
    t2 = t2
    Task = {t1, t2}
    None = None
    MaxPauses = 1
    Tasks = {1, 2}
    MaxSpawns = 2
    MaxFaults = 2
    MaxRetained = 1
    ChannelCapacity = 2
    PipeCapacity = 1
INVARIANTS
    LeaseCustody
    PausedIsReaped
    NothingMisdelivered
    OneTurnAtWork
    QualifiedMeansNoChild
PROPERTIES
    ExecutionSettles
CHECK_DEADLOCK FALSE

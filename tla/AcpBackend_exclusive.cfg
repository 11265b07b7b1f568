CONSTANTS
    Tasks = {1, 2}
    MaxSpawns = 2
    MaxFaults = 1
    MaxRetained = 1
    ChannelCapacity = 2
    PipeCapacity = 1
INIT AcpInit
NEXT AcpNext
CHECK_DEADLOCK FALSE
INVARIANT ExclusiveExecution

SPECIFICATION Spec
CONSTANTS
    Resource = {r1, r2}
    Task = {t1, t2}
    Owner = {o1, o2, o3}
    None = None
    Overlaps <- AllOverlap
    FinishStates = {"recovery_needed"}
    TTL = 1
    MaxTime = 2
    MaxFence = 2
    MaxTurns = 1
SYMMETRY Symmetry
INVARIANTS
    FenceIdentifiesGrant
    TurnsRecorded
    ClaimsSound
PROPERTIES
    ImplementsFencedResource
CHECK_DEADLOCK FALSE

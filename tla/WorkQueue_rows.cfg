SPECIFICATION Spec
CONSTANTS
    Key = {k1, k2, k3}
    Event = {e1, e2, e3}
    Task = {t1, t2}
    None = None
    Capacity = 2
    MaxFence = 2
    MaxRevision = 6
    MaxAdmission = 2
    MaxSequence = 4
SYMMETRY Names
INVARIANTS
    QueueSound
PROPERTIES
    ResendNeedsNewGrant
    SentRequeuedOnlyByResume
CHECK_DEADLOCK FALSE

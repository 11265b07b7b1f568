SPECIFICATION Spec
CONSTANTS
    Task = {t1}
    None = None
    MaxPauses = 0
INVARIANT CancelCommits
CHECK_DEADLOCK FALSE

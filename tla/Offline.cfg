SPECIFICATION OfflineSpec
CONSTANTS
    Absent = Absent
    Torn = Torn
    MaxCrashes = 1
    MaxErrors = 1
    MaxStarts = 1
    Nil = Nil
    Ops = {"o1", "o2"}
    RepairFaults = 2
    MaxManifests = 2
INVARIANTS
    BackupSound
    AdoptableUnlessTorn
    RepairSound
PROPERTIES
    CleanupCompletes
    ReceiptBindsStop
CHECK_DEADLOCK FALSE

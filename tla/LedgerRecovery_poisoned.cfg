CONSTANTS
    Inputs = {a, b}
    NoFile = NoFile
    SnapshotWhilePoisoned = TRUE
    MaxEvents = 3
SPECIFICATION RecoverySpec
INVARIANT ReopenSucceeds
CHECK_DEADLOCK FALSE

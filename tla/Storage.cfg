CONSTANTS
    Snapshots = {s1, s2, s3}
    None = None
    NoFile = NoFile
    Inputs = {a, b}
    SnapshotWhilePoisoned = FALSE
    MaxEvents = 3
    Clients = {c1, c2, c3}
    Operations = {o1, o2}
    Evidence = {e1, e2}
    Times = {0, 1, 2}
    MaxFailures = 2
    NoHash = NoHash
    Offers <- SomeOffers
SPECIFICATION StorageSpec
INVARIANTS
    AckedShown
    SnapshotsVerify
    ReopenSucceeds
    OncePerOperation
    AnswersHold
PROPERTIES
    CellSpec
    LogOnlyGrows
    EveryoneAnswered
CHECK_DEADLOCK FALSE

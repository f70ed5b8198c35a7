CONSTANTS
    PayloadLen <- Lengths
    Rotation = 7
    StubBytes = {1, 3}
    PowerLoss = TRUE
    MaxAppends = 4
    MaxCrashes = 3
SPECIFICATION Spec
INVARIANTS
    OpenStoreReadable
    RefusesOnlyBrokenFrame
PROPERTY DurableSpec
CHECK_DEADLOCK FALSE

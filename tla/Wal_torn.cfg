CONSTANTS
    PayloadLen <- Lengths
    Rotation = 7
    StubBytes = {1, 3}
    PowerLoss = FALSE
    MaxAppends = 4
    MaxCrashes = 1
SPECIFICATION Spec
INVARIANT TruncatedRecordRejected
CHECK_DEADLOCK FALSE

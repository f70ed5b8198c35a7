CONSTANTS
    Payloads = {a}
    Roots = {r1}
    Keys = {k1}
    Revocable = {}
    ValidUntil = {NoValue}
    Lifetimes = {NoValue}
    NoValue = NoValue
    SegmentEvents = 2
    MaxHistory = 2
    MaxTime = 1
    MaxRestores = 1
SPECIFICATION CheckpointSpec
INVARIANT DifferentCheckpointIsFork
CHECK_DEADLOCK FALSE

CONSTANTS
    Payloads = {a, b}
    Roots = {r1, r2}
    Keys = {k1, k2}
    Revocable = {k1, k2}
    ValidUntil = {NoValue, 1}
    Lifetimes = {NoValue, 0, 1}
    NoValue = NoValue
    SegmentEvents = 2
    MaxHistory = 3
    MaxTime = 2
    MaxRestores = 1
SPECIFICATION MCSpec
INVARIANTS
    ManifestsConsistent
    VerifiedHoldsAnchored
    HonestChainVerifies
PROPERTY AnchorsAreOneLine
CHECK_DEADLOCK FALSE

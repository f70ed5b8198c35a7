CONSTANTS
    None = None
    Transitions = {t1, t2}
    Subjects = {s1, s2}
    Refs = {r1, r2, r3, r4, r5, r6, r7}
    Inputs <- AllInputs
    MaxEvents = 7
SPECIFICATION MCSpec
INVARIANTS
    EvidenceCurrent
    CitesLatestAuthorization
PROPERTY OutcomeNeverRollsBack
CHECK_DEADLOCK FALSE

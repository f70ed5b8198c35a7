CONSTANTS
    MinTick = 1
    MaxTick = 5
    RegMax = 3
    SlowStep = 1
    SlowMax = 3
    FastStep = 1
    FastMin = 1
    MetricsEvery = 3
    MinIdle = 10
    PhaseLen = 5
    PhaseGap = 3
    DreamWindow = 4
    TrsAdjust <- MCTrsAdjust
    AwakenAdjust <- MCAwakenAdjust
    Measures <- MCMeasures
    Cooldowns = {3}
    Client = {c1}
    Other = Other
    NoEvent = NoEvent
    EventCap = 2
    MetricsCap = 1
    OutCap = 1
    CommandCap = 2
    TsBuffer = 2
    TsRate = 2
    TsCommands = 2
    TsSockets = 2
    TsBackoff = 2
    TsKeys = FALSE
    TsBeats = FALSE
    InOrder = TRUE
    RsBuffer = 2
    RsCommands = 3
    RsBackoff = 1
    RsKeys = TRUE
    RsReconnect = TRUE
    Thread = {t1, t2}
    MaxPosted = 5
    PullCaps = {1, 3}
    MaxViewTokens = 1
    MaxTokens = 5
    Snapper = {p1, p2}
    SegmentLen = 2
    MaxDeltas = 4
    MaxSnaps = 2
    NoManifest = NoManifest
    Torn = Torn
    Caller = {g1, g2}
    Zero = Zero
    World = {"w", "v"}
    MaxGen = 1
    Offered <- MCOffered
    NoBody = NoBody
SPECIFICATION QuietSpec
PROPERTY QueuedCommandsSent
CHECK_DEADLOCK FALSE

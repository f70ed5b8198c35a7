CONSTANTS
    Peers = {1, 2}
    Contents = {a}
    NoContent = NoContent
    DefaultCredence = 1
    LocalCredence = 2
    Credences = {0, 1}
    InitialQuorums = {1, 3}
    Quorums = {0, 2}
    Times = {0, 1}
    LogLimit = 1000
    MaxProposals = 2
    MaxEpochs = 1
    MaxPublished = 1
    MaxBallots = 2
    MaxLog = 3
SPECIFICATION MCSpec
INVARIANTS
    MergeAgrees
    NewestVoteStands
PROPERTIES
    OwnUpdateShown
    RemovedStaysRemoved
CHECK_DEADLOCK FALSE

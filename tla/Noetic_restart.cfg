CONSTANTS
    Peers = {1}
    Contents = {a}
    NoContent = NoContent
    DefaultCredence = 1
    LocalCredence = 2
    Credences = {0, 1}
    InitialQuorums = {1}
    Quorums = {1}
    Times = {0, 1}
    LogLimit = 1000
    MaxProposals = 2
    MaxEpochs = 0
    MaxPublished = 1
    MaxBallots = 0
    MaxLog = 3
SPECIFICATION MCRestartSpec
PROPERTY RestartKeepsReplica
CHECK_DEADLOCK FALSE

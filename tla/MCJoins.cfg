CONSTANTS
    n1 = n1
    n2 = n2
    n3 = n3
    Agents <- MCAgents
    Publishers <- MCPublishers
    Founders <- MCFounders
    Leavers <- MCNobody
    NoAnswer = NoAnswer
    JoinConsistent = TRUE
    Serial = FALSE
    MaxInvs = 1
    MaxCalls = 3
SPECIFICATION FairSpec
INVARIANTS
    KnownByList
PROPERTIES
    HelloMeansConnected
    JoinReturns
    Promised
CHECK_DEADLOCK FALSE

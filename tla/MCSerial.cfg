CONSTANTS
    n1 = n1
    n2 = n2
    n3 = n3
    Agents <- MCAgents
    Publishers <- MCPublishers
    Founders <- MCFounders
    Leavers <- MCAgents
    NoAnswer = NoAnswer
    JoinConsistent = TRUE
    Serial = TRUE
    MaxInvs = 1
    MaxCalls = 6
SPECIFICATION FairSpec
INVARIANTS
    ViewsConnected
    JoinedMeansMember
    Agreement
    DataReachesMembers
    NoResidue
    NoneBroken
PROPERTIES
    LeaverForgotten
    Promised
CHECK_DEADLOCK FALSE

CONSTANTS
    n1 = n1
    n2 = n2
    n3 = n3
    Agents <- MCAgents
    Publishers <- MCPublishers
    Founders <- MCFounders
    Leavers <- MCAgents
    NoAnswer = NoAnswer
    JoinConsistent = TRUE
    Serial = FALSE
    MaxInvs = 2
    MaxCalls = 4
SPECIFICATION Spec
INVARIANTS
    TypeOK
    AdmittedConsistently
    FailedJoinUnlisted
CHECK_DEADLOCK FALSE

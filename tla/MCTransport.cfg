CONSTANTS
    c1 = c1
    c2 = c2
    g1 = g1
    g2 = g2
    p1 = p1
    p2 = p2
    p3 = p3
    Callers <- MCCallers
    Topics <- MCTopics
    Peers <- MCPeers
    Publishers <- MCPublishers
    Joinable <- MCApart
    MayClose = TRUE
    Nobody = Nobody
    MaxOps = 3
SPECIFICATION FairSpec
INVARIANTS
    TypeOK
    Awaited
    MembersConnected
PROPERTIES
    Returns
CHECK_DEADLOCK FALSE

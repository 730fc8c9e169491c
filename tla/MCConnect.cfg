CONSTANTS
    n1 = n1
    n2 = n2
    n3 = n3
    Agents <- MCAgents
    Invited <- MCInOrder
    Joiners <- MCNobody
    Hasty <- MCNobody
    Patient = TRUE
    MaxExchs = 2
    MaxJoins = 0
SPECIFICATION FairSpec
INVARIANTS
    TypeOK
    NoCircularWait
PROPERTIES
    Connected
    Woken
CHECK_DEADLOCK FALSE

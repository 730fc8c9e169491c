CONSTANTS
    n1 = n1
    n2 = n2
    n3 = n3
    Agents <- MCPair
    Invited <- MCOneWay
    Joiners <- MCPair
    Hasty <- MCNobody
    Patient = TRUE
    MaxExchs = 1
    MaxJoins = 1
SPECIFICATION Spec
INVARIANTS
    SyncServiceBlocks
CHECK_DEADLOCK FALSE

CONSTANTS
    n1 = n1
    n2 = n2
    n3 = n3
    Agents <- MCPair
    Invited <- MCMutual
    Joiners <- MCPair
    Hasty <- MCHasty
    Patient = FALSE
    MaxExchs = 2
    MaxJoins = 1
SPECIFICATION Spec
INVARIANTS
    HalfOpen
    Readable
PROPERTIES
    SyncMeansConnected
CHECK_DEADLOCK FALSE

CONSTANTS
    a1 = a1
    a2 = a2
    a3 = a3
    Agents <- MCAgents
    Callers <- MCCallers
    Exiting <- MCExiting
    Nowhere = Nowhere
    MaxSends = 2
SPECIFICATION FairSpec
INVARIANTS
    TypeOK
PROPERTIES
    CallsKept
    Contained
    CloseReturns
CHECK_DEADLOCK FALSE

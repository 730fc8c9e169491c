CONSTANTS
    a1 = a1
    a2 = a2
    a3 = a3
    g1 = g1
    g2 = g2
    Agents <- MCAgents
    Groups <- MCGroups
    NoGroup = NoGroup
    NoStamp = NoStamp
    MaxTime = 1
    MaxSends = 3
    MaxStays = 3
SYMMETRY MCSymmetry
SPECIFICATION Spec
INVARIANTS
    TiesBroken
CHECK_DEADLOCK FALSE

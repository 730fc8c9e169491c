CONSTANTS
    m1 = m1
    m2 = m2
    Members <- MCMembers
    First <- MCFirst
    Mocked <- MCMocked
    Publisher = Publisher
    Nowhere = Nowhere
    MaxCallbacks = 2
    MaxCount = 2
    MaxSends = 2
    MaxChanges = 1
SPECIFICATION FairSpec
INVARIANTS
    TypeOK
    CountRight
PROPERTIES
    Delivered
CHECK_DEADLOCK FALSE

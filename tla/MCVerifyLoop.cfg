CONSTANTS
    Labels = {m1, m2, m3, m4, m5}
    Hashes = {h1, h2, h3}
SPECIFICATION Spec
INVARIANTS
    TypeOK
    OkMeansEqual
    NamesTheFewest
CHECK_DEADLOCK FALSE

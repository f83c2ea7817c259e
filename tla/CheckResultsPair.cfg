SPECIFICATION FairSpec
CONSTANTS
    Nodes = {n1}
    Tags = {t1, t2}
    Workers = {w1, w2}
    None = None
    Faults = TRUE
INVARIANTS
    TypeOK
    AliveAgrees
PROPERTIES
    SubmissionsEnd

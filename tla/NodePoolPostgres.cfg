SPECIFICATION FairSpec
CONSTANTS
    Sources = {s1}
    Hashes = {h1}
    NodeIds = {n1, n2}
    Workers = {w1, w2}
    None = None
    SingleConn = FALSE
    NodeDeletes = TRUE
    Flagged = {s1}
    Faults = {}
INVARIANTS
    OneCleaner
    NoOrphansAtRest
PROPERTIES
    HandlersFinish

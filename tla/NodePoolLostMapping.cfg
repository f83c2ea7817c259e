SPECIFICATION Spec
CONSTANTS
    Sources = {s1, s2}
    Hashes = {h1}
    NodeIds = {n1, n2}
    Workers = {w1, w2}
    None = None
    SingleConn = FALSE
    NodeDeletes = FALSE
    Flagged = {s1, s2}
    Faults = {}
SYMMETRY Symmetry
PROPERTIES
    EveryReportedNodeMapped

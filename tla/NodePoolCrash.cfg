SPECIFICATION Spec
CONSTANTS
    Sources = {s1, s2}
    Hashes = {h1}
    NodeIds = {n1, n2}
    Workers = {w1, w2}
    None = None
    SingleConn = TRUE
    NodeDeletes = FALSE
    Flagged = {}
    Faults = {w1}
SYMMETRY RowSymmetry
INVARIANTS
    TypeOK
    MappingsHaveNodes
    NoOrphansAtRest
    DeadSourcesStayEmpty
PROPERTIES
    OtherSourcesKeep
    EveryReportedNodeMapped
    ReportedStayMapped

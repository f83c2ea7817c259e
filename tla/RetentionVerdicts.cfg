SPECIFICATION Spec
CONSTANTS
    Nodes = {n1}
    Workers = {w1}
    Created = {0}
    Requested = {0, 1, 2}
    None = None
    DefaultHistory = 2
    DefaultDead = 1
    Day = 2
    MaxTime = 8
    MaxRows = 2
INVARIANTS
    TypeOK
    SuccessProtects
PROPERTIES
    CleanupCondemnsNobody
    BufferedVerdictKept

SPECIFICATION Spec
CONSTANTS
    Nodes = {n1}
    Tags = {t1, t2}
    Workers = {w1, w2}
    None = None
    Faults = FALSE
SYMMETRY Symmetry
INVARIANTS
    ReachableIsAlive

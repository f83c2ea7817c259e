SPECIFICATION Spec
CONSTANTS
    Ids = {i1, i2, i3, i4}
    None = None
    Contents = {c1}
    Admins = {a1, a2}
    Requested = {0, 9}
    DefaultLimit = 1
    MaxLimit = 2
    MaxPreview = 2
    EnvFields <- MCEnvFields
    Tested <- MCTested
    MaxRows <- MCMaxRows
SYMMETRY Symmetry
INVARIANTS
    TypeOK
    NothingMissed
    NothingTwice
    PageAsAnnounced
    DuplicatesExcused

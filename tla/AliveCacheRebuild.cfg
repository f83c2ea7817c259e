SPECIFICATION FairSpec
CONSTANTS
    Nodes = {n1}
    Tags <- MCTags
    Scores = {v1}
    NoScore = NoScore
    Absent = Absent
    Deep <- MCDeep
    Faults = TRUE
INVARIANTS
    TypeOK
    FreshAtRest
PROPERTIES
    Implements
    EventuallyFresh

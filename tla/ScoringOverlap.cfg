SPECIFICATION Spec
CONSTANTS
    Nodes = {n1}
    Tags = {t1, t2}
    Workers = {w1, w2}
    sane = sane
    wild = wild
    Params <- MCParams
    Defaults = sane
    Decay <- MCDecay
    Weights <- MCWeights
    LatencyCurve <- MCLatencyCurve
    StabilityCurve <- MCStabilityCurve
    SpeedCurve <- MCSpeedCurve
    maxLatencyMs = 2
    maxJitterMs = 1
    maxSpeedKbps = 1
    Results <- MCResults
    Missing = Missing
    Window = 2
    TTL = 1
    Scale = 10
    MaxTime = 1
    MaxChecks = 2
SYMMETRY Symmetry
INVARIANTS
    TypeOK
    NodeScoreIsMean
    TagScoreCurrent
    ParamsFollow

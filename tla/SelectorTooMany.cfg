SPECIFICATION Spec
CONSTANTS
    Nodes <- MCNodes
    Regions <- MCRegions
    UN = "UN"
    Common <- MCCommon
    RegionOf <- MCRegionOf
    Rank <- MCRank
    ScoreOf <- MCScoreOf
    Limits <- MCLimits
    Services <- MCServices
    Unlocks <- MCUnlocks
    Grades <- MCGrades
    Flag <- MCFlag
    Territory <- MCTerritory
    RegionOrder <- MCRegionOrder
    Alphabet <- MCAlphabet
    MaxPool = 6
INVARIANTS
    NeverTooMany

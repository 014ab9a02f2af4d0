SPECIFICATION Spec
CONSTANTS
    MaxInt = 9
    None = None
    Tokens = 3
    Rates = {0, 3}
    LargestInt = 23
    PerCent = 5
    MaxLimit = 7
    Size = 3
    MaxWeight = 2
    Turns = 8
    x1 = x1
    x2 = x2
    unset = unset
    off = off
SYMMETRY Alike
INVARIANTS
    CostIsExact
    EstimateCovers
    StrategyDecides
    StoredResponsesHold
    FilteredAsWhole
    TranslationIsHonest
PROPERTIES
    CentsAgree
    PipelineHolds
CHECK_DEADLOCK FALSE

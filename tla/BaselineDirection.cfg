SPECIFICATION Spec
CONSTANTS
    Evaluators = {a}
    Values = {0, 7, 10}
    WarmUpSamples = 8
    ZScoreThreshold = 1
    PoisonThreshold = 2
    AlphaNum = 1
    AlphaDen = 2
    MaxCount = 9
INVARIANT BadWayFires

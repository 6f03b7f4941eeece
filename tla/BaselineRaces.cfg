SPECIFICATION Spec
CONSTANTS
    Evaluators = {a, b}
    Values = {2, 3, 9}
    WarmUpSamples = 3
    ZScoreThreshold = 1
    PoisonThreshold = 2
    AlphaNum = 1
    AlphaDen = 2
    MaxCount = 5
INVARIANTS TypeOK SilentWarmUp WithinSeen

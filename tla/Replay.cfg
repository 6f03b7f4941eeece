SPECIFICATION FairSpec
CONSTANTS
    Now = 6
    FutureSlack = 1
    MinWindow = 5
    DefaultMaxWindow = 6
    WarmUpSamples = 1
    WarmUpNum = 3
    WarmUpDen = 5
    Hour = 2
    History <- MCHistory
    Injections <- MCInjections
    FromFlags <- MCFromFlags
    ToFlags <- MCToFlags
    MaxRange = 0
    AdaptiveMetrics <- MCAdaptiveMetrics
    StaticRules <- MCStaticRules
    LogPatterns <- MCLogPatterns
    SystemicFailureThreshold = 2
    Noisy <- MCNoisy
    MaxAnomalies = 2
    MaxErrors = 2
INVARIANTS TypeOK DetectionPhaseExists StatusHonest TicksAccounted AnomaliesAccounted InjectedIsHit
PROPERTY Ends
CHECK_DEADLOCK FALSE

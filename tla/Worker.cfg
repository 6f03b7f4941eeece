SPECIFICATION FairSpec
CONSTANTS
    Probe = Probe
    Handlers = {h1}
    Callers = {h1, Probe}
    MaxRequests = 2
    TripAfter = 2
    StaticRules <- MCStaticRules
    AdaptiveMetrics <- MCAdaptiveMetrics
    LogPatterns <- MCLogPatterns
    Snapshots <- MCSnapshots
    ExcludeNamespaces = {}
    ExcludeStaticOnly = {"tools"}
    ExcludeAdaptiveWorkloads = {"kafka"}
    Burst = 1
INVARIANTS TypeOK FamilyCoversReports OneSnapshotPerQuery TrialsCounted
PROPERTIES BreachesArrive BatchEnds RecoversByProbes

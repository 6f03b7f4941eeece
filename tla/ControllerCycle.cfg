SPECIFICATION FairSpec
CONSTANTS
    Contents <- MCContents
    Environment = {"URL"}
    MaxWrites = 3
    Identities <- MCIdentities
    Queries = {"cpu", "logs", "errors"}
    Readings = {1, 3}
    MaxAnomalies = 1
    MaxAlerts = 1
INVARIANTS TypeOK OneConfigPerCycle FallsArrive BundlesWhole BoundedFanOut
PROPERTIES EditEventuallyLoaded CycleEnds

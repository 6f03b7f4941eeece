SPECIFICATION FairSpec
CONSTANTS
    Labels <- MCNamesakes
    ExtractWorkload <- MCExtractWorkload
    Origins <- MCOrigins
    ClusterName = "home"
    Ids = {i1, i2}
    WorkloadMinPods = 2
    Window = 1
    Cooldown = 2
    RedisFaults = TRUE
    SendFaults = FALSE
    Restarts = FALSE
    DryRun = FALSE
    MLEnabled = TRUE
PROPERTIES DropJustified EventuallySettled

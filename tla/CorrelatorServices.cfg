SPECIFICATION Spec
CONSTANTS
    Labels <- MCServices
    ExtractWorkload <- MCExtractWorkload
    Origins <- MCStatic
    ClusterName = "home"
    Ids = {i1, i2}
    WorkloadMinPods = 2
    Window = 0
    Cooldown = 2
    RedisFaults = FALSE
    SendFaults = FALSE
    Restarts = FALSE
    DryRun = FALSE
    MLEnabled = FALSE
PROPERTY DropJustified

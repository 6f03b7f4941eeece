SPECIFICATION Spec
CONSTANTS
    Labels <- MCReplicas
    ExtractWorkload <- MCExtractWorkload
    Origins <- MCDetectors
    ClusterName = "home"
    Ids = {i1, i2}
    WorkloadMinPods = 2
    Window = 0
    Cooldown = 2
    RedisFaults = FALSE
    SendFaults = FALSE
    Restarts = FALSE
    DryRun = FALSE
    MLEnabled = FALSE
PROPERTY CooldownPerDetector

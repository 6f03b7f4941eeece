SPECIFICATION Spec
CONSTANTS
    Labels <- MCMixed
    ExtractWorkload <- MCExtractWorkload
    Origins <- MCStatic
    ClusterName = "home"
    Ids = {i1, i2, i3}
    WorkloadMinPods = 2
    Window = 1
    Cooldown = 2
    RedisFaults = FALSE
    SendFaults = TRUE
    Restarts = TRUE
    DryRun = FALSE
    MLEnabled = FALSE
INVARIANTS TypeOK AccountedOnce CollapseComplete
PROPERTY CooldownRespected

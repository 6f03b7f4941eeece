SPECIFICATION FairSpec
CONSTANTS
    Replicas = {r1, r2}
    None = None
    LeaseDuration = 8
    RenewDeadline = 4
    RetryPeriod = 1
    Latency = 1
    Cooldown = 6
INVARIANTS TypeOK SoleLeader
PROPERTIES GateKept AlertsGoOn

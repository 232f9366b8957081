CONSTANTS
    reverse = reverse
    forward = forward
    angle = angle
    Tof <- MCTof
    As5600 = angle
    Fresh <- MCFresh
    FaultThreshold = 2
    RecoverySuccesses = 2
    ServiceMs = 3
    CooldownMs = 2
    MaxGap = 2
SPECIFICATION FairSpec
INVARIANTS
    HealthHonest
PROPERTIES
    GoodIsHealthy
    DeadIsFaulted

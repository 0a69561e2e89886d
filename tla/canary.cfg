SPECIFICATION FairSpec
CONSTANTS
    Routes = {r1}
    Nil = Nil
    Services <- TwoServices
    Canaries <- MixedCanaries
    ProbeTimeout = 1
    MaxNow = 3
    MaxEdits = 2
    MaxCrashes = 1
INVARIANTS TypeOK CooldownHonoured
PROPERTIES RollbackEarned BrokenCanaryDisabled HealthyCanaryReturns

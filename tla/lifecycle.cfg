SPECIFICATION Spec
CONSTANTS
    Nil = Nil
    Routes <- OneRoute
    Specs <- LifecycleSpecs
    ServiceKeys <- AppService
    ServiceStates <- AnyState
    GatewayNames <- Names
    HeaderNames = {1, 2}
    GatewayRefs <- DefaultGateway
    GatewayStates <- HTTPGateway
    SecretKeys <- NoSecrets
    SecretStates <- NoSecrets
    WarnBefore = 1
    WebhookEnabled = TRUE
    ChildLag = FALSE
    Budget <- LifecycleBudget
    MaxNow = 0
INVARIANTS TypeOK FinalizerFirst NoOrphans ActiveStaysTrue MetricsFollowStatus ConditionsAgree ManagedIsBacked
PROPERTIES ActiveIsTrue CleanupSparesOthers ImplementsLifecycle
\* Once the budget is spent and every Route is settled or gone, nothing is left to do.
CHECK_DEADLOCK FALSE

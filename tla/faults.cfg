SPECIFICATION Spec
CONSTANTS
    Nil = Nil
    Routes <- OneRoute
    Specs <- FaultSpecs
    ServiceKeys <- AppService
    ServiceStates <- AlwaysUp
    GatewayNames <- Names
    HeaderNames = {1, 2}
    GatewayRefs <- DefaultGateway
    GatewayStates <- HTTPGateway
    SecretKeys <- NoSecrets
    SecretStates <- NoSecrets
    WarnBefore = 1
    WebhookEnabled = TRUE
    ChildLag = TRUE
    Budget <- FaultBudget
    MaxNow = 0
INVARIANTS FinalizerFirst MetricsRecover
PROPERTIES ActiveIsTrue CleanupSparesOthers ImplementsLifecycle
\* Once the budget is spent and every Route is settled or gone, nothing is left to do.
CHECK_DEADLOCK FALSE

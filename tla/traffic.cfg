SPECIFICATION Spec
CONSTANTS
    Nil = Nil
    Routes <- OneRoute
    Specs <- TrafficSpecs
    ServiceKeys <- CanaryServices
    ServiceStates <- UpOrDown
    GatewayNames <- Names
    HeaderNames = {1, 2}
    GatewayRefs <- DefaultGateway
    GatewayStates <- HTTPGateway
    SecretKeys <- NoSecrets
    SecretStates <- NoSecrets
    WarnBefore = 1
    WebhookEnabled = TRUE
    ChildLag = FALSE
    Budget <- TrafficBudget
    MaxNow = 2
INVARIANTS RollbackIsStableOnly ActiveServes
\* Once the budget is spent and every Route is settled or gone, nothing is left to do.
CHECK_DEADLOCK FALSE

SPECIFICATION Spec
CONSTANTS
    Nil = Nil
    Routes <- TwoTenants
    Specs <- TenantSpecs
    ServiceKeys <- TenantServices
    ServiceStates <- AlwaysUp
    GatewayNames <- Names
    HeaderNames = {1, 2}
    GatewayRefs <- DefaultGateway
    GatewayStates <- HTTPGateway
    SecretKeys <- NoSecrets
    SecretStates <- NoSecrets
    WarnBefore = 1
    WebhookEnabled = TRUE
    ChildLag = FALSE
    Budget <- PairBudget
    MaxNow = 0
INVARIANTS ActiveStaysTrue
\* Once the budget is spent and every Route is settled or gone, nothing is left to do.
CHECK_DEADLOCK FALSE

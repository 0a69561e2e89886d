SPECIFICATION FairSpec
CONSTANTS
    Nil = Nil
    Routes <- TwoRoutes
    Specs <- PlainSpecs
    ServiceKeys <- AppService
    ServiceStates <- AlwaysUp
    GatewayNames <- Names
    HeaderNames = {1, 2}
    GatewayRefs <- DefaultGateway
    GatewayStates <- HTTPGateway
    SecretKeys <- NoSecrets
    SecretStates <- NoSecrets
    WarnBefore = 1
    WebhookEnabled = FALSE
    ChildLag = FALSE
    Budget <- ConflictBudget
    MaxNow = 0
PROPERTIES EventuallySettled
\* Once the budget is spent and every Route is settled or gone, nothing is left to do.
CHECK_DEADLOCK FALSE

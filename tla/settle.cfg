SPECIFICATION UnwatchedSpec
CONSTANTS
    Nil = Nil
    Routes <- OneRoute
    Specs <- SettleSpecs
    ServiceKeys <- AppService
    ServiceStates <- AnyState
    GatewayNames <- Names
    HeaderNames = {1, 2}
    GatewayRefs <- DefaultGateway
    GatewayStates <- EitherGateway
    SecretKeys <- TLSSecrets
    SecretStates <- Certificates
    WarnBefore = 1
    WebhookEnabled = TRUE
    ChildLag = FALSE
    Budget <- SettleBudget
    MaxNow = 1
PROPERTIES EventuallySettled
\* Once the budget is spent and every Route is settled or gone, nothing is left to do.
CHECK_DEADLOCK FALSE

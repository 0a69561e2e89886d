---------------------------- MODULE RouteWebhook ----------------------------
(***************************************************************************)
(* The admission webhooks: what the mutating one makes of a specification  *)
(* and what the validating one accepts on CREATE and on UPDATE.  Both read *)
(* the informer cache of the manager they run in, never the API server.    *)
(*                                                                         *)
(* A host is the sequence of its labels, "a.example.com" being             *)
(* <<"a", "example", "com">>; a pattern may begin with the label "*".  The *)
(* listeners of a Gateway are described in GatewayCertificate.             *)
(*                                                                         *)
(* The webhooks have their own copies of the defaults of a Gateway and of  *)
(* the identity of a rule, apart from the ones of the controller.          *)
(***************************************************************************)
EXTENDS RouteTypes

gatewayRefFromSpec(gw) ==
    [name |-> IF gw.name # "" THEN gw.name ELSE "istio-gateway",
     ns   |-> IF gw.ns # "" THEN gw.ns ELSE "istio-system"]

\* routeDefaulter.Default
Default(spec) == [spec EXCEPT !.gateway = gatewayRefFromSpec(@)]

\* normalizeRoutePath of the webhook's own package.
webhookRoutePath(path) == IF path # <<>> THEN path ELSE <<"/">>

buildRuleIdentity(spec, rule) ==
    LET gw == gatewayRefFromSpec(spec.gateway)
    IN  <<gw.ns, gw.name, rule.host, webhookRoutePath(rule.path)>>

hostMatchesPattern(host, pattern) ==
    \/ pattern = <<"*">>
    \/ /\ Len(pattern) > 1
       /\ Head(pattern) = "*"
       /\ IsStrictSuffix(Tail(pattern), host)
    \/ host = pattern

hostMatchesAnyPattern(host, patterns) == \E p \in patterns : hostMatchesPattern(host, p)

\* No pattern at all restricts nothing: a listener without a hostname makes
\* gatewayHostPatterns return nil.
gatewayHostPatterns(gw) ==
    LET hostnames == {l.hostname : l \in ToSet(gw.listeners)}
    IN  IF <<>> \in hostnames THEN {} ELSE hostnames

validateGatewayHostnames(spec, gateways) ==
    LET gw       == gateways[gatewayRefFromSpec(spec.gateway)]
        patterns == gatewayHostPatterns(gw)
    IN  /\ gw # Nil
        /\ \/ patterns = {}
           \/ \A rule \in ToSet(spec.rules) : hostMatchesAnyPattern(rule.host, patterns)

\* Unlike the controller's guard, the webhook knows no precedence: any other
\* live Route with a common rule forbids the write.
validateRouteConflicts(r, spec, cache) ==
    LET rules(s) == { buildRuleIdentity(s, rule) : rule \in ToSet(s.rules) }
    IN  \A q \in Routes \ {r} :
            cache[q] # Nil /\ ~cache[q].deleting => rules(cache[q].spec) \cap rules(spec) = {}

validateRoute(r, spec, gateways, cache) ==
    /\ validateGatewayHostnames(spec, gateways)
    /\ validateRouteConflicts(r, spec, cache)

=============================================================================

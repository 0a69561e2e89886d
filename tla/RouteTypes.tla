----------------------------- MODULE RouteTypes -----------------------------
(***************************************************************************)
(* What a Route asks for: the pure part of the controller, from a Route's  *)
(* specification to the sequence of child writes and deletes that one      *)
(* Reconcile performs.                                                     *)
(*                                                                         *)
(* A Route key is a record [ns, name, rank].  A name is a sequence of its  *)
(* hyphen-separated parts, so that the name of a child is the name of its  *)
(* Route with a suffix appended, exactly as fmt.Sprintf builds it; rank is *)
(* the position of ns/name in the lexical order of all keys.               *)
(*                                                                         *)
(* A specification is a record                                             *)
(*   rules      a sequence of [host, path, backend, headers], a backend    *)
(*              being [service, port, protocol]; a path is the sequence of  *)
(*              its parts, <<>> where it is empty, and a trailing star is a *)
(*              part of its own: "/api/*" is <<"/api/", "*">>               *)
(*   gateway    [name, ns], "" where the field is empty or gateway is nil  *)
(*   ssl        "unset", "on" or "off" (sslRedirect)                       *)
(*   timeout    a duration: "" unset, "bad" where it does not parse        *)
(*   maxBody    maxBodySize: "" unset, "bad" where it is no 32-bit number  *)
(*   cors, retries, auth, rate, canary                                     *)
(*              Nil or the record of that type                             *)
(* The headers of a rule are Nil or a pair of operations, themselves Nil   *)
(* or [set, add, remove]; a header name is its rank in lexical order, and  *)
(* a map holds Nil for the names it does not mention.                      *)
(***************************************************************************)
EXTENDS Naturals, SequencesExt, RouteKeys

CONSTANTS
    GatewayNames,   \* names and namespaces of Gateways, "" for an empty field
    HeaderNames     \* the names of headers, as ranks

ASSUME DefaultNames == {"", "istio-gateway", "istio-system"} \subseteq GatewayNames
ASSUME RankedNames == HeaderNames \subseteq Nat /\ IsFiniteSet(HeaderNames)
ASSUME KeyNames == \A r \in Routes : r.name \in Seq(STRING)

Backends == [service: STRING, port: Nat, protocol: STRING]
HeaderMaps == [HeaderNames -> STRING \cup {Nil}]
HeaderOperations == [set: HeaderMaps, add: HeaderMaps, remove: Seq(HeaderNames)] \cup {Nil}
RouteHeaders == [request: HeaderOperations, response: HeaderOperations] \cup {Nil}
RouteRules == [host: Seq(STRING), path: Seq(STRING), backend: Backends, headers: RouteHeaders]
RouteCORS == [origins: Seq(STRING), methods: Seq(STRING), headers: Seq(STRING), maxAge: STRING]
RouteRetries == [attempts: Nat, retryOn: STRING, perTryTimeout: STRING]
RouteAuths == [issuer: STRING, jwksUri: STRING, audiences: Seq(STRING), forward: {"unset", "on", "off"}]
RouteRateLimits == [requests: Nat \ {0}, unit: STRING, burst: Nat \cup {Nil}]
RouteGateways == [name: GatewayNames, ns: GatewayNames]
Policies == [threshold: Nat \ {0}, cooldown: Nat \ {0}]
RouteCanaries == [backend: Backends, weight: 1 .. 99, rollback: Policies \cup {Nil}]
RouteSpecs ==
    [rules: Seq(RouteRules), gateway: RouteGateways,
     ssl: {"unset", "on", "off"}, timeout: STRING, maxBody: STRING,
     cors: RouteCORS \cup {Nil}, retries: RouteRetries \cup {Nil}, auth: RouteAuths \cup {Nil},
     rate: RouteRateLimits \cup {Nil}, canary: RouteCanaries \cup {Nil}]

gatewayRef(spec) ==
    [name |-> IF spec.gateway.name = "" THEN "istio-gateway" ELSE spec.gateway.name,
     ns   |-> IF spec.gateway.ns = "" THEN "istio-system" ELSE spec.gateway.ns]

normalizeRoutePath(path) == IF path = <<>> THEN <<"/">> ELSE path

ruleIdentity(spec, rule) ==
    [gateway |-> gatewayRef(spec), host |-> rule.host, path |-> normalizeRoutePath(rule.path)]

\* currentRules: the identities of all rules of a specification.
ruleIdentities(spec) ==
    {ruleIdentity(spec, spec.rules[i]) : i \in DOMAIN spec.rules}

\* The order that decides a conflict, on (key, creationTimestamp) pairs.
routePrecedes(a, aCreated, b, bCreated) ==
    IF aCreated # bCreated THEN aCreated < bCreated ELSE a.rank < b.rank

\* A finite set of numbers as a list, the smallest first.
Ranked(S) ==
    [k \in 1 .. Cardinality(S) |-> CHOOSE i \in S : Cardinality({j \in S : j <= i}) = k]

\* The hosts in the order of their first rule.
uniqueHostsFromRules(rules) ==
    LET first == Ranked({i \in DOMAIN rules : \A j \in 1 .. i - 1 : rules[j].host # rules[i].host})
    IN  [k \in DOMAIN first |-> rules[first[k]].host]

routeRuleBackends(rule, canary) ==
    IF canary = Nil THEN <<rule.backend>> ELSE <<rule.backend, canary.backend>>

\* The weighted targets of a rule in an HTTPRoute, where no weight at all is 1,
\* and in a VirtualService, where the one target of a list gets everything.
backendRefs(primary, canary) ==
    IF canary = Nil
    THEN << [to |-> primary, weight |-> Nil] >>
    ELSE << [to |-> primary, weight |-> 100 - canary.weight],
            [to |-> canary.backend, weight |-> canary.weight] >>

buildIstioRouteDestinations(primary, canary) ==
    IF canary = Nil
    THEN << [to |-> primary, weight |-> 0] >>
    ELSE << [to |-> primary, weight |-> 100 - canary.weight],
            [to |-> canary.backend, weight |-> canary.weight] >>

\* The names of the Services that evaluateBackendHealth looks at.
backendServices(spec) ==
    UNION { { b.service : b \in ToSet(routeRuleBackends(spec.rules[i], spec.canary)) }
            : i \in DOMAIN spec.rules }

-----------------------------------------------------------------------------
(* The conversions from a specification to the fields of its children.     *)

\* The duration, or Nil for an error, which every caller turns into "unset".
parseDuration(s) == IF s = "bad" THEN Nil ELSE s
durationOrUnset(s) == IF s = "" THEN Nil ELSE parseDuration(s)

buildIstioHTTPRetry(retries) ==
    IF retries = Nil THEN Nil
    ELSE [attempts |-> retries.attempts, retryOn |-> retries.retryOn,
          perTryTimeout |-> durationOrUnset(retries.perTryTimeout)]

corsPolicy(cors) == IF cors = Nil THEN Nil ELSE [cors EXCEPT !.maxAge = durationOrUnset(@)]

mapKeys(m) == {name \in DOMAIN m : m[name] # Nil}

hasHeaderOperations(ops) ==
    ops # Nil /\ (mapKeys(ops.set) # {} \/ mapKeys(ops.add) # {} \/ ops.remove # <<>>)

sortedMapKeys(m) == Ranked(mapKeys(m))

\* The Gateway API wants lists where a Route has maps, hence the fixed order.
buildGatewayHTTPHeaderFilter(ops) ==
    LET list(m) == [k \in DOMAIN sortedMapKeys(m) |->
                      [name |-> sortedMapKeys(m)[k], value |-> m[sortedMapKeys(m)[k]]]]
    IN  IF ~hasHeaderOperations(ops) THEN Nil
        ELSE [set |-> list(ops.set), add |-> list(ops.add), remove |-> ops.remove]

\* Bug: only the request is looked at.
buildGatewayHTTPHeaderFiltersRequestOnly(headers) ==
    LET request == IF headers = Nil THEN Nil ELSE buildGatewayHTTPHeaderFilter(headers.request)
    IN  IF request = Nil THEN <<>>
        ELSE << [type |-> "RequestHeaderModifier", modifier |-> request] >>

buildGatewayHTTPHeaderFilters(headers) ==
    LET part(type, ops) == IF ~hasHeaderOperations(ops) THEN <<>>
                           ELSE << [type |-> type, modifier |-> buildGatewayHTTPHeaderFilter(ops)] >>
    IN  IF headers = Nil THEN <<>>
        ELSE part("RequestHeaderModifier", headers.request)
             \o part("ResponseHeaderModifier", headers.response)

buildIstioHeaderOperations(ops) == IF hasHeaderOperations(ops) THEN ops ELSE Nil

buildIstioHeaders(headers) ==
    LET request  == IF headers = Nil THEN Nil ELSE buildIstioHeaderOperations(headers.request)
        response == IF headers = Nil THEN Nil ELSE buildIstioHeaderOperations(headers.response)
    IN  IF request = Nil /\ response = Nil THEN Nil
        ELSE [request |-> request, response |-> response]

\* Nil stands for the error of an unknown unit.
rateLimitFillInterval(unit) ==
    CASE unit = "Second" -> "1s" [] unit = "Minute" -> "60s" [] unit = "Hour" -> "3600s"
      [] OTHER -> Nil

-----------------------------------------------------------------------------
(* The children of a Route.  An operation is a record [op, ids, body]:     *)
(* "put" creates or updates the one child in ids, "delete" deletes the     *)
(* children in ids one after the other, "fail" fails before any call.      *)

Child(kind, ns, name) == [kind |-> kind, ns |-> ns, name |-> name]
Put(id, body) == [op |-> "put", ids |-> <<id>>, body |-> body]
Delete(ids)   == [op |-> "delete", ids |-> ids, body |-> <<>>]
Failure       == [op |-> "fail", ids |-> <<>>, body |-> <<>>]

\* The i-th element of a Go slice has index i - 1.
Index(i) == ToString(i - 1)

\* Bug: the HTTPRoute is built from the canary of the specification.
reconcileHTTPRouteFromSpec(r, spec, i, canary) ==
    LET rule == spec.rules[i]
    IN  Put(Child("HTTPRoute", r.ns, r.name \o <<Index(i)>>),
            [gateway |-> gatewayRef(spec), section |-> "https", host |-> rule.host,
             path |-> IF rule.path = <<>> THEN <<"/">> ELSE rule.path,
             filters |-> buildGatewayHTTPHeaderFilters(rule.headers),
             to |-> backendRefs(rule.backend, spec.canary)])

reconcileHTTPRoute(r, spec, i, canary) ==
    LET rule == spec.rules[i]
    IN  Put(Child("HTTPRoute", r.ns, r.name \o <<Index(i)>>),
            [gateway |-> gatewayRef(spec), section |-> "https", host |-> rule.host,
             path |-> IF rule.path = <<>> THEN <<"/">> ELSE rule.path,
             filters |-> buildGatewayHTTPHeaderFilters(rule.headers),
             to |-> backendRefs(rule.backend, canary)])

reconcileRedirectHTTPRoute(r, spec, i, host) ==
    Put(Child("HTTPRoute", r.ns, r.name \o <<"redirect", Index(i)>>),
        [gateway |-> gatewayRef(spec), section |-> "http", host |-> host])

virtualHTTPRoute(spec, i, canary) ==
    [host |-> spec.rules[i].host,
     path |-> IF spec.rules[i].path = <<>> THEN <<"/">> ELSE spec.rules[i].path,
     to |-> buildIstioRouteDestinations(spec.rules[i].backend, canary),
     timeout |-> durationOrUnset(spec.timeout), cors |-> corsPolicy(spec.cors),
     headers |-> buildIstioHeaders(spec.rules[i].headers),
     retries |-> buildIstioHTTPRetry(spec.retries)]

reconcileVirtualService(r, spec, canary) ==
    Put(Child("VirtualService", r.ns, r.name),
        [gateway |-> gatewayRef(spec), hosts |-> uniqueHostsFromRules(spec.rules),
         http |-> [i \in DOMAIN spec.rules |-> virtualHTTPRoute(spec, i, canary)]])

reconcileDestinationRule(r, spec, i, backend) ==
    Put(Child("DestinationRule", gatewayRef(spec).ns, r.name \o <<"tls", Index(i)>>),
        [service |-> backend.service, ns |-> r.ns, port |-> backend.port])

reconcileEnvoyFilter(r, spec, i) ==
    IF spec.maxBody = "bad"
    THEN Failure
    ELSE Put(Child("EnvoyFilter", gatewayRef(spec).ns, r.name \o <<"body", "size", Index(i)>>),
             [selector |-> gatewayRef(spec).name,
              patches |-> << [vhost |-> spec.rules[i].host, filter |-> "buffer",
                              config |-> <<spec.maxBody>>] >>])

requestAuthentication(r, spec) ==
    Child("RequestAuthentication", gatewayRef(spec).ns, r.name \o <<"jwt">>)
authorizationPolicy(r, spec) ==
    Child("AuthorizationPolicy", gatewayRef(spec).ns, r.name \o <<"authz">>)
rateLimitEnvoyFilter(r, spec) ==
    Child("EnvoyFilter", gatewayRef(spec).ns, r.name \o <<"rate", "limit">>)

reconcileRequestAuthentication(r, spec) ==
    Put(requestAuthentication(r, spec),
        [selector |-> gatewayRef(spec).name, issuer |-> spec.auth.issuer,
         jwksUri |-> spec.auth.jwksUri, audiences |-> spec.auth.audiences,
         forward |-> spec.auth.forward # "off"])

\* A pattern that ends in a star stands for the paths that begin with the rest.
authzPathPattern(path) ==
    IF path = <<>> \/ path = <<"/">> THEN <<"/", "*">>
    ELSE IF path[Len(path)] = "*" THEN path
    ELSE path \o <<"*">>

reconcileAuthorizationPolicy(r, spec) ==
    Put(authorizationPolicy(r, spec),
        [selector |-> gatewayRef(spec).name,
         allow |-> [i \in DOMAIN spec.rules |->
            [host |-> spec.rules[i].host, path |-> authzPathPattern(spec.rules[i].path)]]])

deleteAuthResources(r, spec) ==
    Delete(<<requestAuthentication(r, spec), authorizationPolicy(r, spec)>>)

buildRateLimitRoutePatch(rate, host) ==
    [vhost |-> host, filter |-> "local_ratelimit",
     config |-> << IF rate.burst = Nil THEN rate.requests ELSE rate.burst,
                   rate.requests, rateLimitFillInterval(rate.unit) >>]

\* The filter itself, without a limit, in front of the router.
buildRateLimitHTTPFilterPatch ==
    [vhost |-> <<>>, filter |-> "local_ratelimit", config |-> <<>>]

reconcileRateLimitEnvoyFilter(r, spec) ==
    LET hosts == uniqueHostsFromRules(spec.rules)
    IN  IF rateLimitFillInterval(spec.rate.unit) = Nil
        THEN Failure
        ELSE Put(rateLimitEnvoyFilter(r, spec),
                 [selector |-> gatewayRef(spec).name,
                  patches |-> <<buildRateLimitHTTPFilterPatch>>
                              \o [k \in DOMAIN hosts |-> buildRateLimitRoutePatch(spec.rate, hosts[k])]])

deleteRateLimitEnvoyFilter(r, spec) == Delete(<<rateLimitEnvoyFilter(r, spec)>>)

\* The HTTPS backends in the order in which drIndex numbers them.
httpsBackends(spec, canary) ==
    LET per   == IF canary = Nil THEN 1 ELSE 2
        at(n) == routeRuleBackends(spec.rules[((n - 1) \div per) + 1], canary)[((n - 1) % per) + 1]
        https == Ranked({n \in 1 .. per * Len(spec.rules) : at(n).protocol = "HTTPS"})
    IN  [k \in DOMAIN https |-> at(https[k])]

\* Steps 1 to 7 of Reconcile, in their order, for the effective canary.
childPlan(r, spec, canary) ==
    LET rules == spec.rules
        hosts == uniqueHostsFromRules(rules)
        tls   == httpsBackends(spec, canary)
    IN  [i \in DOMAIN rules |-> reconcileHTTPRoute(r, spec, i, canary)]
        \o (IF spec.ssl = "off" THEN <<>>
            ELSE [i \in DOMAIN hosts |-> reconcileRedirectHTTPRoute(r, spec, i, hosts[i])])
        \o (IF spec.timeout = "" /\ spec.cors = Nil /\ spec.retries = Nil /\ canary = Nil THEN <<>>
            ELSE <<reconcileVirtualService(r, spec, canary)>>)
        \o [i \in 1 .. Len(tls) |-> reconcileDestinationRule(r, spec, i, tls[i])]
        \o (IF spec.maxBody = "" THEN <<>>
            ELSE [i \in DOMAIN rules |-> reconcileEnvoyFilter(r, spec, i)])
        \o (IF spec.auth = Nil THEN <<deleteAuthResources(r, spec)>>
            ELSE <<reconcileRequestAuthentication(r, spec), reconcileAuthorizationPolicy(r, spec)>>)
        \o (IF spec.rate = Nil THEN <<deleteRateLimitEnvoyFilter(r, spec)>>
            ELSE <<reconcileRateLimitEnvoyFilter(r, spec)>>)

=============================================================================

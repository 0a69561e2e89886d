------------------------- MODULE MCRouteController -------------------------
(***************************************************************************)
(* Instances of RouteController for TLC.                                   *)
(***************************************************************************)
EXTENDS RouteRefinement

\* Route keys.  "shop" and "shop-redirect" live in one namespace, "shop" also
\* exists in a second one.
shop         == [ns |-> "team-a", name |-> <<"shop">>, rank |-> 1]
shopRedirect == [ns |-> "team-a", name |-> <<"shop", "redirect">>, rank |-> 2]
shopB        == [ns |-> "team-b", name |-> <<"shop">>, rank |-> 3]

OneRoute    == {shop}
TwoRoutes   == {shop, shopRedirect}
TwoTenants  == {shop, shopB}

\* Backends, hosts and the plainest specification: one child, an HTTPRoute.
app     == [service |-> "app", port |-> 80, protocol |-> "HTTP"]
appTLS  == [service |-> "app", port |-> 443, protocol |-> "HTTPS"]
green   == [service |-> "green", port |-> 80, protocol |-> "HTTP"]
www     == <<"www", "example">>
api     == <<"api", "example">>
Rule(host, backend) == [host |-> host, path |-> <<>>, backend |-> backend, headers |-> Nil]

Plain ==
    [rules |-> <<Rule(www, app)>>, gateway |-> [name |-> "", ns |-> ""], ssl |-> "off",
     timeout |-> "", maxBody |-> "", cors |-> Nil, retries |-> Nil, auth |-> Nil, rate |-> Nil,
     canary |-> Nil]
Secure == [Plain EXCEPT !.rules = <<Rule(www, appTLS)>>]

\* Two hosts and everything a Route may ask for.
Headers ==
    [request |-> [set |-> <<"a", Nil>>, add |-> <<"b", "c">>, remove |-> <<>>],
     response |-> [set |-> <<Nil, Nil>>, add |-> <<Nil, Nil>>, remove |-> <<2>>]]
Full ==
    [Plain EXCEPT !.rules = << [Rule(www, appTLS) EXCEPT !.headers = Headers],
                               [Rule(api, app) EXCEPT !.path = <<"/v1/", "*">>] >>,
       !.ssl = "unset", !.timeout = "30s", !.maxBody = "1024",
       !.cors = [origins |-> <<"*">>, methods |-> <<"GET">>, headers |-> <<>>, maxAge |-> "bad"],
       !.retries = [attempts |-> 2, retryOn |-> "5xx", perTryTimeout |-> "1s"],
       !.auth = [issuer |-> "sso", jwksUri |-> "keys", audiences |-> <<"web">>, forward |-> "unset"],
       !.rate = [requests |-> 5, unit |-> "Hour", burst |-> Nil],
       !.canary = [backend |-> app, weight |-> 10, rollback |-> Nil]]
\* Every kind of cross-namespace child in one specification.
Secured == [Secure EXCEPT !.auth = Full.auth, !.maxBody = "1024"]
\* Children in the namespace of the Route, and a body size that is no number.
Timed   == [Plain EXCEPT !.timeout = "30s", !.maxBody = "bad"]

AppService  == {[ns |-> "team-a", name |-> "app"]}
Names == {"", "istio-gateway", "istio-system"}
DefaultGateway == {[name |-> "istio-gateway", ns |-> "istio-system"]}
AnyState   == {"missing", "empty", "ready"}
UpOrDown   == {"empty", "ready"}
AlwaysUp   == {"ready"}

\* A Gateway for all hosts, without TLS or with certificates in its own namespace
\* and in another one.
Ref(kind, ns, name) == [group |-> "", kind |-> kind, ns |-> ns, name |-> name]
Listener(protocol, refs) == [hostname |-> <<>>, protocol |-> protocol, refs |-> refs]
HTTPGateway == {[listeners |-> <<Listener("HTTP", Nil)>>]}
TLSGateway  ==
    {[listeners |-> << Listener("HTTPS", <<Ref("ConfigMap", "", "none"), Ref("", "", "tls")>>),
                       Listener("HTTPS", <<Ref("Secret", "certs", "tls")>>) >>]}
EitherGateway == HTTPGateway \cup TLSGateway
TLSSecrets  == {[ns |-> "istio-system", name |-> "tls"], [ns |-> "certs", name |-> "tls"]}
NoSecrets   == {}
\* Good until the clock starts to run; about to expire, with a longer chain.
Certificates == {<<2>>, <<1, 9>>}

\* A canary with a rollback after the first failed probe.
Canary == [backend |-> green, weight |-> 10, rollback |-> [threshold |-> 1, cooldown |-> 1]]
CanaryOnly  == [Plain EXCEPT !.canary = Canary]
CanaryTimed == [CanaryOnly EXCEPT !.timeout = "30s"]
CanaryServices == {[ns |-> "team-a", name |-> "app"], [ns |-> "team-a", name |-> "green"]}

TenantServices == {[ns |-> "team-a", name |-> "app"], [ns |-> "team-b", name |-> "app"]}
Other == [Plain EXCEPT !.rules = <<Rule(<<"other", "example">>, appTLS)>>]

LifecycleSpecs   == {Secured, Timed}
FaultSpecs       == {Secure}
SettleSpecs      == {Secure, Plain}
PlainSpecs       == {Plain}
TrafficSpecs     == {CanaryTimed, Full}
CanaryOnlySpecs  == {CanaryOnly}
TenantSpecs      == {Secure, Other}

NoBudget == [k \in BudgetKinds |-> 0]
LifecycleBudget ==
    [NoBudget EXCEPT !["create"] = 2, !["edit"] = 1, !["delete"] = 1, !["crash"] = 1,
                     !["gateway"] = 1]
FaultBudget ==
    [NoBudget EXCEPT !["create"] = 2, !["delete"] = 1, !["fault"] = 1]
SettleBudget ==
    [NoBudget EXCEPT !["create"] = 1, !["edit"] = 1, !["service"] = 1, !["meddle"] = 1,
                     !["secret"] = 1, !["crash"] = 1]
RecoveryBudget ==
    [NoBudget EXCEPT !["create"] = 1, !["delete"] = 1, !["meddle"] = 1, !["fault"] = 1,
                     !["crash"] = 1]
ConflictBudget ==
    [NoBudget EXCEPT !["create"] = 2, !["delete"] = 1]
TrafficBudget == [NoBudget EXCEPT !["create"] = 1, !["service"] = 1, !["crash"] = 1]
OrphanBudget == [NoBudget EXCEPT !["create"] = 1, !["delete"] = 1, !["fault"] = 1]
StuckBudget == [NoBudget EXCEPT !["create"] = 1, !["delete"] = 1, !["gateway"] = 1]
OnceBudget == [NoBudget EXCEPT !["create"] = 1]
PairBudget == [NoBudget EXCEPT !["create"] = 2]

-----------------------------------------------------------------------------
(* What no watch reports, in two clusters that are looked at together.  In *)
(* the one without TLS the user edits the Route and deletes a child, and   *)
(* the Services change; in the one with TLS the Secrets change and time    *)
(* passes.                                                                 *)

WithTLS == \A g \in GatewayRefs : gateways[g] \in TLSGateway

UnwatchedInit ==
    /\ Init
    /\ WithTLS => \A k \in ServiceKeys : services[k] = "ready"
    /\ ~WithTLS => \A k \in SecretKeys : secrets[k] = <<2>>

UnwatchedNext ==
    /\ Next
    /\ WithTLS => \A k \in {"edit", "service", "meddle"} : spent'[k] = 0
    /\ ~WithTLS => spent'["secret"] = 0 /\ now' = 0

UnwatchedSpec == UnwatchedInit /\ [][UnwatchedNext]_vars /\ Fairness

=============================================================================

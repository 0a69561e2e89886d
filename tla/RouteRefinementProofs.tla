------------------------ MODULE RouteRefinementProofs ------------------------
(***************************************************************************)
(* The controller implements RouteLifecycle, for any set of Routes and     *)
(* specifications, any interleaving and any faults: no child before the    *)
(* finalizer and, where the cleanup can see all there is to see, no        *)
(* release while a child in the namespace of the Gateway is left.          *)
(*                                                                         *)
(* FinalizerSafety shows that a live Route with children has its           *)
(* finalizer.  A deletion needs more: that no Reconcile that read the      *)
(* Route before its deletion still writes children when the finalizer goes *)
(* (GuardInv), and that the kinds cleaned up so far stay clean (Cleaned).  *)
(***************************************************************************)
EXTENDS RouteRefinement, RouteControllerProofs, FiniteSetTheorems

\* The steps of Reconcile for a Route that is being deleted.
Deleting == {"cleanup", "unfinalize"}

\* Reconcile cleans up a Route that is being deleted and has its finalizer, and
\* does everything else for a Route that was live when it was read.
WorkerInv ==
    job # Nil =>
        /\ pc \in Deleting => job.base.deleting /\ job.base.finalizer
        /\ pc \notin Deleting => ~job.base.deleting
        /\ pc = "cleanup" => job.step \in 1 .. Len(CrossKinds)

\* Only a deletion makes the garbage collector hold a Route.
HoldDeletes ==
    \A r \in Routes : routes[r] # Nil /\ routes[r].hold => routes[r].deleting

\* A deletion that was read is still under way, at the API server and, when
\* Reconcile works on it, in the cache it was read from.
DeletingKept ==
    /\ \A r \in Routes : routes[r] # Nil /\ cache[r] # Nil =>
         (cache[r].uid = routes[r].uid /\ cache[r].deleting => routes[r].deleting)
    /\ job # Nil =>
         LET r == job.key IN
         /\ routes[r] # Nil =>
              (job.base.uid = routes[r].uid /\ job.base.deleting => routes[r].deleting)
         /\ cache[r] # Nil =>
              (job.base.uid = cache[r].uid /\ job.base.deleting => cache[r].deleting)

\* A live Route that was read with its finalizer is still there and has it.
Held(o, r) ==
    o.finalizer /\ ~o.deleting =>
        routes[r] # Nil /\ routes[r].uid = o.uid /\ routes[r].finalizer

\* However stale what Reconcile works with, the finalizer it saw on a live Route
\* cannot be gone: only a later Reconcile of the same worker would remove it.
WorkGuarded ==
    /\ \A r \in Routes : cache[r] # Nil => Held(cache[r], r)
    /\ job # Nil => Held(job.base, job.key)

GuardInv == WorkerInv /\ HoldDeletes /\ DeletingKept /\ WorkGuarded

\* A child of a Route that exists has its label, which the cleanup looks for.
LabelsRight ==
    \A id \in ChildIds, r \in Routes :
        children[id] # Nil /\ routes[r] # Nil /\ routes[r].uid = children[id].uid
            => children[id].label = r.name

\* Without lag the caches of the children are exact.
CacheExact == ~ChildLag => childCache = children

\* The kinds that the cleanup has been through have no child of the Route.
Cleaned ==
    ~CleanupMayMiss /\ pc \in Deleting =>
        \A id \in ChildIds :
            /\ ~Owned(id)
            /\ children[id] # Nil
            /\ children[id].uid = job.base.uid
            /\ routes[job.key] # Nil
            /\ routes[job.key].uid = job.base.uid
            => pc = "cleanup" /\ \E k \in job.step .. Len(CrossKinds) : id.kind = CrossKinds[k]

CleanupInv == LabelsRight /\ CacheExact /\ Cleaned

-----------------------------------------------------------------------------
(* Where the children of a Route lie.                                      *)

\* The names of the children beside a Gateway say whose they are.
NamedFor(id, name) ==
    \/ id.kind = "DestinationRule" /\ \E i : id.name = name \o <<"tls", Index(i)>>
    \/ id.kind = "EnvoyFilter" /\ \E i : id.name = name \o <<"body", "size", Index(i)>>
    \/ id.kind = "EnvoyFilter" /\ id.name = name \o <<"rate", "limit">>
    \/ id.kind = "RequestAuthentication" /\ id.name = name \o <<"jwt">>
    \/ id.kind = "AuthorizationPolicy" /\ id.name = name \o <<"authz">>

\* Every child that an operation of r names lies where its kind belongs.
Placed(o, r, spec) ==
    \A i \in DOMAIN o.ids : ~Owned(o.ids[i]) =>
        o.ids[i].ns = gatewayRef(spec).ns /\ NamedFor(o.ids[i], r.name)

\* Plans are put together from their parts.
LEMMA Concatenated ==
    ASSUME NEW s, NEW t, NEW r, NEW spec,
           \A k \in 1 .. Len(s) : Placed(s[k], r, spec), \A k \in 1 .. Len(t) : Placed(t[k], r, spec)
    PROVE  /\ DOMAIN (s \o t) = 1 .. Len(s \o t)
           /\ \A k \in 1 .. Len(s \o t) : Placed((s \o t)[k], r, spec)
<1> DEFINE u == s \o t
<1>1. /\ Len(s) \in Nat /\ Len(t) \in Nat
      /\ Len(u) = Len(s) + Len(t)
      /\ \A k \in 1 .. Len(u) : IF k <= Len(s) THEN u[k] = s[k] ELSE u[k] = t[k - Len(s)]
      /\ DOMAIN u = 1 .. Len(u)
  OBVIOUS
<1> HIDE DEF u
<1>2. \A k \in 1 .. Len(u) : Placed(u[k], r, spec)
  <2> TAKE k \in 1 .. Len(u)
  <2>1. CASE k <= Len(s)
    BY <1>1, <2>1
  <2>2. CASE k > Len(s)
    <3>1. k - Len(s) \in 1 .. Len(t)
      BY <1>1, <2>2
    <3>2. QED
      BY <1>1, <2>2, <3>1
  <2>3. QED
    BY <1>1, <2>1, <2>2
<1>3. QED
  BY <1>1, <1>2 DEF u

-----------------------------------------------------------------------------
(* The lists that are made of a specification lose nothing.                *)

\* Every position of a finite set of numbers is that of one of its elements.
LEMMA RankedPositions ==
    ASSUME NEW S \in SUBSET Nat, IsFiniteSet(S)
    PROVE  /\ Cardinality(S) \in Nat
           /\ \A i \in S : Cardinality({j \in S : j <= i}) \in 1 .. Cardinality(S)
           /\ \A k \in 1 .. Cardinality(S) : \E i \in S : Cardinality({j \in S : j <= i}) = k
           /\ \A i, m \in S : Cardinality({j \in S : j <= i}) = Cardinality({j \in S : j <= m}) => i = m
<1> DEFINE below(i) == {j \in S : j <= i}
           n == Cardinality(S)
<1>1. n \in Nat
  BY FS_CardinalityType
<1>2. \A i \in S : /\ IsFiniteSet(below(i)) /\ Cardinality(below(i)) \in Nat
                   /\ Cardinality(below(i)) <= n
  BY FS_Subset, FS_CardinalityType
<1>3. \A i \in S : Cardinality(below(i)) # 0
  <2> TAKE i \in S
  <2>1. i \in below(i)
    OBVIOUS
  <2>2. QED
    BY <1>2, <2>1, FS_EmptySet
<1>4. \A i \in S : Cardinality(below(i)) \in 1 .. n
  BY <1>1, <1>2, <1>3
<1>5. \A i, m \in S : Cardinality(below(i)) = Cardinality(below(m)) /\ i <= m => i = m
  <2> SUFFICES ASSUME NEW i \in S, NEW m \in S, Cardinality(below(i)) = Cardinality(below(m)), i <= m
               PROVE  i = m
    OBVIOUS
  <2>1. below(i) \in SUBSET below(m)
    <3>1. i \in Nat /\ m \in Nat /\ \A j \in S : j \in Nat
      OBVIOUS
    <3>2. \A j \in S : j <= i => j <= m
      BY <3>1
    <3>3. QED
      BY <3>2
  <2>2. below(m) = below(i)
    BY <1>2, <2>1, FS_Subset
  <2>3. m \in below(i)
    BY <2>2
  <2>4. QED
    BY <2>3
<1>6. \A i, m \in S : Cardinality(below(i)) = Cardinality(below(m)) => i = m
  BY <1>5
<1> DEFINE rank == [i \in S |-> Cardinality(below(i))]
<1>7. rank \in Injection(S, 1 .. n)
  BY <1>4, <1>6 DEF Injection, IsInjective
<1>8. IsFiniteSet(1 .. n) /\ Cardinality(1 .. n) = n
  BY <1>1, FS_Interval
<1>9. rank \in Surjection(S, 1 .. n)
  BY <1>7, <1>8, FS_Injection
<1>10. \A k \in 1 .. n : \E i \in S : Cardinality(below(i)) = k
  BY <1>9 DEF Surjection
<1>11. QED
  BY <1>1, <1>4, <1>6, <1>10

\* The list of a finite set of numbers has exactly its elements.
LEMMA RankedKeeps ==
    ASSUME NEW S \in SUBSET Nat, IsFiniteSet(S)
    PROVE  /\ Cardinality(S) \in Nat
           /\ DOMAIN Ranked(S) = 1 .. Cardinality(S)
           /\ \A x : x \in S <=> \E k \in DOMAIN Ranked(S) : Ranked(S)[k] = x
           /\ \A k \in DOMAIN Ranked(S) : Cardinality({j \in S : j <= Ranked(S)[k]}) = k
<1> DEFINE n == Cardinality(S)
           rank(i) == Cardinality({j \in S : j <= i})
<1>1. /\ n \in Nat
      /\ \A i \in S : rank(i) \in 1 .. n
      /\ \A k \in 1 .. n : \E i \in S : rank(i) = k
      /\ \A i, m \in S : rank(i) = rank(m) => i = m
  BY RankedPositions
<1>2. Ranked(S) = [k \in 1 .. n |-> CHOOSE i \in S : rank(i) = k]
  BY DEF Ranked
<1> HIDE DEF rank, n
<1>3. DOMAIN Ranked(S) = 1 .. n /\ \A k \in 1 .. n : Ranked(S)[k] \in S /\ rank(Ranked(S)[k]) = k
  BY <1>1, <1>2
<1>4. \A i \in S : rank(i) \in 1 .. n /\ Ranked(S)[rank(i)] = i
  BY <1>1, <1>3
<1>5. QED
  BY <1>1, <1>3, <1>4 DEF rank, n

\* The first of the numbers in a set.
LEMMA Least ==
    ASSUME NEW S \in SUBSET Nat, IsFiniteSet(S), S # {}
    PROVE  \E i \in S : \A j \in S : i <= j
<1>1. Cardinality(S) \in Nat /\ Cardinality(S) # 0
  BY FS_CardinalityType, FS_EmptySet
<1>2. PICK i \in S : Cardinality({j \in S : j <= i}) = 1
  BY <1>1, RankedPositions
<1>3. ASSUME NEW j \in S, j < i PROVE FALSE
  <2>1. {i, j} \in SUBSET {m \in S : m <= i}
    BY <1>3
  <2>2. IsFiniteSet({m \in S : m <= i})
    BY FS_Subset
  <2>3. Cardinality({i, j}) <= 1
    BY <1>2, <2>1, <2>2, FS_Subset
  <2>4. Cardinality({i}) = 1 /\ IsFiniteSet({i})
    BY FS_Singleton
  <2>5. Cardinality({i} \cup {j}) = 2
    BY <1>3, <2>4, FS_AddElement
  <2>6. {i} \cup {j} = {i, j}
    OBVIOUS
  <2>7. QED
    BY <2>3, <2>5, <2>6
<1>4. \A j \in S : i <= j
  BY <1>3
<1>5. QED
  BY <1>4

\* The positions of a list are finitely many.
LEMMA PositionsFinite ==
    ASSUME NEW n \in Nat, NEW S \in SUBSET (1 .. n)
    PROVE  S \in SUBSET Nat /\ IsFiniteSet(S)
<1>1. IsFiniteSet(1 .. n)
  BY FS_Interval
<1>2. IsFiniteSet(S)
  BY <1>1, FS_Subset
<1>3. QED
  BY <1>2

\* uniqueHostsFromRules returns a list, and every host is on it.
LEMMA HostsListed ==
    ASSUME NEW rules, DOMAIN rules = 1 .. Len(rules), Len(rules) \in Nat
    PROVE  /\ \E h \in Nat : DOMAIN uniqueHostsFromRules(rules) = 1 .. h
           /\ \A i \in DOMAIN rules :
                \E k \in DOMAIN uniqueHostsFromRules(rules) : uniqueHostsFromRules(rules)[k] = rules[i].host
<1> DEFINE S == {i \in DOMAIN rules : \A j \in 1 .. i - 1 : rules[j].host # rules[i].host}
<1>1. S \in SUBSET Nat /\ IsFiniteSet(S)
  BY PositionsFinite
<1>2. PICK first : first = Ranked(S)
  OBVIOUS
<1>3. uniqueHostsFromRules(rules) = [k \in DOMAIN first |-> rules[first[k]].host]
  BY <1>2 DEF uniqueHostsFromRules
<1>4. \E h \in Nat : DOMAIN first = 1 .. h
  BY <1>1, <1>2, RankedKeeps
<1>5. \A x \in S : \E k \in DOMAIN first : first[k] = x
  BY <1>1, <1>2, RankedKeeps
<1>6. ASSUME NEW i \in DOMAIN rules PROVE \E m \in S : rules[m].host = rules[i].host
  <2> DEFINE T == {j \in DOMAIN rules : rules[j].host = rules[i].host}
  <2>1. T \in SUBSET Nat /\ IsFiniteSet(T)
    BY PositionsFinite
  <2>2. i \in T
    OBVIOUS
  <2>3. PICK m \in T : \A j \in T : m <= j
    BY <2>1, <2>2, Least
  <2>4. m \in DOMAIN rules /\ \A j \in 1 .. m - 1 : j \in DOMAIN rules /\ j \notin T
    BY <2>3
  <2>5. m \in S
    BY <2>4
  <2>6. QED
    BY <2>5
<1> HIDE DEF S
<1>7. \A i \in DOMAIN rules : \E k \in DOMAIN first : rules[first[k]].host = rules[i].host
  BY <1>5, <1>6
<1>8. QED
  BY <1>3, <1>4, <1>7

\* Every HTTPS backend of a rule is on the list of httpsBackends.
LEMMA BackendsListed ==
    ASSUME NEW spec \in RouteSpecs, NEW canary,
           NEW i \in DOMAIN spec.rules, NEW k \in DOMAIN routeRuleBackends(spec.rules[i], canary),
           routeRuleBackends(spec.rules[i], canary)[k].protocol = "HTTPS"
    PROVE  /\ routeRuleBackends(spec.rules[i], canary)[k] \in ToSet(httpsBackends(spec, canary))
           /\ DOMAIN httpsBackends(spec, canary) = 1 .. Len(httpsBackends(spec, canary))
<1>a. DOMAIN spec.rules = 1 .. Len(spec.rules) /\ Len(spec.rules) \in Nat
  BY DEF RouteSpecs
<1>b. PICK backend : backend = routeRuleBackends(spec.rules[i], canary)[k] /\ backend.protocol = "HTTPS"
  OBVIOUS
<1>c. PICK tls : tls = httpsBackends(spec, canary)
  OBVIOUS
<1> DEFINE per == IF canary = Nil THEN 1 ELSE 2
           at(n) == routeRuleBackends(spec.rules[((n - 1) \div per) + 1], canary)[((n - 1) % per) + 1]
           S == {n \in 1 .. per * Len(spec.rules) : at(n).protocol = "HTTPS"}
<1>1. per * Len(spec.rules) \in Nat
  <2>1. per = 1 \/ per = 2
    OBVIOUS
  <2> HIDE DEF per
  <2>2. QED
    BY <1>a, <2>1
<1>2. S \in SUBSET Nat /\ IsFiniteSet(S)
  <2>1. S \in SUBSET (1 .. per * Len(spec.rules))
    OBVIOUS
  <2> HIDE DEF S, per
  <2>2. QED
    BY <1>1, <2>1, PositionsFinite
<1>3. PICK https : https = Ranked(S)
  OBVIOUS
<1>4. httpsBackends(spec, canary) = [m \in DOMAIN https |-> at(https[m])]
  BY <1>3 DEF httpsBackends
<1> HIDE DEF S
<1>5. \E h \in Nat : DOMAIN https = 1 .. h
  BY <1>2, <1>3, RankedKeeps
<1>6. \A x \in S : \E m \in DOMAIN https : https[m] = x
  BY <1>2, <1>3, RankedKeeps
<1>7. /\ per * (i - 1) + k \in 1 .. per * Len(spec.rules)
      /\ at(per * (i - 1) + k) = backend
  <2>1. k \in 1 .. per
    <3>1. \A x, y : DOMAIN <<x>> = 1 .. 1 /\ DOMAIN <<x, y>> = 1 .. 2
      OBVIOUS
    <3>2. QED
      BY <3>1 DEF routeRuleBackends
  <2>2. i \in Nat /\ 1 <= i /\ i <= Len(spec.rules)
    BY <1>a
  <2>3. PICK n : n = per * (i - 1) + k
    OBVIOUS
  <2>4. per \in {1, 2}
    OBVIOUS
  <2> HIDE DEF per
  <2>5. n \in 1 .. per * Len(spec.rules) /\ (n - 1) \div per = i - 1 /\ (n - 1) % per = k - 1
    <3>1. ASSUME per = 1
          PROVE  n \in 1 .. per * Len(spec.rules) /\ (n - 1) \div per = i - 1 /\ (n - 1) % per = k - 1
      <4>1. k = 1 /\ n = i
        BY <2>1, <2>2, <2>3, <3>1
      <4>2. QED
        BY <2>2, <3>1, <4>1
    <3>2. ASSUME per = 2
          PROVE  n \in 1 .. per * Len(spec.rules) /\ (n - 1) \div per = i - 1 /\ (n - 1) % per = k - 1
      <4>1. (k = 1 /\ n = 2 * (i - 1) + 1) \/ (k = 2 /\ n = 2 * (i - 1) + 2)
        BY <2>1, <2>2, <2>3, <3>2
      <4>2. \A q \in Nat : /\ (2 * q) \div 2 = q /\ (2 * q) % 2 = 0
                          /\ (2 * q + 1) \div 2 = q /\ (2 * q + 1) % 2 = 1
        OBVIOUS
      <4>3. PICK q \in Nat : q = i - 1
        BY <2>2
      <4>4. (k = 1 /\ n - 1 = 2 * q) \/ (k = 2 /\ n - 1 = 2 * q + 1)
        BY <4>1, <4>3
      <4>5. (n - 1) \div per = q /\ (n - 1) % per = k - 1
        BY <3>2, <4>2, <4>4
      <4>6. n \in 1 .. per * Len(spec.rules)
        BY <2>2, <3>2, <4>1
      <4>7. QED
        BY <4>3, <4>5, <4>6
    <3>3. QED
      BY <2>4, <3>1, <3>2
  <2>6. ((n - 1) \div per) + 1 = i /\ ((n - 1) % per) + 1 = k
    BY <2>1, <2>2, <2>5
  <2>7. QED
    BY <1>b, <2>3, <2>5, <2>6
<1> HIDE DEF per, at
<1>8. PICK n \in DOMAIN https : at(https[n]) = backend
  <2>1. PICK x : x = per * (i - 1) + k
    OBVIOUS
  <2>2. x \in S /\ at(x) = backend
    BY <1>b, <1>7, <2>1 DEF S
  <2>3. QED
    BY <1>6, <2>2
<1>9. PICK h \in Nat : DOMAIN https = 1 .. h
  BY <1>5
<1>10. tls = [m \in 1 .. h |-> at(https[m])]
  BY <1>c, <1>4, <1>9
<1>11. Len(tls) = h /\ tls[n] = backend
  BY <1>8, <1>9, <1>10
<1>12. DOMAIN tls = 1 .. h
  BY <1>10
<1>13. QED
  BY <1>b, <1>c, <1>8, <1>9, <1>11, <1>12 DEF ToSet

\* sortedMapKeys returns the keys of a map.
LEMMA KeysListed ==
    ASSUME NEW m \in HeaderMaps
    PROVE  \A x : x \in mapKeys(m) <=> \E k \in DOMAIN sortedMapKeys(m) : sortedMapKeys(m)[k] = x
<1>1. mapKeys(m) \in SUBSET HeaderNames
  BY DEF mapKeys, HeaderMaps
<1>2. mapKeys(m) \in SUBSET Nat /\ IsFiniteSet(mapKeys(m))
  BY <1>1, RankedNames, FS_Subset
<1>3. QED
  BY <1>2, RankedKeeps DEF sortedMapKeys

-----------------------------------------------------------------------------

\* Where the operations of Reconcile put their children, or look for them.
LEMMA ChildPlaces ==
    ASSUME NEW r \in Routes, NEW spec \in AllSpecs, NEW canary,
           NEW k \in DOMAIN childPlan(r, spec, canary)
    PROVE  Placed(childPlan(r, spec, canary)[k], r, spec)
<1> DEFINE rules == spec.rules
           hosts == uniqueHostsFromRules(rules)
           tls == httpsBackends(spec, canary)
           p1 == [i \in DOMAIN rules |-> reconcileHTTPRoute(r, spec, i, canary)]
           p2 == IF spec.ssl = "off" THEN <<>>
                 ELSE [i \in DOMAIN hosts |-> reconcileRedirectHTTPRoute(r, spec, i, hosts[i])]
           p3 == IF spec.timeout = "" /\ spec.cors = Nil /\ spec.retries = Nil /\ canary = Nil THEN <<>>
                 ELSE <<reconcileVirtualService(r, spec, canary)>>
           p4 == [i \in 1 .. Len(tls) |-> reconcileDestinationRule(r, spec, i, tls[i])]
           p5 == IF spec.maxBody = "" THEN <<>>
                 ELSE [i \in DOMAIN rules |-> reconcileEnvoyFilter(r, spec, i)]
           p6 == IF spec.auth = Nil THEN <<deleteAuthResources(r, spec)>>
                 ELSE <<reconcileRequestAuthentication(r, spec), reconcileAuthorizationPolicy(r, spec)>>
           p7 == IF spec.rate = Nil THEN <<deleteRateLimitEnvoyFilter(r, spec)>>
                 ELSE <<reconcileRateLimitEnvoyFilter(r, spec)>>
           Good(p) == \A j \in 1 .. Len(p) : Placed(p[j], r, spec)
<1>1. childPlan(r, spec, canary) = p1 \o p2 \o p3 \o p4 \o p5 \o p6 \o p7
  BY DEF childPlan
<1>2. DOMAIN rules = 1 .. Len(rules) /\ Len(rules) \in Nat
  BY MutatedType DEF RouteSpecs
<1>3. \A id, body : Owned(id) => Placed(Put(id, body), r, spec)
  BY DEF Placed, Put
<1>4. \A id, body : id.ns = gatewayRef(spec).ns /\ NamedFor(id, r.name) => Placed(Put(id, body), r, spec)
  BY DEF Placed, Put
<1>5. Placed(Failure, r, spec)
  BY DEF Placed, Failure
<1>6. Good(p1)
  <2> USE DEF reconcileHTTPRoute
  <2>1. \A i : Owned(Child("HTTPRoute", r.ns, r.name \o <<Index(i)>>))
    BY DEF Owned, Child, CrossKinds, ToSet
  <2>2. \A i : Placed(reconcileHTTPRoute(r, spec, i, canary), r, spec)
    BY <1>3, <2>1
  <2> HIDE DEF reconcileHTTPRoute
  <2>3. QED
    BY <1>2, <2>2
<1>7. Good(p2)
  <2>1. \A i : Owned(Child("HTTPRoute", r.ns, r.name \o <<"redirect", Index(i)>>))
    BY DEF Owned, Child, CrossKinds, ToSet
  <2>2. \A i, host : Placed(reconcileRedirectHTTPRoute(r, spec, i, host), r, spec)
    BY <1>3, <2>1 DEF reconcileRedirectHTTPRoute
  <2>3. PICK n \in Nat : DOMAIN hosts = 1 .. n
    BY <1>2, HostsListed
  <2> HIDE DEF hosts
  <2> DEFINE redirects == [i \in 1 .. n |-> reconcileRedirectHTTPRoute(r, spec, i, hosts[i])]
  <2>4. Len(redirects) = n /\ \A j \in 1 .. n : redirects[j] = reconcileRedirectHTTPRoute(r, spec, j, hosts[j])
    OBVIOUS
  <2>5. p2 = <<>> \/ p2 = redirects
    BY <2>3
  <2> HIDE DEF p2, redirects
  <2>6. Good(redirects)
    BY <2>2, <2>4
  <2>7. QED
    BY <2>5, <2>6
<1>8. Good(p3)
  <2>1. Owned(Child("VirtualService", r.ns, r.name))
    BY DEF Owned, Child, CrossKinds, ToSet
  <2>2. Placed(reconcileVirtualService(r, spec, canary), r, spec)
    BY <1>3, <2>1 DEF reconcileVirtualService
  <2>3. p3 = <<>> \/ p3 = <<reconcileVirtualService(r, spec, canary)>>
    OBVIOUS
  <2> HIDE DEF p3
  <2>4. QED
    BY <2>2, <2>3
<1>9. Good(p4)
  <2>1. \A i : LET id == Child("DestinationRule", gatewayRef(spec).ns, r.name \o <<"tls", Index(i)>>)
               IN  id.ns = gatewayRef(spec).ns /\ NamedFor(id, r.name)
    BY DEF NamedFor, Child
  <2>2. \A i, backend : Placed(reconcileDestinationRule(r, spec, i, backend), r, spec)
    BY <1>4, <2>1 DEF reconcileDestinationRule
  <2> HIDE DEF tls
  <2>3. QED
    BY <2>2
<1>10. Good(p5)
  <2>0. \A i : LET id == Child("EnvoyFilter", gatewayRef(spec).ns, r.name \o <<"body", "size", Index(i)>>)
               IN  id.ns = gatewayRef(spec).ns /\ NamedFor(id, r.name)
    BY DEF NamedFor, Child
  <2>1. \A i : Placed(reconcileEnvoyFilter(r, spec, i), r, spec)
    BY <1>4, <1>5, <2>0 DEF reconcileEnvoyFilter
  <2> DEFINE filters == [i \in 1 .. Len(rules) |-> reconcileEnvoyFilter(r, spec, i)]
  <2>2. /\ Len(filters) = Len(rules)
        /\ \A j \in 1 .. Len(rules) : filters[j] = reconcileEnvoyFilter(r, spec, j)
    BY <1>2
  <2>3. p5 = <<>> \/ p5 = filters
    BY <1>2
  <2> HIDE DEF p5, filters
  <2>4. Good(filters)
    BY <2>1, <2>2
  <2>5. QED
    BY <2>3, <2>4
<1>11. Good(p6)
  <2>1. /\ requestAuthentication(r, spec).ns = gatewayRef(spec).ns
        /\ NamedFor(requestAuthentication(r, spec), r.name)
        /\ authorizationPolicy(r, spec).ns = gatewayRef(spec).ns
        /\ NamedFor(authorizationPolicy(r, spec), r.name)
    BY DEF requestAuthentication, authorizationPolicy, Child, NamedFor
  <2>2. Placed(deleteAuthResources(r, spec), r, spec)
    BY <2>1 DEF deleteAuthResources, Delete, Placed
  <2>3. /\ Placed(reconcileRequestAuthentication(r, spec), r, spec)
        /\ Placed(reconcileAuthorizationPolicy(r, spec), r, spec)
    BY <1>4, <2>1 DEF reconcileRequestAuthentication, reconcileAuthorizationPolicy
  <2>4. QED
    BY <2>2, <2>3
<1>12. Good(p7)
  <2>1. /\ rateLimitEnvoyFilter(r, spec).ns = gatewayRef(spec).ns
        /\ NamedFor(rateLimitEnvoyFilter(r, spec), r.name)
    BY DEF rateLimitEnvoyFilter, Child, NamedFor
  <2>2. Placed(deleteRateLimitEnvoyFilter(r, spec), r, spec)
    BY <2>1 DEF deleteRateLimitEnvoyFilter, Delete, Placed
  <2>3. Placed(reconcileRateLimitEnvoyFilter(r, spec), r, spec)
    BY <1>4, <1>5, <2>1 DEF reconcileRateLimitEnvoyFilter
  <2>4. QED
    BY <2>2, <2>3
<1> HIDE DEF p1, p2, p3, p4, p5, p6, p7
<1>13. Good(p1 \o p2)
  BY <1>6, <1>7, Concatenated
<1>14. Good((p1 \o p2) \o p3)
  BY <1>8, <1>13, Concatenated
<1>15. Good((p1 \o p2 \o p3) \o p4)
  BY <1>9, <1>14, Concatenated
<1>16. Good((p1 \o p2 \o p3 \o p4) \o p5)
  BY <1>10, <1>15, Concatenated
<1>17. Good((p1 \o p2 \o p3 \o p4 \o p5) \o p6)
  BY <1>11, <1>16, Concatenated
<1>18. /\ Good((p1 \o p2 \o p3 \o p4 \o p5 \o p6) \o p7)
       /\ DOMAIN (p1 \o p2 \o p3 \o p4 \o p5 \o p6 \o p7) = 1 .. Len(p1 \o p2 \o p3 \o p4 \o p5 \o p6 \o p7)
  BY <1>12, <1>17, Concatenated
<1>19. QED
  BY <1>1, <1>18

\* A child outside the namespace of its Route lies beside a Gateway.
LEMMA CrossPlaces ==
    ASSUME NEW id \in ChildIds, ~Owned(id)
    PROVE  \E s \in AllSpecs : id.ns = gatewayRef(s).ns
<1>1. PICK o \in Operations : \E i \in DOMAIN o.ids : id = o.ids[i]
  BY DEF ChildIds
<1>2. PICK r \in Routes, s \in AllSpecs :
        \E c \in {s.canary, Nil} : \E k \in DOMAIN childPlan(r, s, c) : o = childPlan(r, s, c)[k]
  BY <1>1 DEF Operations
<1>3. Placed(o, r, s)
  BY <1>2, ChildPlaces
<1>4. QED
  BY <1>1, <1>3 DEF Placed

-----------------------------------------------------------------------------
(* What the steps of the system do to the Routes, the children and the     *)
(* object that Reconcile works on.                                         *)

\* Reconcile returns, does nothing, or goes on with the same object.
JobStays ==
    \/ job' = Nil
    \/ job' = job /\ pc' = pc
    \/ /\ job # Nil /\ job' # Nil
       /\ pc \in Working /\ pc' \in Working
       /\ job'.key = job.key /\ job'.base = job.base

\* The caches of the children follow at once, or catch up.
ChildCacheFollows ==
    \/ \E new : SetChildren(new)
    \/ childCache' = children /\ children' = children
    \/ UNCHANGED <<children, childCache>>

\* Nothing happens to the Routes, and children only disappear.
ChildrenGo ==
    /\ UNCHANGED <<routes, cache>>
    /\ spent'["create"] = spent["create"]
    /\ \A id \in ChildIds : children'[id] # Nil => children'[id] = children[id]
    /\ ChildCacheFollows
    /\ JobStays

\* A step that gives Reconcile no new object, and does not write a Route or a child.
Minor ==
    \/ \E r \in Routes : BeginGone(r) \/ BeginFails(r) \/ BeginReleased(r) \/ RequeueDue(r)
    \/ CheckCertificate \/ CheckConflicts \/ CheckBackends \/ EvaluationFails
    \/ ChooseCanary \/ StartProbe \/ (\E bad \in BOOLEAN : FinishProbe(bad))
    \/ (\E n \in 0 .. 2, succeeded \in BOOLEAN : DeleteChildren(n, succeeded))
    \/ SkipChild
    \/ Resync \/ ChildSync
    \/ (\E id \in ChildIds : GarbageCollect(id) \/ DeleteChild(id))
    \/ Cluster \/ Tick
    \/ UNCHANGED vars

\* A step by which somebody else writes a Route that exists.
Rewrites(r) ==
    \/ \E spec \in Specs : EditRoute(r, spec)
    \/ \E foreground \in BOOLEAN : DeleteRoute(r, foreground)
    \/ ReleaseHold(r)

\* The other steps.
Major ==
    \/ \E r \in Routes : Begin(r)
    \/ CleanupKind
    \/ \E out \in Outcomes :
         RemoveFinalizer(out) \/ AddFinalizer(out) \/ PutChild(out) \/ WriteStatus(out)
    \/ CacheSync \/ Crash
    \/ \E r \in Routes, spec \in Specs : CreateRoute(r, spec)
    \/ \E r \in Routes : Rewrites(r)

\* There are no other steps.
LEMMA StepCases ==
    ASSUME [Next]_vars
    PROVE  Minor \/ Major
BY Zenon DEF Next, BeginAny, Worker, Collector, User, Minor, Major, Rewrites

\* Only a creation counts as one.
LEMMA SpendOther ==
    ASSUME TypeOK, NEW k \in BudgetKinds \ {"create"}, Spend(k) \/ UNCHANGED spent
    PROVE  spent'["create"] = spent["create"]
BY DEF Spend, TypeOK, BudgetKinds

LEMMA CallFaultOther ==
    ASSUME TypeOK, NEW accepted, NEW out, CallFault(accepted, out)
    PROVE  spent'["create"] = spent["create"]
<1>1. Spend("fault") \/ UNCHANGED spent
  BY DEF CallFault
<1>2. QED
  BY <1>1, SpendOther DEF BudgetKinds

LEMMA MinorSteps ==
    ASSUME TypeInv, TypeInv', Minor
    PROVE  ChildrenGo
<1>1. UNCHANGED <<routes, cache>>
  BY DEF Minor, BeginGone, BeginFails, BeginReleased, RequeueDue, CheckCertificate, CheckConflicts,
         CheckBackends, EvaluationFails, ChooseCanary, StartProbe, FinishProbe, DeleteChildren,
         SkipChild, Resync, ChildSync, GarbageCollect, DeleteChild, Cluster, SetService, SetGateway,
         SetSecret, Tick, apiVars, vars
<1>2. spent'["create"] = spent["create"]
  <2>1. \/ Spend("fault") \/ Spend("meddle") \/ Spend("service") \/ Spend("gateway") \/ Spend("secret")
        \/ UNCHANGED spent
    BY DEF Minor, BeginGone, BeginFails, BeginReleased, RequeueDue, CheckCertificate, CheckConflicts,
           CheckBackends, EvaluationFails, ChooseCanary, StartProbe, FinishProbe, DeleteChildren,
           SkipChild, Resync, ChildSync, GarbageCollect, DeleteChild, Cluster, SetService, SetGateway,
           SetSecret, Tick, vars
  <2>2. QED
    BY <2>1, SpendOther DEF BudgetKinds, TypeInv
<1>3. /\ \A id \in ChildIds : children'[id] # Nil => children'[id] = children[id]
      /\ ChildCacheFollows
  <2>1. ASSUME NEW n \in 0 .. 2, NEW succeeded \in BOOLEAN, DeleteChildren(n, succeeded)
        PROVE  <1>3!1 /\ <1>3!2
    BY <2>1 DEF DeleteChildren, SetChildren, ChildCacheFollows
  <2>2. ASSUME NEW x \in ChildIds, GarbageCollect(x) \/ DeleteChild(x)
        PROVE  <1>3!1 /\ <1>3!2
    BY <2>2 DEF GarbageCollect, DeleteChild, SetChildren, ChildCacheFollows, TypeInv, TypeOK
  <2>3. \/ \E n \in 0 .. 2, succeeded \in BOOLEAN : DeleteChildren(n, succeeded)
        \/ \E x \in ChildIds : GarbageCollect(x) \/ DeleteChild(x)
        \/ UNCHANGED children /\ (UNCHANGED childCache \/ childCache' = children)
    BY DEF Minor, BeginGone, BeginFails, BeginReleased, RequeueDue, CheckCertificate, CheckConflicts,
           CheckBackends, EvaluationFails, ChooseCanary, StartProbe, FinishProbe,
           SkipChild, Resync, ChildSync, Cluster, SetService, SetGateway, SetSecret, Tick, apiVars, vars
  <2>4. QED
    BY <2>1, <2>2, <2>3 DEF ChildCacheFollows
<1>4. JobStays
  <2> USE DEF JobStays
  <2>1. CASE \/ \E r \in Routes : BeginGone(r) \/ BeginFails(r) \/ BeginReleased(r) \/ RequeueDue(r)
             \/ Resync \/ ChildSync
             \/ \E id \in ChildIds : GarbageCollect(id) \/ DeleteChild(id)
             \/ Cluster \/ Tick
             \/ UNCHANGED vars
    BY <2>1 DEF BeginGone, BeginFails, BeginReleased, RequeueDue, Resync, ChildSync, GarbageCollect,
                DeleteChild, Cluster, SetService, SetGateway, SetSecret, Tick, workerVars, vars
  <2>2. CASE EvaluationFails
    BY <2>2 DEF EvaluationFails, ReturnRequeue
  <2>3. CASE \/ CheckCertificate \/ CheckConflicts \/ CheckBackends \/ ChooseCanary \/ StartProbe
             \/ (\E bad \in BOOLEAN : FinishProbe(bad)) \/ SkipChild
             \/ \E n \in 0 .. 2, succeeded \in BOOLEAN : DeleteChildren(n, succeeded)
    <3>1. pc \in Working /\ pc' \in Working /\ job # Nil /\ job \in Jobs /\ job' # Nil
      BY <2>3 DEF CheckCertificate, CheckConflicts, CheckBackends, ChooseCanary, StartProbe,
                  FinishProbe, SkipChild, DeleteChildren, Advance, Working, TypeInv, TypeOK, JobInv
    <3>2. job'.key = job.key /\ job'.base = job.base
      <4>1. CASE CheckCertificate
        BY <3>1, <4>1 DEF CheckCertificate, Jobs
      <4>2. CASE CheckConflicts \/ CheckBackends \/ ChooseCanary \/ StartProbe
        BY <3>1, <4>2 DEF CheckConflicts, CheckBackends, ChooseCanary, StartProbe, Jobs
      <4>3. CASE \E bad \in BOOLEAN : FinishProbe(bad)
        BY <3>1, <4>3 DEF FinishProbe, Jobs
      <4>4. CASE SkipChild \/ \E n \in 0 .. 2, succeeded \in BOOLEAN : DeleteChildren(n, succeeded)
        BY <3>1, <4>4 DEF SkipChild, DeleteChildren, Advance, Jobs
      <4>5. QED
        BY <2>3, <4>1, <4>2, <4>3, <4>4
    <3>3. QED
      BY <3>1, <3>2
  <2>4. QED
    BY <2>1, <2>2, <2>3 DEF Minor
<1>5. QED
  BY <1>1, <1>2, <1>3, <1>4 DEF ChildrenGo

\* What others do to a Route that exists: they change its specification, ask it
\* to go or let it go, and touch neither its uid nor its finalizer nor its status.
LEMMA RewriteShape ==
    ASSUME TypeInv, NEW r \in Routes, Rewrites(r)
    PROVE  /\ routes[r] \in RouteObjects
           /\ UNCHANGED <<cache, children, childCache, job, pc, gauges>>
           /\ spent'["create"] = spent["create"]
           /\ \E new \in RouteObjects \cup {Nil} :
                /\ routes' = [routes EXCEPT ![r] = new]
                /\ new = Nil => ~routes[r].finalizer /\ (routes[r].hold \/ ~routes[r].deleting)
                /\ new # Nil =>
                     /\ new.uid = routes[r].uid
                     /\ new.finalizer = routes[r].finalizer
                     /\ new.status = routes[r].status
                     /\ new.gen >= routes[r].gen
                     /\ routes[r].deleting => new.deleting
                     /\ new.hold => new.deleting \/ routes[r].hold
<1>1. /\ routes[r] \in RouteObjects
      /\ UNCHANGED <<cache, children, childCache, job, pc, gauges>>
      /\ routes \in [Routes -> RouteObjects \cup {Nil}]
  BY DEF Rewrites, EditRoute, DeleteRoute, ReleaseHold, workerVars, TypeInv, TypeOK
<1>2. spent'["create"] = spent["create"]
  <2>1. Spend("edit") \/ Spend("delete") \/ UNCHANGED spent
    BY DEF Rewrites, EditRoute, DeleteRoute, ReleaseHold
  <2>2. QED
    BY <2>1, SpendOther DEF BudgetKinds, TypeInv
<1>3. routes[r].gen \in Nat /\ routes[r].gen + 1 \in Nat
  BY <1>1 DEF RouteObjects
<1> DEFINE Goal == \E new \in RouteObjects \cup {Nil} :
                /\ routes' = [routes EXCEPT ![r] = new]
                /\ new = Nil => ~routes[r].finalizer /\ (routes[r].hold \/ ~routes[r].deleting)
                /\ new # Nil =>
                     /\ new.uid = routes[r].uid
                     /\ new.finalizer = routes[r].finalizer
                     /\ new.status = routes[r].status
                     /\ new.gen >= routes[r].gen
                     /\ routes[r].deleting => new.deleting
                     /\ new.hold => new.deleting \/ routes[r].hold
<1>4. ASSUME NEW spec \in Specs, EditRoute(r, spec) PROVE Goal
  <2> DEFINE new == [routes[r] EXCEPT !.spec = Mutated(spec), !.gen = routes[r].gen + 1]
  <2>1. routes' = [routes EXCEPT ![r] = new]
    BY <1>4 DEF EditRoute
  <2>2. Mutated(spec) \in AllSpecs
    BY MutatedType DEF AllSpecs
  <2>3. /\ new \in RouteObjects /\ new.uid = routes[r].uid /\ new.finalizer = routes[r].finalizer
        /\ new.status = routes[r].status /\ new.gen = routes[r].gen + 1
        /\ new.deleting = routes[r].deleting /\ new.hold = routes[r].hold
    BY <1>1, <1>3, <2>2 DEF RouteObjects
  <2>4. new.gen >= routes[r].gen /\ new # Nil
    BY <1>3, <2>3, NilAssumption
  <2> HIDE DEF new
  <2>5. QED
    BY <2>1, <2>3, <2>4, Zenon
<1>5. ASSUME NEW foreground \in BOOLEAN, DeleteRoute(r, foreground) PROVE Goal
  <2> DEFINE new == [routes[r] EXCEPT !.deleting = TRUE, !.hold = foreground,
                                      !.gen = routes[r].gen + 1]
  <2>1. \/ routes' = [routes EXCEPT ![r] = new]
        \/ routes' = [routes EXCEPT ![r] = Nil] /\ ~routes[r].finalizer /\ ~routes[r].deleting
    BY <1>5 DEF DeleteRoute
  <2>2. /\ new \in RouteObjects /\ new.uid = routes[r].uid /\ new.finalizer = routes[r].finalizer
        /\ new.status = routes[r].status /\ new.gen = routes[r].gen + 1
        /\ new.deleting
    BY <1>1, <1>3 DEF RouteObjects
  <2> HIDE DEF new
  <2>3. QED
    BY <1>3, <2>1, <2>2, NilAssumption
<1>6. ASSUME ReleaseHold(r) PROVE Goal
  <2> DEFINE new == [routes[r] EXCEPT !.hold = FALSE]
  <2>1. \/ routes' = [routes EXCEPT ![r] = new]
        \/ routes' = [routes EXCEPT ![r] = Nil] /\ ~routes[r].finalizer /\ routes[r].hold
    BY <1>6 DEF ReleaseHold
  <2>2. /\ new \in RouteObjects /\ new.uid = routes[r].uid /\ new.finalizer = routes[r].finalizer
        /\ new.status = routes[r].status /\ new.gen = routes[r].gen
        /\ new.deleting = routes[r].deleting /\ new.hold = FALSE
    BY <1>1 DEF RouteObjects
  <2> HIDE DEF new
  <2>3. new.gen >= routes[r].gen /\ new # Nil /\ ~new.hold
    BY <1>3, <2>2, NilAssumption
  <2>4. CASE routes' = [routes EXCEPT ![r] = new]
    BY <2>2, <2>3, <2>4, Zenon
  <2>5. CASE routes' = [routes EXCEPT ![r] = Nil] /\ ~routes[r].finalizer /\ routes[r].hold
    BY <2>5
  <2>6. QED
    BY <2>1, <2>4, <2>5
<1>7. QED
  BY <1>1, <1>2, <1>4, <1>5, <1>6 DEF Rewrites

\* The status of a Route is written only when the Route is still the one that
\* was read, and nothing else of it changes.
LEMMA StatusShape ==
    ASSUME TypeInv, NEW out \in Outcomes, WriteStatus(out)
    PROVE  /\ job \in Jobs /\ job.key \in Routes /\ job.base \in RouteObjects
           /\ job' = Nil
           /\ UNCHANGED <<cache, children, childCache>>
           /\ spent'["create"] = spent["create"]
           /\ \/ routes' = routes
              \/ \E new \in RouteObjects :
                   /\ routes[job.key] = job.base
                   /\ routes' = [routes EXCEPT ![job.key] = new]
                   /\ new.status = NewStatus(job)
                   /\ new.uid = job.base.uid /\ new.gen = job.base.gen
                   /\ new.finalizer = job.base.finalizer
                   /\ new.deleting = job.base.deleting /\ new.hold = job.base.hold
                   /\ new.spec = job.base.spec
<1>1. job \in Jobs /\ job.key \in Routes /\ job.base \in RouteObjects
  BY DEF WriteStatus, TypeInv, TypeOK, JobInv, Jobs
<1>2. job' = Nil
  BY DEF WriteStatus, AfterStatus, Return, ReturnRequeue
<1>3. UNCHANGED <<cache, children, childCache>>
  BY DEF WriteStatus
<1>4. spent'["create"] = spent["create"]
  BY CallFaultOther DEF WriteStatus, TypeInv
<1> DEFINE new == [job.base EXCEPT !.status = NewStatus(job)]
<1>5. \/ routes' = routes
      \/ routes[job.key] = job.base /\ routes' = [routes EXCEPT ![job.key] = new]
  BY <1>1 DEF WriteStatus, NotModified, TypeInv, TypeOK
<1>6. NewStatus(job) \in Statuses
  BY <1>1, NewStatusType
<1>7. /\ new \in RouteObjects /\ new.status = NewStatus(job)
      /\ new.uid = job.base.uid /\ new.gen = job.base.gen /\ new.finalizer = job.base.finalizer
      /\ new.deleting = job.base.deleting /\ new.hold = job.base.hold /\ new.spec = job.base.spec
  BY <1>1, <1>6 DEF RouteObjects
<1> HIDE DEF new
<1>8. QED
  BY <1>1, <1>2, <1>3, <1>4, <1>5, <1>7

\* So is the finalizer, which goes with the Route unless something else holds it.
LEMMA RemoveShape ==
    ASSUME TypeInv, NEW out \in Outcomes, RemoveFinalizer(out)
    PROVE  /\ job \in Jobs /\ job.key \in Routes /\ job.base \in RouteObjects
           /\ pc = "unfinalize" /\ job' = Nil
           /\ UNCHANGED <<cache, children, childCache>>
           /\ spent'["create"] = spent["create"]
           /\ \/ routes' = routes
              \/ \E new \in RouteObjects \cup {Nil} :
                   /\ routes[job.key] = job.base
                   /\ routes' = [routes EXCEPT ![job.key] = new]
                   /\ new # Nil =>
                        /\ new.uid = job.base.uid /\ new.gen = job.base.gen
                        /\ new.finalizer = FALSE
                        /\ new.deleting = job.base.deleting /\ new.hold = job.base.hold
                        /\ new.status = job.base.status
<1>1. job \in Jobs /\ job.key \in Routes /\ job.base \in RouteObjects
  BY DEF RemoveFinalizer, TypeInv, TypeOK, JobInv, Jobs
<1>2. pc = "unfinalize" /\ job' = Nil
  BY DEF RemoveFinalizer, Return, ReturnRequeue
<1>3. UNCHANGED <<cache, children, childCache>>
  BY DEF RemoveFinalizer
<1>4. spent'["create"] = spent["create"]
  BY CallFaultOther DEF RemoveFinalizer, TypeInv
<1> DEFINE new == [job.base EXCEPT !.finalizer = FALSE]
<1>5. \/ routes' = routes
      \/ /\ routes[job.key] = job.base
         /\ routes' = [routes EXCEPT ![job.key] = new] \/ routes' = [routes EXCEPT ![job.key] = Nil]
  BY <1>1 DEF RemoveFinalizer, NotModified, TypeInv, TypeOK
<1>6. /\ new \in RouteObjects /\ new.uid = job.base.uid /\ new.gen = job.base.gen
      /\ new.finalizer = FALSE
      /\ new.deleting = job.base.deleting /\ new.hold = job.base.hold
      /\ new.status = job.base.status
  BY <1>1 DEF RouteObjects
<1> HIDE DEF new
<1>7. QED
  BY <1>1, <1>2, <1>3, <1>4, <1>5, <1>6

\* And so is the finalizer added; Reconcile goes on with what it got back.
LEMMA AddShape ==
    ASSUME TypeInv, NEW out \in Outcomes, AddFinalizer(out)
    PROVE  /\ job \in Jobs /\ job.key \in Routes /\ job.base \in RouteObjects
           /\ pc = "finalize"
           /\ UNCHANGED <<cache, children, childCache, gauges>>
           /\ spent'["create"] = spent["create"]
           /\ \/ routes' = routes /\ job' = Nil
              \/ \E new \in RouteObjects :
                   /\ routes[job.key] = job.base
                   /\ routes' = [routes EXCEPT ![job.key] = new]
                   /\ \/ job' = Nil
                      \/ job' = [job EXCEPT !.base = new] /\ pc' = "certificate"
                   /\ new.uid = job.base.uid /\ new.gen = job.base.gen
                   /\ new.finalizer = TRUE
                   /\ new.deleting = job.base.deleting /\ new.hold = job.base.hold
                   /\ new.status = job.base.status
<1>1. job \in Jobs /\ job.key \in Routes /\ job.base \in RouteObjects
  BY DEF AddFinalizer, TypeInv, TypeOK, JobInv, Jobs
<1>2. pc = "finalize" /\ UNCHANGED <<cache, children, childCache, gauges>>
  BY DEF AddFinalizer
<1>3. spent'["create"] = spent["create"]
  BY CallFaultOther DEF AddFinalizer, TypeInv
<1> DEFINE new == [job.base EXCEPT !.finalizer = TRUE, !.spec = Mutated(@)]
           accepted == NotModified(job.key) /\ Admitted(job.key, new.spec)
<1>4. \/ routes' = routes /\ job' = Nil
      \/ /\ routes[job.key] = job.base
         /\ routes' = [routes EXCEPT ![job.key] = new]
         /\ \/ job' = Nil
            \/ job' = [job EXCEPT !.base = new] /\ pc' = "certificate"
  <2>1. CASE accepted /\ out = "ok"
    BY <1>1, <2>1 DEF AddFinalizer, NotModified, Applied, TypeInv, TypeOK
  <2>2. CASE ~(accepted /\ out = "ok")
    <3>1. job' = Nil
      BY <2>2 DEF AddFinalizer, ReturnRequeue
    <3>2. routes' = routes \/ (routes[job.key] = job.base /\ routes' = [routes EXCEPT ![job.key] = new])
      BY <1>1 DEF AddFinalizer, NotModified, TypeInv, TypeOK
    <3>3. QED
      BY <3>1, <3>2
  <2>3. QED
    BY <2>1, <2>2
<1>5. Mutated(job.base.spec) \in AllSpecs
  BY <1>1, MutatedType DEF RouteObjects
<1>6. /\ new \in RouteObjects /\ new.uid = job.base.uid /\ new.gen = job.base.gen
      /\ new.finalizer = TRUE
      /\ new.deleting = job.base.deleting /\ new.hold = job.base.hold
      /\ new.status = job.base.status
  BY <1>1, <1>5 DEF RouteObjects
<1> HIDE DEF new, accepted
<1>7. QED
  BY <1>1, <1>2, <1>3, <1>4, <1>6

\* A new Route has a uid of its own, and nothing else yet.
LEMMA CreateShape ==
    ASSUME TypeInv, NEW r \in Routes, NEW spec \in Specs, CreateRoute(r, spec)
    PROVE  /\ routes[r] = Nil
           /\ UNCHANGED <<cache, children, childCache, job, pc, gauges>>
           /\ spent["create"] \in Nat /\ spent'["create"] = spent["create"] + 1
           /\ \E new \in RouteObjects :
                /\ routes' = [routes EXCEPT ![r] = new]
                /\ new.uid = spent["create"]
                /\ new.finalizer = FALSE /\ new.deleting = FALSE /\ new.hold = FALSE
                /\ new.status = NoStatus
<1> DEFINE new == [uid |-> spent["create"], created |-> now, gen |-> 1, spec |-> Mutated(spec),
                   status |-> NoStatus, finalizer |-> FALSE, deleting |-> FALSE, hold |-> FALSE]
<1>1. routes[r] = Nil /\ UNCHANGED <<cache, children, childCache, job, pc, gauges>>
  BY DEF CreateRoute, workerVars
<1>2. spent["create"] \in Nat /\ spent'["create"] = spent["create"] + 1
  BY DEF CreateRoute, Spend, TypeInv, TypeOK, BudgetKinds
<1>3. routes' = [routes EXCEPT ![r] = new]
  BY DEF CreateRoute
<1>4. new \in RouteObjects
  <2>1. Mutated(spec) \in AllSpecs
    BY MutatedType DEF AllSpecs
  <2>2. NoStatus \in Statuses
    BY DEF NoStatus, Statuses, Conditions, Phases
  <2>3. QED
    BY <1>2, <2>1, <2>2 DEF RouteObjects, TypeInv, TypeOK
<1>5. /\ new.uid = spent["create"]
      /\ new.finalizer = FALSE /\ new.deleting = FALSE /\ new.hold = FALSE
      /\ new.status = NoStatus
  OBVIOUS
<1> HIDE DEF new
<1>6. QED
  BY <1>1, <1>2, <1>3, <1>4, <1>5

\* A child is written for the Route that Reconcile works on.
LEMMA PutShape ==
    ASSUME TypeInv, TypeInv', NEW out \in Outcomes, PutChild(out)
    PROVE  /\ job \in Jobs /\ job # Nil /\ job.key \in Routes
           /\ pc = "children"
           /\ UNCHANGED <<routes, cache, gauges>>
           /\ spent'["create"] = spent["create"]
           /\ ChildCacheFollows
           /\ JobStays
           /\ \E id, new :
                /\ children' = children \/ children' = [children EXCEPT ![id] = new]
                /\ new.uid = job.base.uid /\ new.label = job.key.name
<1>1. job \in Jobs /\ job # Nil /\ job.key \in Routes /\ pc = "children"
  BY DEF PutChild, TypeInv, TypeOK, JobInv, Jobs
<1>2. UNCHANGED <<routes, cache, gauges>>
  BY DEF PutChild
<1>3. spent'["create"] = spent["create"]
  BY CallFaultOther DEF PutChild, TypeInv
<1>4. ChildCacheFollows
  BY DEF PutChild, ChildCacheFollows
<1>5. JobStays
  <2>1. pc' \in {"children", "status"} /\ job'.key = job.key /\ job'.base = job.base
    BY <1>1 DEF PutChild, Advance, Jobs
  <2>2. QED
    BY <1>1, <2>1 DEF JobStays, Working, TypeInv, JobInv
<1> DEFINE id == Operation.ids[1]
           new == [uid |-> job.base.uid, label |-> job.key.name, body |-> Operation.body]
<1>6. children' = children \/ children' = [children EXCEPT ![id] = new]
  BY DEF PutChild, SetChildren
<1>7. new.uid = job.base.uid /\ new.label = job.key.name
  OBVIOUS
<1> HIDE DEF id, new
<1>8. QED
  BY <1>1, <1>2, <1>3, <1>4, <1>5, <1>6, <1>7

-----------------------------------------------------------------------------
(* The guard of a Route that Reconcile works on.                           *)

\* The steps that leave the Routes and their cache alone.
LEMMA StayGuard ==
    ASSUME TypeInv, TypeInv', GuardInv, UNCHANGED <<routes, cache>>, JobStays
    PROVE  GuardInv'
<1>1. CASE job' = Nil
  BY <1>1 DEF GuardInv, WorkerInv, HoldDeletes, DeletingKept, WorkGuarded, Held
<1>2. CASE job' = job /\ pc' = pc
  BY <1>2 DEF GuardInv, WorkerInv, HoldDeletes, DeletingKept, WorkGuarded, Held
<1>3. CASE /\ job # Nil /\ job' # Nil
           /\ pc \in Working /\ pc' \in Working
           /\ job'.key = job.key /\ job'.base = job.base
  BY <1>3 DEF GuardInv, WorkerInv, HoldDeletes, DeletingKept, WorkGuarded, Held, Working, Deleting
<1>4. QED
  BY <1>1, <1>2, <1>3 DEF JobStays

\* Reconcile takes over what the cache has.
LEMMA BeginGuard ==
    ASSUME TypeInv, TypeInv', GuardInv, NEW r \in Routes, Begin(r)
    PROVE  GuardInv'
<1>1. /\ cache[r] # Nil
      /\ cache[r].deleting => cache[r].finalizer
      /\ job'.key = r /\ job'.base = cache[r] /\ job'.step = 1
      /\ pc' = FirstStep(cache[r])
      /\ UNCHANGED <<routes, cache>>
  BY DEF Begin, NewJob, apiVars
<1>2. cache[r] \in RouteObjects
  BY <1>1 DEF TypeInv, TypeOK
<1>3. WorkerInv'
  <2>1. pc' \in Deleting <=> cache[r].deleting
    BY <1>1 DEF FirstStep, Deleting
  <2>2. 1 \in 1 .. Len(CrossKinds)
    BY DEF CrossKinds
  <2>3. QED
    BY <1>1, <2>1, <2>2 DEF WorkerInv
<1>4. HoldDeletes' /\ DeletingKept'
  BY <1>1 DEF GuardInv, HoldDeletes, DeletingKept
<1>5. WorkGuarded'
  BY <1>1 DEF GuardInv, WorkGuarded, Held
<1>6. QED
  BY <1>3, <1>4, <1>5 DEF GuardInv

\* The cache catches up with the API server.
LEMMA SyncGuard ==
    ASSUME TypeInv, TypeInv', GuardInv, CacheSync \/ Crash
    PROVE  GuardInv'
<1>1. /\ cache' = routes /\ routes' = routes
      /\ job' = Nil \/ (job' = job /\ pc' = pc)
  BY DEF CacheSync, Crash, apiVars
<1>2. WorkerInv' /\ HoldDeletes'
  BY <1>1 DEF GuardInv, WorkerInv, HoldDeletes
<1>3. DeletingKept'
  BY <1>1 DEF GuardInv, DeletingKept
<1>4. WorkGuarded'
  BY <1>1 DEF GuardInv, WorkGuarded, Held
<1>5. QED
  BY <1>2, <1>3, <1>4 DEF GuardInv

\* One Route is written: its uid stays, its deletion goes on, and its finalizer
\* stays too unless Reconcile is removing it.
LEMMA WriteGuard ==
    ASSUME TypeInv, TypeInv', GuardInv, NEW r \in Routes, NEW new \in RouteObjects \cup {Nil},
           routes[r] # Nil,
           routes' = [routes EXCEPT ![r] = new], cache' = cache,
           job' = Nil \/ (job' = job /\ pc' = pc),
           new # Nil =>
               /\ new.uid = routes[r].uid
               /\ routes[r].deleting => new.deleting
               /\ new.hold => new.deleting,
           \/ routes[r].finalizer => new # Nil /\ new.finalizer
           \/ /\ job' = Nil
              /\ cache[r] # Nil /\ cache[r].uid = routes[r].uid => cache[r].deleting
    PROVE  GuardInv'
<1>1. /\ routes'[r] = new /\ \A q \in Routes : q # r => routes'[q] = routes[q]
      /\ job # Nil => job.key \in Routes
  BY DEF TypeInv, TypeOK, Jobs
<1>2. WorkerInv' /\ HoldDeletes'
  BY <1>1 DEF GuardInv, WorkerInv, HoldDeletes
<1>3. DeletingKept'
  BY <1>1 DEF GuardInv, DeletingKept
<1>4. WorkGuarded'
  <2>1. ASSUME NEW q \in Routes, cache[q] # Nil PROVE Held(cache[q], q)'
    <3>1. CASE q # r
      BY <1>1, <2>1, <3>1 DEF GuardInv, WorkGuarded, Held
    <3>2. CASE q = r
      BY <1>1, <2>1, <3>2 DEF GuardInv, WorkGuarded, Held
    <3>3. QED
      BY <3>1, <3>2
  <2>2. ASSUME job' # Nil PROVE Held(job.base, job.key)'
    <3>1. job' = job /\ job # Nil /\ (routes[r].finalizer => new # Nil /\ new.finalizer)
      BY <2>2
    <3>2. CASE job.key # r
      BY <1>1, <3>1, <3>2 DEF GuardInv, WorkGuarded, Held
    <3>3. CASE job.key = r
      BY <1>1, <3>1, <3>3 DEF GuardInv, WorkGuarded, Held
    <3>4. QED
      BY <3>2, <3>3
  <2>3. QED
    BY <2>1, <2>2 DEF WorkGuarded
<1>5. QED
  BY <1>2, <1>3, <1>4 DEF GuardInv

\* Every step keeps the guard.
LEMMA StepGuard ==
    ASSUME TypeInv, TypeInv', FinalizerInv, GuardInv, [Next]_vars
    PROVE  GuardInv'
<1>1. CASE Minor
  BY <1>1, MinorSteps, StayGuard DEF ChildrenGo
<1>2. ASSUME NEW r \in Routes, Begin(r) PROVE GuardInv'
  BY <1>2, BeginGuard
<1>3. CASE CleanupKind
  <2>1. /\ pc = "cleanup" /\ job \in Jobs /\ job # Nil /\ UNCHANGED <<routes, cache>>
        /\ \/ pc' = "unfinalize" /\ job' = job
           \/ job.step # Len(CrossKinds) /\ job' = [job EXCEPT !.step = @ + 1] /\ pc' = "cleanup"
    BY <1>3 DEF CleanupKind, TypeInv, TypeOK, JobInv
  <2>2. job'.key = job.key /\ job'.base = job.base
    BY <2>1 DEF Jobs
  <2>3. WorkerInv'
    <3>1. pc' = "cleanup" => job'.step \in 1 .. Len(CrossKinds)
      <4>1. job.step \in 1 .. Len(CrossKinds) /\ Len(CrossKinds) = 4
        BY <2>1 DEF GuardInv, WorkerInv, CrossKinds
      <4>2. pc' = "cleanup" => job'.step = job.step + 1 /\ job.step # 4
        BY <2>1, <4>1 DEF Jobs
      <4>3. QED
        BY <4>1, <4>2
    <3>2. QED
      BY <2>1, <2>2, <3>1 DEF GuardInv, WorkerInv, Deleting
  <2>4. HoldDeletes' /\ DeletingKept' /\ WorkGuarded'
    BY <2>1, <2>2 DEF GuardInv, HoldDeletes, DeletingKept, WorkGuarded, Held
  <2>5. QED
    BY <2>3, <2>4 DEF GuardInv
<1>4. ASSUME NEW out \in Outcomes, PutChild(out) PROVE GuardInv'
  BY <1>4, PutShape, StayGuard
<1>5. ASSUME NEW out \in Outcomes, WriteStatus(out) PROVE GuardInv'
  <2>1. CASE routes' = routes
    BY <1>5, <2>1, StatusShape, StayGuard DEF JobStays
  <2>2. CASE routes' # routes
    <3>1. PICK new \in RouteObjects :
            /\ routes[job.key] = job.base
            /\ routes' = [routes EXCEPT ![job.key] = new]
            /\ new.uid = job.base.uid
            /\ new.finalizer = job.base.finalizer
            /\ new.deleting = job.base.deleting /\ new.hold = job.base.hold
      BY <1>5, <2>2, StatusShape
    <3>2. job.key \in Routes /\ job.base # Nil /\ cache' = cache /\ job' = Nil
      BY <1>5, StatusShape, NilAssumption
    <3>3. job.base.hold => job.base.deleting
      BY <3>1, <3>2 DEF GuardInv, HoldDeletes
    <3>4. QED
      BY <3>1, <3>2, <3>3, NilAssumption, WriteGuard
  <2>3. QED
    BY <2>1, <2>2
<1>6. ASSUME NEW out \in Outcomes, RemoveFinalizer(out) PROVE GuardInv'
  <2>1. CASE routes' = routes
    BY <1>6, <2>1, RemoveShape, StayGuard DEF JobStays
  <2>2. CASE routes' # routes
    <3>1. PICK new \in RouteObjects \cup {Nil} :
            /\ routes[job.key] = job.base
            /\ routes' = [routes EXCEPT ![job.key] = new]
            /\ new # Nil =>
                 /\ new.uid = job.base.uid
                 /\ new.deleting = job.base.deleting /\ new.hold = job.base.hold
      BY <1>6, <2>2, RemoveShape
    <3>2. /\ job.key \in Routes /\ job # Nil /\ job.base # Nil /\ cache' = cache /\ job' = Nil
          /\ pc = "unfinalize"
      BY <1>6, RemoveShape, NilAssumption
    <3>3. job.base.deleting
      BY <3>2 DEF GuardInv, WorkerInv, Deleting
    <3>4. cache[job.key] # Nil /\ cache[job.key].uid = routes[job.key].uid => cache[job.key].deleting
      BY <3>1, <3>2, <3>3 DEF GuardInv, DeletingKept
    <3>5. QED
      BY <3>1, <3>2, <3>3, <3>4, WriteGuard
  <2>3. QED
    BY <2>1, <2>2
<1>7. ASSUME NEW out \in Outcomes, AddFinalizer(out) PROVE GuardInv'
  <2>1. CASE routes' = routes /\ job' = Nil
    BY <1>7, <2>1, AddShape, StayGuard DEF JobStays
  <2>2. CASE ~(routes' = routes /\ job' = Nil)
    <3>1. PICK new \in RouteObjects :
            /\ routes[job.key] = job.base
            /\ routes' = [routes EXCEPT ![job.key] = new]
            /\ \/ job' = Nil
               \/ job' = [job EXCEPT !.base = new] /\ pc' = "certificate"
            /\ new.uid = job.base.uid
            /\ new.finalizer = TRUE
            /\ new.deleting = job.base.deleting /\ new.hold = job.base.hold
      BY <1>7, <2>2, AddShape
    <3>2. /\ job.key \in Routes /\ job \in Jobs /\ job # Nil /\ job.base # Nil /\ cache' = cache
          /\ pc = "finalize"
      BY <1>7, AddShape, NilAssumption
    <3>3. ~job.base.deleting /\ ~job.base.hold
      BY <3>1, <3>2 DEF GuardInv, WorkerInv, Deleting, HoldDeletes
    <3>4. CASE job' = Nil
      <4>1. /\ routes[job.key] # Nil
            /\ new.uid = routes[job.key].uid
            /\ ~routes[job.key].deleting /\ ~new.hold
        BY <3>1, <3>2, <3>3
      <4>2. new # Nil /\ new.finalizer
        BY <3>1, NilAssumption
      <4>3. QED
        BY <3>1, <3>2, <3>4, <4>1, <4>2, WriteGuard
    <3>5. CASE job' = [job EXCEPT !.base = new] /\ pc' = "certificate"
      <4>1. job'.key = job.key /\ job'.base = new /\ job' # Nil
        BY <3>2, <3>5, NilAssumption DEF Jobs, TypeInv, TypeOK, JobInv
      <4>2. routes'[job.key] = new /\ \A q \in Routes : q # job.key => routes'[q] = routes[q]
        BY <3>1 DEF TypeInv, TypeOK
      <4>3. new # Nil
        BY NilAssumption
      <4>4. WorkerInv' /\ HoldDeletes'
        BY <3>1, <3>2, <3>3, <3>5, <4>1, <4>2 DEF GuardInv, WorkerInv, HoldDeletes, Deleting
      <4>5. DeletingKept'
        BY <3>1, <3>2, <3>3, <4>1, <4>2 DEF GuardInv, DeletingKept
      <4>6. WorkGuarded'
        <5>1. ASSUME NEW q \in Routes, cache[q] # Nil PROVE Held(cache[q], q)'
          <6>1. CASE q # job.key
            BY <3>2, <4>2, <5>1, <6>1 DEF GuardInv, WorkGuarded, Held
          <6>2. CASE q = job.key
            BY <3>1, <3>2, <4>2, <4>3, <5>1, <6>2 DEF GuardInv, WorkGuarded, Held
          <6>3. QED
            BY <6>1, <6>2
        <5>2. Held(job.base, job.key)'
          BY <3>1, <4>1, <4>2, <4>3 DEF Held
        <5>3. QED
          BY <3>2, <5>1, <5>2 DEF WorkGuarded
      <4>7. QED
        BY <4>4, <4>5, <4>6 DEF GuardInv
    <3>6. QED
      BY <3>1, <3>4, <3>5
  <2>3. QED
    BY <2>1, <2>2
<1>8. CASE CacheSync \/ Crash
  BY <1>8, SyncGuard
<1>9. ASSUME NEW r \in Routes, NEW spec \in Specs, CreateRoute(r, spec) PROVE GuardInv'
  <2>1. PICK new \in RouteObjects :
          /\ routes' = [routes EXCEPT ![r] = new]
          /\ new.uid = spent["create"] /\ new.deleting = FALSE /\ new.hold = FALSE
    BY <1>9, CreateShape
  <2>2. routes[r] = Nil /\ UNCHANGED <<cache, job, pc>>
    BY <1>9, CreateShape
  <2>3. routes'[r] = new /\ \A q \in Routes : q # r => routes'[q] = routes[q]
    BY <2>1 DEF TypeInv, TypeOK
  <2>4. WorkerInv' /\ HoldDeletes'
    BY <2>1, <2>2, <2>3 DEF GuardInv, WorkerInv, HoldDeletes
  <2>5. /\ \A q \in Routes : cache[q] # Nil => cache[q].uid # new.uid
        /\ job # Nil => job.base.uid # new.uid /\ job.key \in Routes
    BY <2>1 DEF FinalizerInv, UidsKnown, TypeInv, TypeOK, RouteObjects, Jobs, BudgetKinds
  <2>6. DeletingKept'
    BY <2>1, <2>2, <2>3, <2>5 DEF GuardInv, DeletingKept
  <2>7. WorkGuarded'
    BY <2>2, <2>3, <2>5 DEF GuardInv, WorkGuarded, Held
  <2>8. QED
    BY <2>4, <2>6, <2>7 DEF GuardInv
<1>10. ASSUME NEW r \in Routes, Rewrites(r) PROVE GuardInv'
  <2>1. PICK new \in RouteObjects \cup {Nil} :
          /\ routes' = [routes EXCEPT ![r] = new]
          /\ new = Nil => ~routes[r].finalizer
          /\ new # Nil =>
               /\ new.uid = routes[r].uid
               /\ new.finalizer = routes[r].finalizer
               /\ routes[r].deleting => new.deleting
               /\ new.hold => new.deleting \/ routes[r].hold
    BY <1>10, RewriteShape
  <2>2. routes[r] # Nil /\ UNCHANGED <<cache, job, pc>>
    BY <1>10, RewriteShape, NilAssumption
  <2>3. routes[r].hold => routes[r].deleting
    BY <2>2 DEF GuardInv, HoldDeletes
  <2>4. QED
    BY <2>1, <2>2, <2>3, WriteGuard
<1>11. QED
  BY <1>1, <1>2, <1>3, <1>4, <1>5, <1>6, <1>7, <1>8, <1>9, <1>10, StepCases DEF Major

-----------------------------------------------------------------------------
(* What the cleanup finds and leaves.                                      *)

\* What every step does: a uid is new or stays where it is, children go or come
\* from the Route that Reconcile works on, and Reconcile gets to its cleanup
\* only with a Route that it reads.
LEMMA StepShape ==
    ASSUME TypeInv, TypeInv', [Next]_vars
    PROVE  /\ \A r \in Routes : routes'[r] # Nil =>
                \/ routes[r] # Nil /\ routes'[r].uid = routes[r].uid
                \/ routes'[r].uid = spent["create"]
           /\ \A id \in ChildIds : children'[id] # Nil =>
                \/ children'[id] = children[id]
                \/ /\ job # Nil /\ pc = "children"
                   /\ children'[id].uid = job.base.uid /\ children'[id].label = job.key.name
           /\ ChildCacheFollows
           /\ \/ JobStays \/ pc' \in Working
              \/ CleanupKind \/ (\E r \in Routes : Begin(r))
<1> DEFINE Uids1 == \A r \in Routes : routes'[r] # Nil =>
                \/ routes[r] # Nil /\ routes'[r].uid = routes[r].uid
                \/ routes'[r].uid = spent["create"]
           Kids == \A id \in ChildIds : children'[id] # Nil =>
                \/ children'[id] = children[id]
                \/ /\ job # Nil /\ pc = "children"
                   /\ children'[id].uid = job.base.uid /\ children'[id].label = job.key.name
           Moves == \/ JobStays \/ pc' \in Working
                    \/ CleanupKind \/ (\E r \in Routes : Begin(r))
           Goal == Uids1 /\ Kids /\ ChildCacheFollows /\ Moves
<1>0. routes \in [Routes -> RouteObjects \cup {Nil}] /\ children \in [ChildIds -> Objects \cup {Nil}]
  BY DEF TypeInv, TypeOK
<1>1. CASE Minor
  BY <1>1, MinorSteps DEF ChildrenGo
<1>2. ASSUME NEW r \in Routes, Begin(r) PROVE Goal
  BY <1>2 DEF Begin, apiVars, ChildCacheFollows
<1>3. CASE CleanupKind
  BY <1>3 DEF CleanupKind, SetChildren, ChildCacheFollows
<1>4. ASSUME NEW out \in Outcomes, PutChild(out) PROVE Goal
  <2>1. /\ job # Nil /\ pc = "children" /\ routes' = routes
        /\ ChildCacheFollows /\ JobStays
    BY <1>4, PutShape
  <2>2. PICK x, new : /\ children' = children \/ children' = [children EXCEPT ![x] = new]
                      /\ new.uid = job.base.uid /\ new.label = job.key.name
    BY <1>4, PutShape
  <2>3. Kids
    BY <1>0, <2>1, <2>2
  <2>4. QED
    BY <2>1, <2>3
<1>5. ASSUME NEW out \in Outcomes, WriteStatus(out) PROVE Goal
  <2>1. job' = Nil /\ UNCHANGED <<children, childCache>> /\ job.key \in Routes /\ job.base # Nil
    BY <1>5, StatusShape, NilAssumption
  <2>2. Uids1
    BY <1>0, <1>5, <2>1, StatusShape
  <2>3. QED
    BY <2>1, <2>2 DEF JobStays, ChildCacheFollows
<1>6. ASSUME NEW out \in Outcomes, RemoveFinalizer(out) PROVE Goal
  <2>1. job' = Nil /\ UNCHANGED <<children, childCache>> /\ job.key \in Routes /\ job.base # Nil
    BY <1>6, RemoveShape, NilAssumption
  <2>2. Uids1
    BY <1>0, <1>6, <2>1, RemoveShape
  <2>3. QED
    BY <2>1, <2>2 DEF JobStays, ChildCacheFollows
<1>7. ASSUME NEW out \in Outcomes, AddFinalizer(out) PROVE Goal
  <2>1. UNCHANGED <<children, childCache>> /\ job.key \in Routes /\ job.base # Nil
    BY <1>7, AddShape, NilAssumption
  <2>2. Uids1
    BY <1>0, <1>7, <2>1, AddShape
  <2>3. job' = Nil \/ pc' = "certificate"
    BY <1>7, AddShape
  <2>4. QED
    BY <2>1, <2>2, <2>3 DEF JobStays, ChildCacheFollows, Working
<1>8. CASE CacheSync \/ Crash
  BY <1>8 DEF CacheSync, Crash, apiVars, JobStays, ChildCacheFollows
<1>9. ASSUME NEW r \in Routes, NEW spec \in Specs, CreateRoute(r, spec) PROVE Goal
  <2>1. UNCHANGED <<children, childCache, job, pc>>
    BY <1>9, CreateShape
  <2>2. Uids1
    BY <1>0, <1>9, CreateShape
  <2>3. QED
    BY <2>1, <2>2 DEF JobStays, ChildCacheFollows
<1>10. ASSUME NEW r \in Routes, Rewrites(r) PROVE Goal
  <2>1. UNCHANGED <<children, childCache, job, pc>> /\ routes[r] # Nil
    BY <1>10, RewriteShape, NilAssumption
  <2>2. Uids1
    BY <1>0, <1>10, <2>1, RewriteShape
  <2>3. QED
    BY <2>1, <2>2 DEF JobStays, ChildCacheFollows
<1>11. QED
  BY <1>1, <1>2, <1>3, <1>4, <1>5, <1>6, <1>7, <1>8, <1>9, <1>10, StepCases DEF Major

\* A block of the cleanup that sees everything takes every child of its kind.
LEMMA BlockCleans ==
    ASSUME TypeInv, TypeInv', WorkerInv, CleanupInv, CleanupKind
    PROVE  Cleaned'
<1> SUFFICES ASSUME ~CleanupMayMiss, NEW id \in ChildIds,
                    ~Owned(id), children'[id] # Nil, children'[id].uid = job'.base.uid,
                    routes'[job'.key] # Nil, routes'[job'.key].uid = job'.base.uid
             PROVE  pc' = "cleanup" /\ \E k \in job'.step .. Len(CrossKinds) : id.kind = CrossKinds[k]
  BY DEF Cleaned, CleanupMayMiss
<1>1. /\ job \in Jobs /\ job # Nil /\ job.key \in Routes /\ job.base.spec \in AllSpecs
      /\ job.step \in 1 .. 4 /\ Len(CrossKinds) = 4 /\ pc = "cleanup"
  BY DEF CleanupKind, TypeInv, TypeOK, JobInv, WorkerInv, Jobs, RouteObjects, CrossKinds
<1>2. /\ routes' = routes
      /\ \/ job.step = 4 /\ job' = job /\ pc' = "unfinalize"
         \/ job.step # 4 /\ job' = [job EXCEPT !.step = @ + 1] /\ pc' = "cleanup"
  BY <1>1 DEF CleanupKind
<1>3. job'.key = job.key /\ job'.base = job.base /\ (job.step # 4 => job'.step = job.step + 1)
  BY <1>1, <1>2 DEF Jobs
<1>4. ~Spend("fault")
  <2>1. Budget["fault"] = 0 /\ spent["fault"] \in Nat
    BY BudgetAssumption DEF CleanupMayMiss, TypeInv, TypeOK, BudgetKinds
  <2>2. QED
    BY <2>1 DEF Spend
<1>5. children'[id] = children[id] /\ id \notin Listed(CrossKinds[job.step])
  BY <1>4 DEF CleanupKind, SetChildren
<1>6. PICK k \in job.step .. 4 : id.kind = CrossKinds[k]
  BY <1>1, <1>2, <1>3, <1>5 DEF CleanupInv, Cleaned, Deleting
<1>7. k # job.step
  <2>1. PICK s \in AllSpecs : id.ns = gatewayRef(s).ns
    BY CrossPlaces
  <2>2. gatewayRef(s) \in GatewayRefs /\ gatewayRef(job.base.spec) \in GatewayRefs
    BY <1>1, MutatedType
  <2>3. id.ns = gatewayRef(job.base.spec).ns
    BY <2>1, <2>2 DEF CleanupMayMiss
  <2>4. childCache[id] # Nil /\ childCache[id].label = job.key.name
    BY <1>1, <1>2, <1>3, <1>5 DEF CleanupInv, CacheExact, LabelsRight, CleanupMayMiss
  <2>5. QED
    BY <1>5, <1>6, <2>3, <2>4 DEF Listed
<1>8. job.step # 4 /\ k \in job.step + 1 .. 4
  BY <1>1, <1>6, <1>7
<1>9. QED
  BY <1>1, <1>2, <1>3, <1>6, <1>8

\* Every step keeps what the cleanup relies on and what it has done.
LEMMA StepCleanup ==
    ASSUME TypeInv, TypeInv', FinalizerInv, GuardInv, CleanupInv, [Next]_vars
    PROVE  CleanupInv'
<1>1. /\ \A r \in Routes : routes'[r] # Nil =>
           \/ routes[r] # Nil /\ routes'[r].uid = routes[r].uid
           \/ routes'[r].uid = spent["create"]
      /\ \A id \in ChildIds : children'[id] # Nil =>
           \/ children'[id] = children[id]
           \/ /\ job # Nil /\ pc = "children"
              /\ children'[id].uid = job.base.uid /\ children'[id].label = job.key.name
  BY StepShape
<1>2. /\ \A id \in ChildIds : children[id] # Nil => children[id].uid # spent["create"]
      /\ job # Nil => job.base.uid # spent["create"] /\ job.key \in Routes
  BY DEF FinalizerInv, UidsKnown, TypeInv, TypeOK, Objects, Jobs, RouteObjects, BudgetKinds
<1>3. LabelsRight'
  <2> SUFFICES ASSUME NEW id \in ChildIds, NEW r \in Routes,
                      children'[id] # Nil, routes'[r] # Nil, routes'[r].uid = children'[id].uid
               PROVE  children'[id].label = r.name
    BY DEF LabelsRight
  <2>1. routes[r] # Nil /\ routes[r].uid = children'[id].uid
    BY <1>1, <1>2
  <2>2. CASE children'[id] = children[id]
    BY <2>1, <2>2 DEF CleanupInv, LabelsRight
  <2>3. CASE job # Nil /\ children'[id].uid = job.base.uid /\ children'[id].label = job.key.name
    BY <2>1, <2>3 DEF FinalizerInv, UidsUnique
  <2>4. QED
    BY <1>1, <2>2, <2>3
<1>4. CacheExact'
  <2>1. ChildCacheFollows
    BY StepShape
  <2>2. QED
    BY <2>1 DEF CleanupInv, CacheExact, ChildCacheFollows, SetChildren
<1>5. Cleaned'
  <2>1. CASE CleanupKind
    BY <2>1, BlockCleans DEF GuardInv
  <2>2. ASSUME NEW r \in Routes, Begin(r) PROVE Cleaned'
    <3>1. job'.step = 1 /\ pc' = FirstStep(cache[r]) /\ pc' # "unfinalize" /\ Len(CrossKinds) = 4
      BY <2>2 DEF Begin, NewJob, FirstStep, CrossKinds
    <3>2. \A id \in ChildIds : ~Owned(id) => \E k \in 1 .. 4 : id.kind = CrossKinds[k]
      BY DEF Owned, CrossKinds, ToSet
    <3>3. QED
      BY <3>1, <3>2 DEF Cleaned, Deleting
  <2>3. CASE job' = Nil
    BY <2>3 DEF Cleaned, Deleting, TypeInv, JobInv
  <2>4. CASE pc' \in Working
    BY <2>4 DEF Cleaned, Deleting, Working
  <2>5. CASE job' = job /\ pc' = pc
    <3> SUFFICES ASSUME ~CleanupMayMiss, pc \in Deleting, NEW id \in ChildIds,
                        ~Owned(id), children'[id] # Nil, children'[id].uid = job.base.uid,
                        routes'[job.key] # Nil, routes'[job.key].uid = job.base.uid
                 PROVE  pc = "cleanup" /\ \E k \in job.step .. Len(CrossKinds) : id.kind = CrossKinds[k]
      BY <2>5 DEF Cleaned, CleanupMayMiss
    <3>1. job # Nil /\ pc # "children"
      BY DEF TypeInv, JobInv, Deleting
    <3>2. children'[id] = children[id] /\ routes[job.key] # Nil /\ routes[job.key].uid = job.base.uid
      BY <1>1, <1>2, <3>1
    <3>3. QED
      BY <3>2 DEF CleanupInv, Cleaned
  <2>6. QED
    BY <2>1, <2>2, <2>3, <2>4, <2>5, StepShape DEF JobStays
<1>6. QED
  BY <1>3, <1>4, <1>5 DEF CleanupInv

-----------------------------------------------------------------------------
(* The steps of the controller are steps of RouteLifecycle.                *)

AllInv == TypeInv /\ FinalizerInv /\ GuardInv /\ CleanupInv

\* The life of a Route.
LEMMA LifeFields ==
    ASSUME NEW o \in RouteObjects
    PROVE  /\ o # Nil /\ Life(o) # Nil
           /\ Life(o).uid = o.uid /\ Life(o).guarded = o.finalizer /\ Life(o).leaving = o.deleting
           /\ Life(o) = [uid |-> o.uid, guarded |-> o.finalizer, leaving |-> o.deleting]
<1>1. o # Nil
  BY NilAssumption
<1>2. Life(o) = [uid |-> o.uid, guarded |-> o.finalizer, leaving |-> o.deleting]
  BY <1>1 DEF Life
<1>3. Life(o) \in Lives
  BY <1>2 DEF Lives, RouteObjects
<1>4. QED
  BY <1>1, <1>2, <1>3, NilIsNoLife

LEMMA LifeUpdates ==
    ASSUME NEW o \in RouteObjects, NEW x
    PROVE  /\ [Life(o) EXCEPT !.guarded = x] = [uid |-> o.uid, guarded |-> x, leaving |-> o.deleting]
           /\ [Life(o) EXCEPT !.leaving = x] = [uid |-> o.uid, guarded |-> o.finalizer, leaving |-> x]
<1>1. PICK u, g, l : u = o.uid /\ g = o.finalizer /\ l = o.deleting
  OBVIOUS
<1>2. Life(o) = [uid |-> u, guarded |-> g, leaving |-> l]
  BY <1>1, LifeFields, Zenon
<1>3. /\ [Life(o) EXCEPT !.guarded = x] = [uid |-> u, guarded |-> x, leaving |-> l]
      /\ [Life(o) EXCEPT !.leaving = x] = [uid |-> u, guarded |-> g, leaving |-> x]
  BY <1>2
<1>4. QED
  BY <1>1, <1>3, Zenon

\* A step that leaves the Routes alone attaches resources, or takes them away.
LEMMA AttachStep ==
    ASSUME TypeInv, TypeInv', GuardInv, [Next]_vars, UNCHANGED routes,
           spent'["create"] = spent["create"]
    PROVE  Lifecycle!Attach
<1>1. \A id \in ChildIds : children'[id] # Nil =>
        \/ children[id] # Nil /\ children'[id].uid = children[id].uid
        \/ job # Nil /\ pc = "children" /\ children'[id].uid = job.base.uid
  BY StepShape
<1>2. job # Nil /\ pc = "children" => job.base.uid \in Lifecycle!Guarded
  <2> SUFFICES ASSUME job # Nil, pc = "children" PROVE job.base.uid \in Lifecycle!Guarded
    OBVIOUS
  <2>1. job.key \in Routes /\ job.base.finalizer /\ ~job.base.deleting
    BY DEF TypeInv, TypeOK, JobInv, Jobs, Working, GuardInv, WorkerInv, Deleting
  <2>2. routes[job.key] # Nil /\ routes[job.key].uid = job.base.uid /\ routes[job.key].finalizer
    BY <2>1 DEF GuardInv, WorkGuarded, Held
  <2>3. routes[job.key] \in RouteObjects
    BY <2>1, <2>2 DEF TypeInv, TypeOK
  <2>4. QED
    BY <2>1, <2>2, <2>3, LifeFields DEF Lifecycle!Guarded, Lifecycle!Present
<1>3. ASSUME NEW ids \in SUBSET ChildIds
      PROVE  Uids(ids)' \subseteq Uids(ids) \cup Lifecycle!Guarded
  BY <1>1, <1>2 DEF Uids
<1>4. QED
  BY <1>3 DEF Lifecycle!Attach

\* A step that writes a Route and no child changes one life and nothing else.
LEMMA LifeWrite ==
    ASSUME TypeInv, NEW r \in Routes, NEW new \in RouteObjects \cup {Nil},
           routes' = [routes EXCEPT ![r] = new], UNCHANGED children
    PROVE  /\ [q \in Routes |-> Life(routes[q])]' = [[q \in Routes |-> Life(routes[q])] EXCEPT ![r] = Life(new)]
           /\ \A ids : Uids(ids)' = Uids(ids)
           /\ [q \in Routes |-> Life(routes[q])][r] = Life(routes[r])
<1>1. \A q \in Routes : routes'[q] = IF q = r THEN new ELSE routes[q]
  BY DEF TypeInv, TypeOK
<1> DEFINE lives == [q \in Routes |-> Life(routes[q])]
           later == [q \in Routes |-> Life(routes'[q])]
<1>2. later = [lives EXCEPT ![r] = Life(new)]
  <2>1. \A q \in Routes : later[q] = IF q = r THEN Life(new) ELSE lives[q]
    BY <1>1
  <2> HIDE DEF later, lives
  <2>2. lives = [q \in Routes |-> lives[q]]
    BY DEF lives
  <2>3. later = [q \in Routes |-> later[q]]
    BY DEF later
  <2>4. QED
    BY <2>1, <2>2, <2>3
<1>3. lives' = later
  OBVIOUS
<1>4. \A ids : Uids(ids)' = Uids(ids)
  BY DEF Uids
<1>5. lives[r] = Life(routes[r])
  OBVIOUS
<1>6. QED
  BY <1>2, <1>3, <1>4, <1>5

\* The specification, the status and whatever else is not part of the life.
LEMMA SameLife ==
    ASSUME TypeInv, NEW r \in Routes, NEW new \in RouteObjects,
           routes' = [routes EXCEPT ![r] = new], UNCHANGED children,
           spent'["create"] = spent["create"],
           routes[r] # Nil, new.uid = routes[r].uid, new.finalizer = routes[r].finalizer,
           new.deleting = routes[r].deleting
    PROVE  UNCHANGED Lifecycle!abstractVars
<1>1. routes[r] \in RouteObjects
  BY DEF TypeInv, TypeOK
<1>2. Life(new) = Life(routes[r])
  BY <1>1, LifeFields
<1>3. [q \in Routes |-> Life(routes[q])]' = [q \in Routes |-> Life(routes[q])]
  BY <1>2, LifeWrite
<1>4. QED
  BY <1>3, LifeWrite DEF Lifecycle!abstractVars

LEMMA CreateLife ==
    ASSUME TypeInv, NEW r \in Routes, NEW spec \in Specs, CreateRoute(r, spec)
    PROVE  Lifecycle!Admit(r)
<1>1. PICK new \in RouteObjects :
        /\ routes' = [routes EXCEPT ![r] = new]
        /\ new.uid = spent["create"] /\ new.finalizer = FALSE /\ new.deleting = FALSE
  BY CreateShape
<1>2. /\ routes[r] = Nil /\ UNCHANGED children
      /\ spent'["create"] = spent["create"] + 1
  BY CreateShape
<1>3. Life(new) = [uid |-> spent["create"], guarded |-> FALSE, leaving |-> FALSE]
  BY <1>1, LifeFields
<1>4. Life(routes[r]) = Nil
  BY <1>2 DEF Life
<1>5. QED
  BY <1>1, <1>2, <1>3, <1>4, LifeWrite DEF Lifecycle!Admit, Lifecycle!Become

LEMMA AddLife ==
    ASSUME TypeInv, GuardInv, NEW out \in Outcomes, AddFinalizer(out), routes' # routes
    PROVE  Lifecycle!Guard(job.key)
<1> DEFINE r == job.key
<1>1. /\ job # Nil /\ r \in Routes /\ pc = "finalize" /\ job.base \in RouteObjects
      /\ UNCHANGED children /\ spent'["create"] = spent["create"]
  BY AddShape, NilAssumption
<1>2. PICK new \in RouteObjects :
        /\ routes[r] = job.base
        /\ routes' = [routes EXCEPT ![r] = new]
        /\ new.uid = job.base.uid
        /\ new.finalizer = TRUE
        /\ new.deleting = job.base.deleting
  BY AddShape
<1>3. ~job.base.deleting
  BY <1>1 DEF GuardInv, WorkerInv, Deleting
<1>4. Life(new) = [Life(job.base) EXCEPT !.guarded = TRUE]
  <2>1. Life(new) = [uid |-> job.base.uid, guarded |-> TRUE, leaving |-> job.base.deleting]
    BY <1>2, LifeFields
  <2>2. [Life(job.base) EXCEPT !.guarded = TRUE]
          = [uid |-> job.base.uid, guarded |-> TRUE, leaving |-> job.base.deleting]
    BY <1>1, LifeUpdates
  <2>3. QED
    BY <2>1, <2>2, Zenon
<1>5. Life(job.base) # Nil /\ ~Life(job.base).leaving
  BY <1>1, <1>3, LifeFields
<1> DEFINE lives == [q \in Routes |-> Life(routes[q])]
<1>6. lives[r] = Life(job.base)
  BY <1>1, <1>2
<1>7. lives' = [lives EXCEPT ![r] = [lives[r] EXCEPT !.guarded = TRUE]]
  <2>1. lives' = [lives EXCEPT ![r] = Life(new)]
    BY <1>1, <1>2, LifeWrite
  <2> HIDE DEF lives
  <2>2. QED
    BY <1>4, <1>6, <2>1, Zenon
<1>8. QED
  BY <1>1, <1>2, <1>5, <1>6, <1>7, LifeWrite DEF Lifecycle!Guard, Lifecycle!Become

\* The finalizer goes when the cleanup is complete.
LEMMA RemoveLife ==
    ASSUME TypeInv, GuardInv, CleanupInv, NEW out \in Outcomes, RemoveFinalizer(out), routes' # routes
    PROVE  Lifecycle!Release(job.key)
<1> DEFINE r == job.key
<1>1. /\ job # Nil /\ r \in Routes /\ pc = "unfinalize" /\ job.base \in RouteObjects
      /\ UNCHANGED children /\ spent'["create"] = spent["create"]
  BY RemoveShape, NilAssumption
<1>2. PICK new \in RouteObjects \cup {Nil} :
        /\ routes[r] = job.base
        /\ routes' = [routes EXCEPT ![r] = new]
        /\ new # Nil =>
             /\ new.uid = job.base.uid
             /\ new.finalizer = FALSE
             /\ new.deleting = job.base.deleting
  BY RemoveShape
<1>3. job.base.deleting /\ job.base.finalizer
  BY <1>1 DEF GuardInv, WorkerInv, Deleting
<1>4. new = Nil \/ Life(new) = [Life(job.base) EXCEPT !.guarded = FALSE]
  <2> SUFFICES ASSUME new \in RouteObjects, new # Nil
               PROVE  Life(new) = [Life(job.base) EXCEPT !.guarded = FALSE]
    OBVIOUS
  <2>1. Life(new) = [uid |-> job.base.uid, guarded |-> FALSE, leaving |-> job.base.deleting]
    BY <1>2, LifeFields
  <2>2. [Life(job.base) EXCEPT !.guarded = FALSE]
          = [uid |-> job.base.uid, guarded |-> FALSE, leaving |-> job.base.deleting]
    BY <1>1, LifeUpdates
  <2>3. QED
    BY <2>1, <2>2, Zenon
<1>5. Life(job.base) # Nil /\ Life(job.base).leaving /\ Life(job.base).guarded
      /\ Life(job.base).uid = job.base.uid
  BY <1>1, <1>3, LifeFields
<1> DEFINE lives == [q \in Routes |-> Life(routes[q])]
<1>6. lives[r] = Life(job.base)
  BY <1>1, <1>2
<1>7. CleanupMayMiss \/ job.base.uid \notin Uids({id \in ChildIds : ~Owned(id)})
  BY <1>1, <1>2, NilAssumption DEF CleanupInv, Cleaned, Deleting, Uids
<1>8. Life(Nil) = Nil
  BY DEF Life
<1>9. \/ lives' = [lives EXCEPT ![r] = [lives[r] EXCEPT !.guarded = FALSE]]
      \/ lives' = [lives EXCEPT ![r] = Nil]
  <2>1. lives' = [lives EXCEPT ![r] = Life(new)]
    BY <1>1, <1>2, LifeWrite
  <2> HIDE DEF lives
  <2>2. QED
    BY <1>4, <1>6, <1>8, <2>1, Zenon
<1>10. QED
  BY <1>1, <1>2, <1>5, <1>6, <1>7, <1>9, LifeWrite DEF Lifecycle!Release, Lifecycle!Become

\* What others do to a Route.
LEMMA RewriteLife ==
    ASSUME TypeInv, GuardInv, NEW r \in Routes, Rewrites(r)
    PROVE  Lifecycle!Leave(r) \/ Lifecycle!Vanish(r) \/ UNCHANGED Lifecycle!abstractVars
<1>1. /\ routes[r] \in RouteObjects /\ UNCHANGED children
      /\ spent'["create"] = spent["create"]
  BY RewriteShape
<1>2. PICK new \in RouteObjects \cup {Nil} :
        /\ routes' = [routes EXCEPT ![r] = new]
        /\ new = Nil => ~routes[r].finalizer /\ (routes[r].hold \/ ~routes[r].deleting)
        /\ new # Nil =>
             /\ new.uid = routes[r].uid
             /\ new.finalizer = routes[r].finalizer
             /\ routes[r].deleting => new.deleting
  BY RewriteShape
<1> DEFINE lives == [q \in Routes |-> Life(routes[q])]
<1>3. /\ lives[r] = Life(routes[r])
      /\ Life(routes[r]) # Nil
      /\ Life(routes[r]).guarded = routes[r].finalizer
      /\ Life(routes[r]).leaving = routes[r].deleting
  BY <1>1, LifeFields
<1>4. routes[r] # Nil /\ (routes[r].hold => routes[r].deleting)
  BY <1>1, NilAssumption DEF GuardInv, HoldDeletes
<1>5. CASE new = Nil
  <2>1. Life(new) = Nil
    BY <1>5 DEF Life
  <2>2. CASE routes[r].deleting
    BY <1>1, <1>2, <1>3, <1>5, <2>1, <2>2, LifeWrite DEF Lifecycle!Vanish, Lifecycle!Become
  <2>3. CASE ~routes[r].deleting
    BY <1>1, <1>2, <1>3, <1>5, <2>1, <2>3, LifeWrite DEF Lifecycle!Leave, Lifecycle!Become
  <2>4. QED
    BY <2>2, <2>3
<1>6. CASE new # Nil /\ new.deleting = routes[r].deleting
  BY <1>1, <1>2, <1>4, <1>6, SameLife
<1>7. CASE new # Nil /\ new.deleting # routes[r].deleting
  <2>1. ~routes[r].deleting /\ new.deleting = TRUE /\ new \in RouteObjects
    BY <1>1, <1>2, <1>7 DEF RouteObjects
  <2>2. Life(new) = [Life(routes[r]) EXCEPT !.leaving = TRUE]
    <3>1. Life(new) = [uid |-> routes[r].uid, guarded |-> routes[r].finalizer, leaving |-> TRUE]
      BY <1>2, <1>7, <2>1, LifeFields
    <3>2. [Life(routes[r]) EXCEPT !.leaving = TRUE]
            = [uid |-> routes[r].uid, guarded |-> routes[r].finalizer, leaving |-> TRUE]
      BY <1>1, LifeUpdates
    <3>3. QED
      BY <3>1, <3>2, Zenon
  <2>3. lives' = [lives EXCEPT ![r] = [lives[r] EXCEPT !.leaving = TRUE]]
    <3>1. lives' = [lives EXCEPT ![r] = Life(new)]
      BY <1>1, <1>2, LifeWrite
    <3> HIDE DEF lives
    <3>2. QED
      BY <1>3, <2>2, <3>1, Zenon
  <2>4. QED
    BY <1>1, <1>2, <1>3, <2>1, <2>3, LifeWrite DEF Lifecycle!Leave, Lifecycle!Become
<1>8. QED
  BY <1>5, <1>6, <1>7

\* Every step of the controller is a step of RouteLifecycle, or none.
LEMMA StepLife ==
    ASSUME AllInv, TypeInv', [Next]_vars
    PROVE  [Lifecycle!Next]_(Lifecycle!abstractVars)
<1> USE DEF AllInv
<1>1. ASSUME UNCHANGED routes, spent'["create"] = spent["create"]
      PROVE  [Lifecycle!Next]_(Lifecycle!abstractVars)
  BY <1>1, AttachStep DEF Lifecycle!Next
<1>2. CASE Minor
  BY <1>1, <1>2, MinorSteps DEF ChildrenGo
<1>3. CASE (\E r \in Routes : Begin(r)) \/ CleanupKind \/ CacheSync \/ Crash
  <2>1. UNCHANGED routes
    BY <1>3 DEF Begin, CleanupKind, CacheSync, Crash, apiVars
  <2>2. Spend("fault") \/ Spend("crash") \/ UNCHANGED spent
    BY <1>3 DEF Begin, CleanupKind, CacheSync, Crash
  <2>3. QED
    BY <1>1, <2>1, <2>2, SpendOther DEF TypeInv, BudgetKinds
<1>4. ASSUME NEW out \in Outcomes, PutChild(out) PROVE [Lifecycle!Next]_(Lifecycle!abstractVars)
  BY <1>1, <1>4, PutShape
<1>5. ASSUME NEW out \in Outcomes, WriteStatus(out) PROVE [Lifecycle!Next]_(Lifecycle!abstractVars)
  <2>1. /\ job.key \in Routes /\ job.base # Nil /\ UNCHANGED children
        /\ spent'["create"] = spent["create"]
    BY <1>5, StatusShape, NilAssumption
  <2>2. CASE routes' = routes
    BY <1>1, <2>1, <2>2
  <2>3. CASE routes' # routes
    <3>1. UNCHANGED Lifecycle!abstractVars
      BY <1>5, <2>1, <2>3, StatusShape, SameLife
    <3>2. QED
      BY <3>1
  <2>4. QED
    BY <2>2, <2>3
<1>6. ASSUME NEW out \in Outcomes, RemoveFinalizer(out) PROVE [Lifecycle!Next]_(Lifecycle!abstractVars)
  <2>1. job.key \in Routes /\ spent'["create"] = spent["create"]
    BY <1>6, RemoveShape
  <2>2. QED
    BY <1>1, <1>6, <2>1, RemoveLife DEF Lifecycle!Next
<1>7. ASSUME NEW out \in Outcomes, AddFinalizer(out) PROVE [Lifecycle!Next]_(Lifecycle!abstractVars)
  <2>1. job.key \in Routes /\ spent'["create"] = spent["create"]
    BY <1>7, AddShape
  <2>2. QED
    BY <1>1, <1>7, <2>1, AddLife DEF Lifecycle!Next
<1>8. ASSUME NEW r \in Routes, NEW spec \in Specs, CreateRoute(r, spec)
      PROVE  [Lifecycle!Next]_(Lifecycle!abstractVars)
  BY <1>8, CreateLife DEF Lifecycle!Next
<1>9. ASSUME NEW r \in Routes, Rewrites(r) PROVE [Lifecycle!Next]_(Lifecycle!abstractVars)
  BY <1>9, RewriteLife DEF Lifecycle!Next
<1>10. QED
  BY <1>2, <1>3, <1>4, <1>5, <1>6, <1>7, <1>8, <1>9, StepCases DEF Major

LEMMA InitInv ==
    ASSUME Init
    PROVE  AllInv
<1>1. FinalizerInv
  BY DEF Init, FinalizerInv, UidsKnown, UidsUnique, FinalizerKept, FinalizerFirst
<1>2. GuardInv
  BY DEF Init, GuardInv, WorkerInv, HoldDeletes, DeletingKept, WorkGuarded
<1>3. CleanupInv
  BY DEF Init, CleanupInv, LabelsRight, CacheExact, Cleaned, Deleting
<1>4. QED
  BY <1>1, <1>2, <1>3, InitTypes DEF AllInv

LEMMA StepInv ==
    ASSUME AllInv, [Next]_vars
    PROVE  AllInv'
BY StepTypes, StepFinalizer, StepGuard, StepCleanup DEF AllInv

\* All that the proofs below need is an invariant of the controller.
LEMMA Invariance == Spec => []AllInv
BY InitInv, StepInv, PTL DEF Spec

\* However stale the Route that Reconcile works with: when it was read live and
\* with its finalizer, the same Route is still at the API server and still has
\* it, so that a deletion waits for whatever this Reconcile writes.
THEOREM GuardSafety == Spec => []WorkGuarded
<1>1. AllInv => WorkGuarded
  BY DEF AllInv, GuardInv
<1>2. QED
  BY <1>1, Invariance, PTL

\* Every behaviour of the controller, its caches, restarts, retries and lost
\* answers included, is a life of the Routes that RouteLifecycle allows.  In
\* particular cleanupOwnedResources leaves nothing in the namespace of the
\* Gateway when the finalizer goes, wherever it cannot miss anything: no error
\* is dropped, the List is current and there is one such namespace.
THEOREM Implementation == Spec => ImplementsLifecycle
<1>1. Init => Lifecycle!Init
  <2> SUFFICES ASSUME Init PROVE Lifecycle!Init
    OBVIOUS
  <2>1. [r \in Routes |-> Life(routes[r])] = [r \in Routes |-> Nil]
    BY DEF Init, Life
  <2>2. spent["create"] = 0
    BY DEF Init, BudgetKinds
  <2>3. \A ids \in SUBSET ChildIds : Uids(ids) = {}
    BY DEF Init, Uids
  <2>4. QED
    BY <2>1, <2>2, <2>3 DEF Lifecycle!Init
<1>2. AllInv /\ AllInv' /\ [Next]_vars => [Lifecycle!Next]_(Lifecycle!abstractVars)
  BY StepLife DEF AllInv
<1>3. QED
  BY <1>1, <1>2, Invariance, PTL DEF Spec, ImplementsLifecycle, Lifecycle!Spec

-----------------------------------------------------------------------------
(* What the promise says of the controller.                                *)

Promise == INSTANCE RouteLifecycleProofs WITH
    Leaky  <- CleanupMayMiss,
    route  <- [r \in Routes |-> Life(routes[r])],
    next   <- spent["create"],
    leases <- Uids({id \in ChildIds : ~Owned(id)}),
    owned  <- Uids({id \in ChildIds : Owned(id)})

\* Where the cleanup cannot miss a child, no child in the namespace of a Gateway
\* outlives its Route, whatever the order of creations, edits, deletions,
\* restarts and stale reads.  It follows from the promise of RouteLifecycle.
THEOREM NoOrphansStrict == ~CleanupMayMiss => (Spec => []NoOrphans)
<1> SUFFICES ASSUME ~CleanupMayMiss PROVE Spec => []NoOrphans
  OBVIOUS
<1>1. Promise!Spec => []Promise!Covered
  BY Promise!LeasesCovered, NilIsNoLife DEF Promise!Lives, Lives
<1>2. Lifecycle!Spec => Promise!Spec
  <2>1. Lifecycle!Init => Promise!Init
    BY DEF Lifecycle!Init, Promise!Init
  <2>2. [Lifecycle!Next]_(Lifecycle!abstractVars) => [Promise!Next]_(Promise!abstractVars)
    BY DEF Lifecycle!Next, Lifecycle!Admit, Lifecycle!Guard, Lifecycle!Leave, Lifecycle!Attach,
           Lifecycle!Release, Lifecycle!Vanish, Lifecycle!Become, Lifecycle!Guarded,
           Lifecycle!Present, Lifecycle!abstractVars,
           Promise!Next, Promise!Admit, Promise!Guard, Promise!Leave, Promise!Attach,
           Promise!Release, Promise!Vanish, Promise!Become, Promise!Guarded,
           Promise!Present, Promise!abstractVars
  <2>3. QED
    BY <2>1, <2>2, PTL DEF Lifecycle!Spec, Promise!Spec
<1>3. AllInv /\ Promise!Covered => NoOrphans
  <2> SUFFICES ASSUME AllInv, Promise!Covered, NEW id \in ChildIds, children[id] # Nil, ~Owned(id)
               PROVE  \E r \in Routes : routes[r] # Nil /\ routes[r].uid = children[id].uid
    BY DEF NoOrphans
  <2>1. children[id].uid \in Promise!Guarded
    BY DEF Promise!Covered, Uids
  <2>2. PICK r \in Routes : Life(routes[r]) # Nil /\ children[id].uid = Life(routes[r]).uid
    BY <2>1 DEF Promise!Guarded, Promise!Present
  <2>3. routes[r] # Nil /\ routes[r] \in RouteObjects
    BY <2>2 DEF Life, AllInv, TypeInv, TypeOK
  <2>4. QED
    BY <2>2, <2>3, LifeFields
<1>4. QED
  BY <1>1, <1>2, <1>3, Implementation, Invariance, PTL DEF ImplementsLifecycle

=============================================================================

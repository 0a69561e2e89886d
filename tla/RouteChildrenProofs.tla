------------------------ MODULE RouteChildrenProofs ------------------------
(***************************************************************************)
(* The children of the Routes: a Route is Active only when its children    *)
(* are what its specification asks for, and the cleanup after one Route    *)
(* takes nothing from another.                                             *)
(***************************************************************************)
EXTENDS RouteRefinementProofs

-----------------------------------------------------------------------------
(* The names of the children.                                              *)

\* The children that an operation writes or deletes.
Names(o) == { o.ids[i] : i \in DOMAIN o.ids }

\* Different numbers are written differently.
IndicesDiffer == \A i, j \in Nat \ {0} : Index(i) = Index(j) => i = j

\* The kind of a child and the number of parts of its name.
Class(id) == <<id.kind, Len(id.name)>>

\* No two operations of a plan are about one child, if numbers can be told apart,
\* and all their children are in certain classes.
Spread(p) ==
    IndicesDiffer => \A j, k \in 1 .. Len(p) : j # k => Names(p[j]) \cap Names(p[k]) = {}
Within(p, S) == \A k \in 1 .. Len(p) : \A id \in Names(p[k]) : Class(id) \in S

\* Every operation lists its children, and one that writes is about one child.
Writes(o) ==
    /\ DOMAIN o.ids = 1 .. Len(o.ids)
    /\ o.op = "put" => Len(o.ids) = 1
AllWrite(p) == \A k \in 1 .. Len(p) : Writes(p[k])

LEMMA SpreadConcatenated ==
    ASSUME NEW s, NEW t, NEW S, NEW T,
           Spread(s), Within(s, S), Spread(t), Within(t, T), S \cap T = {},
           AllWrite(s), AllWrite(t)
    PROVE  Spread(s \o t) /\ Within(s \o t, S \cup T) /\ AllWrite(s \o t)
<1> DEFINE u == s \o t
<1>1. /\ Len(s) \in Nat /\ Len(t) \in Nat
      /\ Len(u) = Len(s) + Len(t)
      /\ \A k \in 1 .. Len(u) : IF k <= Len(s) THEN u[k] = s[k] ELSE u[k] = t[k - Len(s)]
  OBVIOUS
<1> HIDE DEF u
<1>2. \A k \in 1 .. Len(u) :
        \/ k \in 1 .. Len(s) /\ u[k] = s[k]
        \/ k - Len(s) \in 1 .. Len(t) /\ u[k] = t[k - Len(s)]
  BY <1>1
<1>3. Within(u, S \cup T)
  BY <1>2 DEF Within
<1>4. AllWrite(u)
  BY <1>2 DEF AllWrite
<1>5. Spread(u)
  <2> SUFFICES ASSUME IndicesDiffer, NEW j \in 1 .. Len(u), NEW k \in 1 .. Len(u), j # k
               PROVE  Names(u[j]) \cap Names(u[k]) = {}
    BY DEF Spread
  <2>1. CASE (j \in 1 .. Len(s) /\ u[j] = s[j]) /\ (k \in 1 .. Len(s) /\ u[k] = s[k])
    BY <2>1 DEF Spread
  <2>2. CASE /\ j - Len(s) \in 1 .. Len(t) /\ u[j] = t[j - Len(s)]
             /\ k - Len(s) \in 1 .. Len(t) /\ u[k] = t[k - Len(s)]
    <3>1. j - Len(s) # k - Len(s)
      BY <1>1
    <3>2. QED
      BY <2>2, <3>1 DEF Spread
  <2>3. CASE /\ j \in 1 .. Len(s) /\ u[j] = s[j]
             /\ k - Len(s) \in 1 .. Len(t) /\ u[k] = t[k - Len(s)]
    BY <2>3 DEF Within
  <2>4. CASE /\ j - Len(s) \in 1 .. Len(t) /\ u[j] = t[j - Len(s)]
             /\ k \in 1 .. Len(s) /\ u[k] = s[k]
    BY <2>4 DEF Within
  <2>5. QED
    BY <1>2, <2>1, <2>2, <2>3, <2>4
<1>6. QED
  BY <1>3, <1>4, <1>5 DEF u

\* A list of operations on one child each, of one class, whose names have the
\* number of the operation as their part m.
Numbered(p, ids, m, C) ==
    /\ Len(p) \in Nat
    /\ \A k \in 1 .. Len(p) : Names(p[k]) \subseteq {ids[k]} /\ Writes(p[k])
    /\ \A k \in Nat : Class(ids[k]) = C /\ ids[k].name[m] = Index(k)

LEMMA SpreadIndexed ==
    ASSUME NEW p, NEW ids, NEW m, NEW C, Numbered(p, ids, m, C)
    PROVE  Spread(p) /\ Within(p, {C}) /\ AllWrite(p)
<1> USE DEF Numbered
<1>1. Spread(p)
  <2> SUFFICES ASSUME IndicesDiffer, NEW j \in 1 .. Len(p), NEW k \in 1 .. Len(p), j # k
               PROVE  Names(p[j]) \cap Names(p[k]) = {}
    BY DEF Spread
  <2>1. Index(j) # Index(k)
    BY DEF IndicesDiffer
  <2>2. ids[j] # ids[k]
    BY <2>1
  <2>3. QED
    BY <2>2
<1>2. Within(p, {C})
  BY DEF Within
<1>3. AllWrite(p)
  BY DEF AllWrite
<1>4. QED
  BY <1>1, <1>2, <1>3

\* The class of a child whose name is that of its Route with a suffix, and the
\* last part of its name.
LEMMA Suffixed ==
    ASSUME NEW kind, NEW ns, NEW n, NEW z
    PROVE  /\ Class(Child(kind, ns, n \o <<z>>)) = <<kind, Len(n) + 1>>
           /\ Child(kind, ns, n \o <<z>>).name[Len(n) + 1] = z
<1> DEFINE m == n \o <<z>>
<1>1. Len(m) = Len(n) + 1 /\ m[Len(n) + 1] = z
  OBVIOUS
<1> HIDE DEF m
<1>2. Class(Child(kind, ns, m)) = <<kind, Len(n) + 1>> /\ Child(kind, ns, m).name[Len(n) + 1] = z
  BY <1>1 DEF Class, Child
<1>3. QED
  BY <1>2 DEF m

LEMMA SuffixedTwice ==
    ASSUME NEW kind, NEW ns, NEW n, NEW y, NEW z
    PROVE  /\ Class(Child(kind, ns, n \o <<y, z>>)) = <<kind, Len(n) + 2>>
           /\ Child(kind, ns, n \o <<y, z>>).name[Len(n) + 2] = z
<1> DEFINE m == n \o <<y, z>>
<1>1. Len(m) = Len(n) + 2 /\ m[Len(n) + 2] = z
  OBVIOUS
<1> HIDE DEF m
<1>2. Class(Child(kind, ns, m)) = <<kind, Len(n) + 2>> /\ Child(kind, ns, m).name[Len(n) + 2] = z
  BY <1>1 DEF Class, Child
<1>3. QED
  BY <1>2 DEF m

LEMMA SuffixedThrice ==
    ASSUME NEW kind, NEW ns, NEW n, NEW x, NEW y, NEW z
    PROVE  /\ Class(Child(kind, ns, n \o <<x, y, z>>)) = <<kind, Len(n) + 3>>
           /\ Child(kind, ns, n \o <<x, y, z>>).name[Len(n) + 3] = z
<1> DEFINE m == n \o <<x, y, z>>
<1>1. Len(m) = Len(n) + 3 /\ m[Len(n) + 3] = z
  OBVIOUS
<1> HIDE DEF m
<1>2. Class(Child(kind, ns, m)) = <<kind, Len(n) + 3>> /\ Child(kind, ns, m).name[Len(n) + 3] = z
  BY <1>1 DEF Class, Child
<1>3. QED
  BY <1>2 DEF m

\* The names that one Reconcile generates are all different: no operation of a
\* plan undoes what an earlier one has done.
LEMMA PlanSpread ==
    ASSUME NEW r \in Routes, NEW spec \in AllSpecs, NEW canary
    PROVE  /\ Spread(childPlan(r, spec, canary)) /\ AllWrite(childPlan(r, spec, canary))
           /\ DOMAIN childPlan(r, spec, canary) = 1 .. Len(childPlan(r, spec, canary))
           /\ Len(childPlan(r, spec, canary)) \in Nat
<1> DEFINE rules == spec.rules
           hosts == uniqueHostsFromRules(rules)
           tls == httpsBackends(spec, canary)
           p1 == [i \in DOMAIN rules |-> reconcileHTTPRoute(r, spec, i, canary)]
           p2 == IF spec.ssl = "off" THEN <<>>
                 ELSE [i \in DOMAIN hosts |-> reconcileRedirectHTTPRoute(r, spec, i, hosts[i])]
           p3 == IF spec.timeout = "" /\ spec.cors = Nil /\ spec.retries = Nil /\ canary = Nil THEN <<>>
                 ELSE <<reconcileVirtualService(r, spec, canary)>>
           p4 == [i \in 1 .. Len(tls) |-> reconcileDestinationRule(r, spec, i, tls[i])]
           p5 == IF spec.maxBody = "" THEN <<>>
                 ELSE [i \in DOMAIN rules |-> reconcileEnvoyFilter(r, spec, i)]
           p6 == IF spec.auth = Nil THEN <<deleteAuthResources(r, spec)>>
                 ELSE <<reconcileRequestAuthentication(r, spec), reconcileAuthorizationPolicy(r, spec)>>
           p7 == IF spec.rate = Nil THEN <<deleteRateLimitEnvoyFilter(r, spec)>>
                 ELSE <<reconcileRateLimitEnvoyFilter(r, spec)>>
           n == Len(r.name)
           Good(p, S) == Spread(p) /\ Within(p, S) /\ AllWrite(p)
<1>1. childPlan(r, spec, canary) = p1 \o p2 \o p3 \o p4 \o p5 \o p6 \o p7
  BY DEF childPlan
<1>2. DOMAIN rules = 1 .. Len(rules) /\ Len(rules) \in Nat
  BY MutatedType DEF RouteSpecs
<1>3. \A id, body : Names(Put(id, body)) = {id} /\ Writes(Put(id, body))
  BY DEF Names, Writes, Put
<1>4. Names(Failure) = {} /\ Writes(Failure)
  BY DEF Names, Writes, Failure
<1>5. \A S : Good(<<>>, S)
  BY DEF Spread, Within, AllWrite
<1>6. \A kind, ns, name : Class(Child(kind, ns, name)) = <<kind, Len(name)>>
  BY DEF Class, Child
<1>7. n \in Nat
  OBVIOUS
<1>8. Good(p1, {<<"HTTPRoute", n + 1>>})
  <2> DEFINE ids == [i \in Nat |-> Child("HTTPRoute", r.ns, r.name \o <<Index(i)>>)]
  <2>1. \A i \in Nat : /\ Names(reconcileHTTPRoute(r, spec, i, canary)) = {ids[i]}
                       /\ Writes(reconcileHTTPRoute(r, spec, i, canary))
    BY <1>3 DEF reconcileHTTPRoute
  <2>2. \A i \in Nat : Class(ids[i]) = <<"HTTPRoute", n + 1>> /\ ids[i].name[n + 1] = Index(i)
    <3> TAKE i \in Nat
    <3>1. ids[i] = Child("HTTPRoute", r.ns, r.name \o <<Index(i)>>)
      OBVIOUS
    <3> HIDE DEF ids
    <3>2. QED
      BY <3>1, Suffixed
  <2> HIDE DEF ids, n
  <2>3. /\ Len(p1) = Len(rules)
        /\ \A k \in 1 .. Len(p1) : Names(p1[k]) = {ids[k]} /\ Writes(p1[k])
    BY <1>2, <2>1
  <2> HIDE DEF p1
  <2>4. QED
    <3>1. Numbered(p1, ids, n + 1, <<"HTTPRoute", n + 1>>)
      BY <1>2, <2>2, <2>3 DEF Numbered
    <3>2. QED
      BY <3>1, SpreadIndexed
<1>9. Good(p2, {<<"HTTPRoute", n + 2>>})
  <2> DEFINE ids == [i \in Nat |-> Child("HTTPRoute", r.ns, r.name \o <<"redirect", Index(i)>>)]
  <2>1. \A i \in Nat : \A host :
          /\ Names(reconcileRedirectHTTPRoute(r, spec, i, host)) = {ids[i]}
          /\ Writes(reconcileRedirectHTTPRoute(r, spec, i, host))
    BY <1>3 DEF reconcileRedirectHTTPRoute
  <2>2. \A i \in Nat : Class(ids[i]) = <<"HTTPRoute", n + 2>> /\ ids[i].name[n + 2] = Index(i)
    <3> TAKE i \in Nat
    <3>1. ids[i] = Child("HTTPRoute", r.ns, r.name \o <<"redirect", Index(i)>>)
      OBVIOUS
    <3> HIDE DEF ids
    <3>2. QED
      BY <3>1, SuffixedTwice
  <2>3. PICK h \in Nat : DOMAIN hosts = 1 .. h
    BY <1>2, HostsListed
  <2> HIDE DEF ids, n, hosts
  <2> DEFINE redirects == [i \in 1 .. h |-> reconcileRedirectHTTPRoute(r, spec, i, hosts[i])]
  <2>4. /\ Len(redirects) \in Nat
        /\ \A k \in 1 .. Len(redirects) : Names(redirects[k]) = {ids[k]} /\ Writes(redirects[k])
    BY <2>1
  <2>5. p2 = <<>> \/ p2 = redirects
    BY <2>3
  <2> HIDE DEF p2, redirects
  <2>6. Good(redirects, {<<"HTTPRoute", n + 2>>})
    <3>1. Numbered(redirects, ids, n + 2, <<"HTTPRoute", n + 2>>)
      BY <2>2, <2>4 DEF Numbered
    <3>2. QED
      BY <3>1, SpreadIndexed
  <2>7. QED
    BY <1>5, <2>5, <2>6
<1>10. Good(p3, {<<"VirtualService", n>>})
  <2>1. /\ Names(reconcileVirtualService(r, spec, canary)) = {Child("VirtualService", r.ns, r.name)}
        /\ Writes(reconcileVirtualService(r, spec, canary))
    BY <1>3 DEF reconcileVirtualService
  <2>2. p3 = <<>> \/ p3 = <<reconcileVirtualService(r, spec, canary)>>
    OBVIOUS
  <2> HIDE DEF p3
  <2>3. QED
    BY <1>5, <1>6, <2>1, <2>2 DEF Spread, Within, AllWrite
<1>11. Good(p4, {<<"DestinationRule", n + 2>>})
  <2> DEFINE ids == [i \in Nat |-> Child("DestinationRule", gatewayRef(spec).ns, r.name \o <<"tls", Index(i)>>)]
  <2>1. \A i \in Nat : \A backend :
          /\ Names(reconcileDestinationRule(r, spec, i, backend)) = {ids[i]}
          /\ Writes(reconcileDestinationRule(r, spec, i, backend))
    BY <1>3 DEF reconcileDestinationRule
  <2>2. \A i \in Nat : Class(ids[i]) = <<"DestinationRule", n + 2>> /\ ids[i].name[n + 2] = Index(i)
    <3> TAKE i \in Nat
    <3>1. ids[i] = Child("DestinationRule", gatewayRef(spec).ns, r.name \o <<"tls", Index(i)>>)
      OBVIOUS
    <3> HIDE DEF ids
    <3>2. QED
      BY <3>1, SuffixedTwice
  <2> HIDE DEF ids, n, tls
  <2>3. /\ Len(p4) \in Nat
        /\ \A k \in 1 .. Len(p4) : Names(p4[k]) = {ids[k]} /\ Writes(p4[k])
    BY <2>1
  <2> HIDE DEF p4
  <2>4. QED
    <3>1. Numbered(p4, ids, n + 2, <<"DestinationRule", n + 2>>)
      BY <2>2, <2>3 DEF Numbered
    <3>2. QED
      BY <3>1, SpreadIndexed
<1>12. Good(p5, {<<"EnvoyFilter", n + 3>>})
  <2> DEFINE ids == [i \in Nat |-> Child("EnvoyFilter", gatewayRef(spec).ns, r.name \o <<"body", "size", Index(i)>>)]
             filters == [i \in 1 .. Len(rules) |-> reconcileEnvoyFilter(r, spec, i)]
  <2>1. \A i \in Nat : /\ Names(reconcileEnvoyFilter(r, spec, i)) \subseteq {ids[i]}
                       /\ Writes(reconcileEnvoyFilter(r, spec, i))
    BY <1>3, <1>4 DEF reconcileEnvoyFilter
  <2>2. \A i \in Nat : Class(ids[i]) = <<"EnvoyFilter", n + 3>> /\ ids[i].name[n + 3] = Index(i)
    <3> TAKE i \in Nat
    <3>1. ids[i] = Child("EnvoyFilter", gatewayRef(spec).ns, r.name \o <<"body", "size", Index(i)>>)
      OBVIOUS
    <3> HIDE DEF ids
    <3>2. QED
      BY <3>1, SuffixedThrice
  <2> HIDE DEF ids, n
  <2>3. /\ Len(filters) \in Nat
        /\ \A k \in 1 .. Len(filters) : Names(filters[k]) \subseteq {ids[k]} /\ Writes(filters[k])
    BY <1>2, <2>1
  <2>4. p5 = <<>> \/ p5 = filters
    BY <1>2
  <2> HIDE DEF p5, filters
  <2>5. Good(filters, {<<"EnvoyFilter", n + 3>>})
    <3>1. Numbered(filters, ids, n + 3, <<"EnvoyFilter", n + 3>>)
      BY <2>2, <2>3 DEF Numbered
    <3>2. QED
      BY <3>1, SpreadIndexed
  <2>6. QED
    BY <1>5, <2>4, <2>5
<1>13. Good(p6, {<<"RequestAuthentication", n + 1>>, <<"AuthorizationPolicy", n + 1>>})
  <2> DEFINE ra == requestAuthentication(r, spec)
             ap == authorizationPolicy(r, spec)
  <2>1. /\ Class(ra) = <<"RequestAuthentication", n + 1>> /\ Class(ap) = <<"AuthorizationPolicy", n + 1>>
        /\ ra # ap
    BY Suffixed DEF requestAuthentication, authorizationPolicy
  <2>2. /\ Names(deleteAuthResources(r, spec)) = {ra, ap}
        /\ Writes(deleteAuthResources(r, spec))
    BY DEF deleteAuthResources, Delete, Names, Writes
  <2>3. /\ Names(reconcileRequestAuthentication(r, spec)) = {ra}
        /\ Writes(reconcileRequestAuthentication(r, spec))
        /\ Names(reconcileAuthorizationPolicy(r, spec)) = {ap}
        /\ Writes(reconcileAuthorizationPolicy(r, spec))
    BY <1>3 DEF reconcileRequestAuthentication, reconcileAuthorizationPolicy
  <2> HIDE DEF ra, ap, n
  <2>4. \/ p6 = <<deleteAuthResources(r, spec)>>
        \/ p6 = <<reconcileRequestAuthentication(r, spec), reconcileAuthorizationPolicy(r, spec)>>
    OBVIOUS
  <2> HIDE DEF p6
  <2>5. QED
    BY <2>1, <2>2, <2>3, <2>4 DEF Spread, Within, AllWrite
<1>14. Good(p7, {<<"EnvoyFilter", n + 2>>})
  <2> DEFINE ef == rateLimitEnvoyFilter(r, spec)
  <2>1. Class(ef) = <<"EnvoyFilter", n + 2>>
    BY SuffixedTwice DEF rateLimitEnvoyFilter
  <2>2. /\ Names(deleteRateLimitEnvoyFilter(r, spec)) = {ef}
        /\ Writes(deleteRateLimitEnvoyFilter(r, spec))
    BY DEF deleteRateLimitEnvoyFilter, Delete, Names, Writes
  <2>3. /\ Names(reconcileRateLimitEnvoyFilter(r, spec)) \subseteq {ef}
        /\ Writes(reconcileRateLimitEnvoyFilter(r, spec))
    BY <1>3, <1>4 DEF reconcileRateLimitEnvoyFilter
  <2> HIDE DEF ef, n
  <2>4. \E o : p7 = <<o>> /\ Names(o) \subseteq {ef} /\ Writes(o)
    BY <2>2, <2>3
  <2> HIDE DEF p7
  <2>5. QED
    BY <2>1, <2>4 DEF Spread, Within, AllWrite
<1> DEFINE q2 == p1 \o p2
           q3 == q2 \o p3
           q4 == q3 \o p4
           q5 == q4 \o p5
           q6 == q5 \o p6
           q7 == q6 \o p7
           S2 == {<<"HTTPRoute", n + 1>>, <<"HTTPRoute", n + 2>>}
           S3 == S2 \cup {<<"VirtualService", n>>}
           S4 == S3 \cup {<<"DestinationRule", n + 2>>}
           S5 == S4 \cup {<<"EnvoyFilter", n + 3>>}
           S6 == S5 \cup {<<"RequestAuthentication", n + 1>>, <<"AuthorizationPolicy", n + 1>>}
<1> HIDE DEF p1, p2, p3, p4, p5, p6, p7, n, Good
<1>15. Good(q2, S2)
  <2>1. {<<"HTTPRoute", n + 1>>} \cap {<<"HTTPRoute", n + 2>>} = {}
    BY <1>7
  <2>2. S2 = {<<"HTTPRoute", n + 1>>} \cup {<<"HTTPRoute", n + 2>>}
    OBVIOUS
  <2>3. Good(q2, {<<"HTTPRoute", n + 1>>} \cup {<<"HTTPRoute", n + 2>>})
    BY <1>8, <1>9, <2>1, SpreadConcatenated DEF Good
  <2> HIDE DEF q2, S2
  <2>4. QED
    BY <2>2, <2>3
<1>16. Good(q3, S3)
  <2>1. S2 \cap {<<"VirtualService", n>>} = {}
    OBVIOUS
  <2> HIDE DEF q2, S2
  <2>2. QED
    BY <1>10, <1>15, <2>1, SpreadConcatenated DEF Good
<1>17. Good(q4, S4)
  <2>1. S3 \cap {<<"DestinationRule", n + 2>>} = {}
    OBVIOUS
  <2> HIDE DEF q3, S3
  <2>2. QED
    BY <1>11, <1>16, <2>1, SpreadConcatenated DEF Good
<1>18. Good(q5, S5)
  <2>1. S4 \cap {<<"EnvoyFilter", n + 3>>} = {}
    OBVIOUS
  <2> HIDE DEF q4, S4
  <2>2. QED
    BY <1>12, <1>17, <2>1, SpreadConcatenated DEF Good
<1>19. Good(q6, S6)
  <2>1. S5 \cap {<<"RequestAuthentication", n + 1>>, <<"AuthorizationPolicy", n + 1>>} = {}
    OBVIOUS
  <2> HIDE DEF q5, S5
  <2>2. QED
    BY <1>13, <1>18, <2>1, SpreadConcatenated DEF Good
<1>20. Spread(q7) /\ AllWrite(q7)
  <2>1. S6 \cap {<<"EnvoyFilter", n + 2>>} = {}
    BY <1>7
  <2> HIDE DEF q6, S6
  <2>2. QED
    BY <1>14, <1>19, <2>1, SpreadConcatenated DEF Good
<1>21. DOMAIN q7 = 1 .. Len(q7) /\ Len(q7) \in Nat
  <2> HIDE DEF q6
  <2>1. QED
    OBVIOUS
<1>22. QED
  BY <1>1, <1>20, <1>21

-----------------------------------------------------------------------------
(* What a step does to one Route, and to the object of Reconcile.          *)

\* A Route is new, or the one it was: a deletion is never taken back, and only
\* Reconcile adds the finalizer or writes the status, if nothing has changed.
RouteFollows(r) ==
    \/ /\ routes'[r].uid = spent["create"]
       /\ ~routes'[r].finalizer
       /\ routes'[r].status.phase = ""
       /\ routes[r] = Nil
    \/ /\ routes[r] # Nil
       /\ routes'[r].uid = routes[r].uid
       /\ routes[r].deleting => routes'[r].deleting
       /\ \/ routes[r].finalizer
          \/ ~routes'[r].finalizer
          \/ pc = "finalize" /\ job.key = r /\ routes[r] = job.base
       /\ \/ routes'[r].status = routes[r].status
          \/ /\ pc = "status" /\ job.key = r /\ routes[r] = job.base
             /\ routes'[r].status = NewStatus(job)

LEMMA RouteStep ==
    ASSUME TypeInv, TypeInv', [Next]_vars, NEW r \in Routes, routes'[r] # Nil
    PROVE  RouteFollows(r)
<1>0. routes \in [Routes -> RouteObjects \cup {Nil}]
  BY DEF TypeInv, TypeOK
<1>1. ASSUME routes' = routes PROVE RouteFollows(r)
  BY <1>1 DEF RouteFollows
<1>2. CASE Minor \/ (\E q \in Routes : Begin(q)) \/ CleanupKind \/ CacheSync \/ Crash
           \/ \E out \in Outcomes : PutChild(out)
  <2>1. routes' = routes
    BY <1>2, MinorSteps DEF ChildrenGo, Begin, CleanupKind, CacheSync, Crash, PutChild, apiVars
  <2>2. QED
    BY <1>1, <2>1
<1>3. ASSUME NEW out \in Outcomes, WriteStatus(out) PROVE RouteFollows(r)
  <2>1. job.key \in Routes /\ job.base \in RouteObjects /\ job.base # Nil /\ pc = "status"
    BY <1>3, StatusShape, NilAssumption DEF WriteStatus
  <2>2. CASE routes' # routes
    <3>1. PICK new \in RouteObjects :
            /\ routes[job.key] = job.base
            /\ routes' = [routes EXCEPT ![job.key] = new]
            /\ new.status = NewStatus(job)
            /\ new.uid = job.base.uid
            /\ new.finalizer = job.base.finalizer
            /\ new.deleting = job.base.deleting
      BY <1>3, <2>2, StatusShape
    <3>2. CASE r = job.key
      BY <1>0, <2>1, <3>1, <3>2 DEF RouteFollows
    <3>3. CASE r # job.key
      BY <1>0, <2>1, <3>1, <3>3 DEF RouteFollows
    <3>4. QED
      BY <3>2, <3>3
  <2>3. QED
    BY <1>1, <2>2
<1>4. ASSUME NEW out \in Outcomes, RemoveFinalizer(out) PROVE RouteFollows(r)
  <2>1. job.key \in Routes /\ job.base \in RouteObjects /\ job.base # Nil
    BY <1>4, RemoveShape, NilAssumption
  <2>2. CASE routes' # routes
    <3>1. PICK new \in RouteObjects \cup {Nil} :
            /\ routes[job.key] = job.base
            /\ routes' = [routes EXCEPT ![job.key] = new]
            /\ new # Nil => /\ new.uid = job.base.uid /\ new.finalizer = FALSE
                           /\ new.deleting = job.base.deleting
                           /\ new.status = job.base.status
      BY <1>4, <2>2, RemoveShape
    <3>2. QED
      BY <1>0, <2>1, <3>1 DEF RouteFollows
  <2>3. QED
    BY <1>1, <2>2
<1>5. ASSUME NEW out \in Outcomes, AddFinalizer(out) PROVE RouteFollows(r)
  <2>1. job.key \in Routes /\ job.base \in RouteObjects /\ job.base # Nil /\ pc = "finalize"
    BY <1>5, AddShape, NilAssumption
  <2>2. CASE routes' # routes
    <3>1. PICK new \in RouteObjects :
            /\ routes[job.key] = job.base
            /\ routes' = [routes EXCEPT ![job.key] = new]
            /\ new.uid = job.base.uid
            /\ new.deleting = job.base.deleting
            /\ new.status = job.base.status
      BY <1>5, <2>2, AddShape
    <3>2. QED
      BY <1>0, <2>1, <3>1 DEF RouteFollows
  <2>3. QED
    BY <1>1, <2>2
<1>6. ASSUME NEW q \in Routes, NEW spec \in Specs, CreateRoute(q, spec) PROVE RouteFollows(r)
  <2>1. PICK new \in RouteObjects :
          /\ routes' = [routes EXCEPT ![q] = new]
          /\ new.uid = spent["create"] /\ new.finalizer = FALSE /\ new.status = NoStatus
    BY <1>6, CreateShape
  <2>2. routes[q] = Nil /\ NoStatus.phase = ""
    BY <1>6, CreateShape DEF NoStatus
  <2>3. QED
    BY <1>0, <2>1, <2>2 DEF RouteFollows
<1>7. ASSUME NEW q \in Routes, Rewrites(q) PROVE RouteFollows(r)
  <2>1. routes[q] # Nil
    BY <1>7, RewriteShape, NilAssumption
  <2>2. PICK new \in RouteObjects \cup {Nil} :
          /\ routes' = [routes EXCEPT ![q] = new]
          /\ new # Nil =>
               /\ new.uid = routes[q].uid
               /\ new.finalizer = routes[q].finalizer
               /\ new.status = routes[q].status
               /\ routes[q].deleting => new.deleting
    BY <1>7, RewriteShape
  <2>3. CASE r = q
    BY <1>0, <2>1, <2>2, <2>3 DEF RouteFollows
  <2>4. CASE r # q
    BY <1>0, <2>1, <2>2, <2>4 DEF RouteFollows
  <2>5. QED
    BY <2>3, <2>4
<1>8. QED
  BY <1>2, <1>3, <1>4, <1>5, <1>6, <1>7, StepCases DEF Major

\* Reconcile keeps to the Route it has read, until it reads one again; the cache
\* is left alone or brought up to date.
JobFollows ==
    \/ job' = Nil
    \/ job # Nil /\ job'.key = job.key /\ job'.base.uid = job.base.uid
    \/ /\ UNCHANGED <<routes, cache>>
       /\ job'.key \in Routes /\ cache[job'.key] # Nil /\ job'.base = cache[job'.key]
CacheFollows == cache' = cache \/ cache' = routes'

LEMMA WorkStep ==
    ASSUME TypeInv, TypeInv', [Next]_vars
    PROVE  JobFollows /\ CacheFollows
<1>0. job # Nil => job \in Jobs
  BY DEF TypeInv, TypeOK
<1>1. CASE Minor
  BY <1>0, <1>1, MinorSteps DEF ChildrenGo, JobStays, JobFollows, CacheFollows
<1>2. ASSUME NEW r \in Routes, Begin(r) PROVE JobFollows /\ CacheFollows
  BY <1>2 DEF Begin, NewJob, apiVars, JobFollows, CacheFollows
<1>3. CASE CleanupKind
  <2>1. /\ job # Nil /\ cache' = cache
        /\ job' = job \/ job' = [job EXCEPT !.step = @ + 1]
    BY <1>3 DEF CleanupKind, TypeInv, JobInv
  <2>2. job'.key = job.key /\ job'.base = job.base
    BY <1>0, <2>1 DEF Jobs
  <2>3. QED
    BY <2>1, <2>2 DEF JobFollows, CacheFollows
<1>4. ASSUME NEW out \in Outcomes, PutChild(out) PROVE JobFollows /\ CacheFollows
  BY <1>4, PutShape DEF JobStays, JobFollows, CacheFollows
<1>5. ASSUME NEW out \in Outcomes, WriteStatus(out) \/ RemoveFinalizer(out)
      PROVE  JobFollows /\ CacheFollows
  BY <1>5, StatusShape, RemoveShape DEF JobFollows, CacheFollows
<1>6. ASSUME NEW out \in Outcomes, AddFinalizer(out) PROVE JobFollows /\ CacheFollows
  <2>1. job \in Jobs /\ job # Nil /\ cache' = cache
    BY <1>6, AddShape, NilAssumption
  <2>2. \/ job' = Nil
        \/ \E new \in RouteObjects : job' = [job EXCEPT !.base = new] /\ new.uid = job.base.uid
    BY <1>6, AddShape
  <2>3. job' = Nil \/ (job'.key = job.key /\ job'.base.uid = job.base.uid)
    BY <2>1, <2>2 DEF Jobs
  <2>4. QED
    BY <2>1, <2>3 DEF JobFollows, CacheFollows
<1>7. CASE CacheSync \/ Crash
  BY <1>7 DEF CacheSync, Crash, apiVars, JobFollows, CacheFollows
<1>8. ASSUME NEW r \in Routes, NEW spec \in Specs, CreateRoute(r, spec)
      PROVE  JobFollows /\ CacheFollows
  BY <1>8, CreateShape DEF JobFollows, CacheFollows
<1>9. ASSUME NEW r \in Routes, Rewrites(r) PROVE JobFollows /\ CacheFollows
  BY <1>9, RewriteShape DEF JobFollows, CacheFollows
<1>10. QED
  BY <1>1, <1>2, <1>3, <1>4, <1>5, <1>6, <1>7, <1>8, <1>9, StepCases DEF Major

-----------------------------------------------------------------------------
(* The cleanup takes nothing from a Route that is alive.                   *)

\* A Route has its finalizer from a Reconcile that had read it, so the cache has
\* known the Route since.  While Reconcile works on a Route, no later Route of
\* the same key can have got its finalizer: nobody else would have added it.
RoutesKnown ==
    /\ \A r \in Routes :
         routes[r] # Nil /\ routes[r].finalizer => cache[r] # Nil /\ cache[r].uid = routes[r].uid
    /\ job # Nil /\ routes[job.key] # Nil =>
         /\ routes[job.key].uid = job.base.uid =>
              cache[job.key] # Nil /\ cache[job.key].uid = job.base.uid
         /\ routes[job.key].finalizer => routes[job.key].uid = job.base.uid

LEMMA StepKnown ==
    ASSUME TypeInv, TypeInv', FinalizerInv, RoutesKnown, [Next]_vars
    PROVE  RoutesKnown'
<1>1. \A r \in Routes : routes'[r] # Nil => RouteFollows(r)
  BY RouteStep
<1>2. JobFollows /\ CacheFollows
  BY WorkStep
<1>3. /\ job # Nil => job.base.uid # spent["create"] /\ job.key \in Routes
      /\ job' # Nil => job'.key \in Routes
  BY DEF FinalizerInv, UidsKnown, TypeInv, TypeOK, Jobs, RouteObjects, BudgetKinds
<1>4. ASSUME NEW r \in Routes, routes'[r] # Nil, routes'[r].finalizer
      PROVE  cache'[r] # Nil /\ cache'[r].uid = routes'[r].uid
  <2>1. CASE cache' = routes'
    BY <1>4, <2>1
  <2>2. CASE cache' = cache
    <3>1. routes[r] # Nil /\ routes'[r].uid = routes[r].uid
      BY <1>1, <1>4 DEF RouteFollows
    <3>2. CASE routes[r].finalizer
      BY <2>2, <3>1, <3>2 DEF RoutesKnown
    <3>3. CASE ~routes[r].finalizer
      <4>1. pc = "finalize" /\ job.key = r /\ routes[r] = job.base
        BY <1>1, <1>4, <3>1, <3>3 DEF RouteFollows
      <4>2. job # Nil
        BY <4>1 DEF TypeInv, JobInv
      <4>3. QED
        BY <2>2, <3>1, <4>1, <4>2 DEF RoutesKnown
    <3>4. QED
      BY <3>2, <3>3
  <2>3. QED
    BY <1>2, <2>1, <2>2 DEF CacheFollows
<1>5. ASSUME job' # Nil, NEW r \in Routes, r = job'.key, routes'[r] # Nil
      PROVE  /\ routes'[r].uid = job'.base.uid => cache'[r] # Nil /\ cache'[r].uid = job'.base.uid
             /\ routes'[r].finalizer => routes'[r].uid = job'.base.uid
  <2>1. CASE /\ UNCHANGED <<routes, cache>>
             /\ cache[r] # Nil /\ job'.base = cache[r]
    BY <1>5, <2>1 DEF RoutesKnown
  <2>2. CASE job # Nil /\ job'.key = job.key /\ job'.base.uid = job.base.uid
    <3>1. CASE routes[r] = Nil
      BY <1>1, <1>3, <1>5, <2>2, <3>1 DEF RouteFollows
    <3>2. CASE routes[r] # Nil
      <4>1. routes'[r].uid = routes[r].uid
        BY <1>1, <1>5, <3>2 DEF RouteFollows
      <4>2. routes'[r].finalizer => routes[r].uid = job.base.uid
        <5>1. routes'[r].finalizer => routes[r].finalizer \/ routes[r] = job.base
          BY <1>1, <1>5, <3>2 DEF RouteFollows
        <5>2. QED
          BY <1>5, <2>2, <3>2, <5>1 DEF RoutesKnown
      <4>3. routes'[r].uid = job'.base.uid => cache'[r] # Nil /\ cache'[r].uid = job'.base.uid
        BY <1>2, <1>5, <2>2, <3>2, <4>1 DEF RoutesKnown, CacheFollows
      <4>4. QED
        BY <2>2, <4>1, <4>2, <4>3
    <3>3. QED
      BY <3>1, <3>2
  <2>3. QED
    BY <1>2, <1>5, <2>1, <2>2 DEF JobFollows
<1>6. QED
  BY <1>3, <1>4, <1>5 DEF RoutesKnown

\* What is left of a name without a suffix.
LEMMA Appended ==
    ASSUME NEW n, NEW s, NEW u, u = n \o s
    PROVE  /\ Len(n) \in Nat /\ Len(s) \in Nat
           /\ Len(u) = Len(n) + Len(s)
           /\ \A i \in 1 .. Len(u) : i <= Len(n) => u[i] = n[i]
OBVIOUS

LEMMA Stem ==
    ASSUME NEW n \in Seq(STRING), NEW m \in Seq(STRING), NEW s, NEW t,
           Len(s) = Len(t), n \o s = m \o t
    PROVE  n = m
<1>1. PICK u : u = n \o s /\ u = m \o t
  OBVIOUS
<1>2. /\ Len(n) \in Nat /\ Len(m) \in Nat /\ Len(s) \in Nat
      /\ Len(u) = Len(n) + Len(s) /\ Len(u) = Len(m) + Len(s)
      /\ \A i \in 1 .. Len(u) : i <= Len(n) => u[i] = n[i]
      /\ \A i \in 1 .. Len(u) : i <= Len(m) => u[i] = m[i]
  <2>1. /\ Len(n) \in Nat /\ Len(s) \in Nat /\ Len(u) = Len(n) + Len(s)
        /\ \A i \in 1 .. Len(u) : i <= Len(n) => u[i] = n[i]
    BY <1>1, Appended
  <2>2. /\ Len(m) \in Nat /\ Len(u) = Len(m) + Len(t)
        /\ \A i \in 1 .. Len(u) : i <= Len(m) => u[i] = m[i]
    BY <1>1, Appended
  <2>3. QED
    BY <2>1, <2>2, Zenon
<1>3. Len(n) = Len(m) /\ \A i \in 1 .. Len(n) : i \in 1 .. Len(u)
  <2> HIDE <1>1
  <2>1. QED
    BY <1>2
<1>4. \A i \in 1 .. Len(n) : n[i] = m[i]
  BY <1>2, <1>3
<1>5. QED
  BY <1>3, <1>4

\* A child beside a Gateway belongs to Routes of one name only.
LEMMA NameUnique ==
    ASSUME NEW id, NEW n \in Seq(STRING), NEW m \in Seq(STRING), NamedFor(id, n), NamedFor(id, m)
    PROVE  n = m
<1>1. ASSUME NEW i, NEW j, n \o <<"tls", Index(i)>> = m \o <<"tls", Index(j)>>
      PROVE  n = m
  <2>1. Len(<<"tls", Index(i)>>) = Len(<<"tls", Index(j)>>)
    OBVIOUS
  <2>2. QED
    BY <1>1, <2>1, Stem, Zenon
<1>2. ASSUME NEW i, NEW j, n \o <<"body", "size", Index(i)>> = m \o <<"body", "size", Index(j)>>
      PROVE  n = m
  <2>1. Len(<<"body", "size", Index(i)>>) = Len(<<"body", "size", Index(j)>>)
    OBVIOUS
  <2>2. QED
    BY <1>2, <2>1, Stem, Zenon
<1>3. ASSUME NEW s, n \o s = m \o s
      PROVE  n = m
  BY <1>3, Stem, Zenon
<1>4. ASSUME NEW a \in Seq(STRING), NEW b \in Seq(STRING), NEW i
      PROVE  a \o <<"body", "size", Index(i)>> # b \o <<"rate", "limit">>
  <2> DEFINE u == a \o <<"body", "size", Index(i)>>
             v == b \o <<"rate", "limit">>
  <2>1. Len(u) = Len(a) + 3 /\ u[Len(a) + 2] = "size"
    OBVIOUS
  <2>2. Len(v) = Len(b) + 2 /\ v[Len(b) + 1] = "rate"
    OBVIOUS
  <2> HIDE DEF u, v
  <2>3. u # v
    BY <2>1, <2>2
  <2>4. QED
    BY <2>3 DEF u, v
<1>5. CASE id.kind = "DestinationRule"
  BY <1>1, <1>5, Zenon DEF NamedFor
<1>6. CASE id.kind = "EnvoyFilter"
  BY <1>2, <1>3, <1>4, <1>6, Zenon DEF NamedFor
<1>7. CASE id.kind \in {"RequestAuthentication", "AuthorizationPolicy"}
  BY <1>3, <1>7, Zenon DEF NamedFor
<1>8. QED
  BY <1>5, <1>6, <1>7 DEF NamedFor

\* The label of a child beside a Gateway is the name that its own name is made of,
\* in the API server and in the caches.
ChildrenNamed ==
    \A id \in ChildIds : ~Owned(id) =>
        /\ children[id] # Nil => NamedFor(id, children[id].label)
        /\ childCache[id] # Nil => NamedFor(id, childCache[id].label)

\* What an operation names is where and what it should be.
LEMMA OperationPlaced ==
    ASSUME TypeInv, pc = "children", job.step \in DOMAIN Plan
    PROVE  /\ job \in Jobs /\ job # Nil /\ job.key \in Routes
           /\ Placed(Operation, job.key, job.base.spec)
           /\ Operation.op = "put" => 1 \in DOMAIN Operation.ids
<1>1. /\ job \in Jobs /\ job # Nil /\ job.key \in Routes /\ job.base.spec \in AllSpecs
  BY DEF TypeInv, TypeOK, JobInv, Jobs, RouteObjects
<1>2. Placed(Operation, job.key, job.base.spec)
  BY <1>1, ChildPlaces DEF Plan, Operation
<1>3. DOMAIN Plan = 1 .. Len(Plan) /\ AllWrite(Plan)
  BY <1>1, PlanSpread DEF Plan
<1>4. QED
  BY <1>1, <1>2, <1>3 DEF Operation, AllWrite, Writes

LEMMA StepNamed ==
    ASSUME TypeInv, TypeInv', ChildrenNamed, [Next]_vars
    PROVE  ChildrenNamed'
<1> DEFINE Kept == \A id \in ChildIds : children'[id] # Nil =>
                      children'[id] = children[id]
                      \/ (~Owned(id) => NamedFor(id, children'[id].label))
<1>0. children \in [ChildIds -> Objects \cup {Nil}]
  BY DEF TypeInv, TypeOK
<1>1. ASSUME Minor PROVE Kept
  BY <1>1, MinorSteps DEF ChildrenGo
<1>2. ASSUME NEW out \in Outcomes, PutChild(out) PROVE Kept
  <2> DEFINE x == Operation.ids[1]
             new == [uid |-> job.base.uid, label |-> job.key.name, body |-> Operation.body]
  <2>1. /\ pc = "children" /\ job.step \in DOMAIN Plan /\ Operation.op = "put"
        /\ children' = children \/ children' = [children EXCEPT ![x] = new]
    BY <1>2 DEF PutChild, SetChildren
  <2>2. ~Owned(x) => NamedFor(x, job.key.name)
    BY <2>1, OperationPlaced DEF Placed
  <2>3. new.label = job.key.name
    OBVIOUS
  <2> HIDE DEF x, new
  <2>4. QED
    BY <1>0, <2>1, <2>2, <2>3
<1>3. ASSUME CleanupKind PROVE Kept
  BY <1>3 DEF CleanupKind, SetChildren
<1>4. ASSUME \/ (\E r \in Routes : Begin(r)) \/ CacheSync \/ Crash
             \/ \E out \in Outcomes : RemoveFinalizer(out) \/ AddFinalizer(out) \/ WriteStatus(out)
             \/ \E r \in Routes, spec \in Specs : CreateRoute(r, spec)
             \/ \E r \in Routes : Rewrites(r)
      PROVE  Kept
  <2>1. children' = children
    BY <1>4, RemoveShape, AddShape, StatusShape, CreateShape, RewriteShape
       DEF Begin, CacheSync, Crash, apiVars
  <2>2. QED
    BY <2>1
<1>5. Kept
  BY <1>1, <1>2, <1>3, <1>4, StepCases DEF Major
<1>6. childCache' \in {childCache, children, children'}
  BY StepShape DEF ChildCacheFollows, SetChildren
<1> HIDE DEF Kept
<1>7. \A id \in ChildIds : ~Owned(id) /\ children'[id] # Nil => NamedFor(id, children'[id].label)
  BY <1>5 DEF Kept, ChildrenNamed
<1>8. QED
  BY <1>6, <1>7 DEF ChildrenNamed

\* No two Routes have the same name.
NamesDistinct == \A r, q \in Routes : r.name = q.name => r = q

\* Without anybody who deletes children, they change at the hands of the cleanup
\* or of the garbage collector while a Route is cleaned up.
LEMMA CleanupChanges ==
    ASSUME TypeInv, Budget["meddle"] = 0, pc = "cleanup", [Next]_vars
    PROVE  CleanupKind \/ (\E id \in ChildIds : GarbageCollect(id)) \/ children' = children
<1>1. ~Spend("meddle")
  <2>1. spent["meddle"] \in Nat
    BY DEF TypeInv, TypeOK, BudgetKinds
  <2>2. QED
    BY <2>1 DEF Spend
<1>2. CASE Minor
  BY <1>1, <1>2 DEF Minor, BeginGone, BeginFails, BeginReleased, RequeueDue, CheckCertificate,
     CheckConflicts, CheckBackends, EvaluationFails, ChooseCanary, StartProbe, FinishProbe,
     DeleteChildren, SkipChild, Resync, ChildSync, DeleteChild, Cluster, SetService, SetGateway,
     SetSecret, Tick, apiVars, vars
<1>3. CASE Major
  BY <1>3, RemoveShape, AddShape, StatusShape, CreateShape, RewriteShape
     DEF Major, Begin, CacheSync, Crash, PutChild, apiVars
<1>4. QED
  BY <1>2, <1>3, StepCases

LEMMA StepSpares ==
    ASSUME Budget["meddle"] = 0, NamesDistinct, AllInv, RoutesKnown, ChildrenNamed,
           [Next]_vars, pc = "cleanup", NEW id \in ChildIds, NEW r \in Routes,
           children[id] # Nil, children'[id] # children[id], Live(r)
    PROVE  routes[r].uid # children[id].uid
<1> SUFFICES ASSUME routes[r].uid = children[id].uid PROVE FALSE
  OBVIOUS
<1> USE DEF AllInv
<1>1. routes[r] # Nil /\ ~routes[r].deleting /\ ~routes[r].hold
  BY DEF Live, GuardInv, HoldDeletes
<1>2. ASSUME NEW x \in ChildIds, GarbageCollect(x) PROVE FALSE
  <2>1. x = id
    BY <1>2 DEF GarbageCollect, SetChildren, TypeInv, TypeOK
  <2>2. QED
    BY <1>1, <1>2, <2>1 DEF GarbageCollect
<1>3. CASE CleanupKind
  <2>1. id \in Listed(CrossKinds[job.step])
    BY <1>3 DEF CleanupKind, SetChildren
  <2>2. /\ job # Nil /\ job.key \in Routes /\ job.base.deleting
        /\ job.step \in 1 .. Len(CrossKinds)
    BY DEF TypeInv, TypeOK, JobInv, Jobs, GuardInv, WorkerInv, Deleting
  <2>3. /\ childCache[id] # Nil /\ childCache[id].label = job.key.name
        /\ id.kind = CrossKinds[job.step]
    BY <2>1 DEF Listed
  <2>4. ~Owned(id)
    BY <2>2, <2>3 DEF Owned, CrossKinds, ToSet
  <2>5. children[id].label = r.name
    BY <1>1 DEF CleanupInv, LabelsRight
  <2>6. r.name = job.key.name
    <3>1. NamedFor(id, r.name) /\ NamedFor(id, job.key.name)
      BY <2>3, <2>4, <2>5 DEF ChildrenNamed
    <3>2. QED
      BY <2>2, <3>1, NameUnique, KeyNames
  <2>7. r = job.key
    BY <2>2, <2>6 DEF NamesDistinct
  <2>8. routes[r].finalizer
    BY <1>1 DEF FinalizerInv, FinalizerFirst
  <2>9. routes[r].uid = job.base.uid
    BY <1>1, <2>2, <2>7, <2>8 DEF RoutesKnown
  <2>10. QED
    BY <1>1, <2>2, <2>7, <2>9 DEF GuardInv, DeletingKept
<1>4. QED
  BY <1>2, <1>3, CleanupChanges

\* Cleaning up after a deleted Route (cleanupOwnedResources), however stale the
\* caches of Routes and of children are, and whatever calls fail, takes nothing from
\* a live Route, as long as no two Routes have the same name: the label that the
\* cleanup looks for is a name without a namespace.  Children that somebody deletes
\* by hand meanwhile are not the doing of the cleanup and are excluded.
THEOREM CleanupSafety ==
    Budget["meddle"] = 0 /\ NamesDistinct => (Spec => CleanupSparesOthers)
<1> SUFFICES ASSUME Budget["meddle"] = 0, NamesDistinct PROVE Spec => CleanupSparesOthers
  OBVIOUS
<1>1. Init => RoutesKnown /\ ChildrenNamed
  BY DEF Init, RoutesKnown, ChildrenNamed
<1>2. AllInv /\ AllInv' /\ RoutesKnown /\ ChildrenNamed /\ [Next]_vars => RoutesKnown' /\ ChildrenNamed'
  BY StepKnown, StepNamed DEF AllInv
<1>3. AllInv /\ RoutesKnown /\ ChildrenNamed /\ [Next]_vars =>
        [ pc = "cleanup" =>
          \A id \in ChildIds :
             children[id] # Nil /\ children'[id] # children[id]
                => \A r \in Routes : Live(r) => routes[r].uid # children[id].uid ]_vars
  BY StepSpares
<1>4. QED
  BY <1>1, <1>2, <1>3, Invariance, PTL DEF Spec, CleanupSparesOthers

-----------------------------------------------------------------------------
(* A Route is Active only when its children are in place.                  *)

Before == {"finalize", "certificate", "conflicts", "backends", "canary", "probe"}

\* The operations up to job.step have been carried out: unless one of them failed
\* or the Route is being deleted, their children are still as they left them.
WorkDone ==
    job # Nil =>
        /\ pc \in Before => job.step = 1
        /\ /\ pc \in {"children", "status"} /\ job.verdict = "healthy" /\ ~job.failed
           /\ ~routes[job.key].deleting
           => \A k \in DOMAIN Plan : k < job.step => Done(Plan[k], job.base.uid)
        /\ pc = "status" /\ job.verdict = "healthy" => \A k \in DOMAIN Plan : k < job.step

\* What an operation has done stays done while its children stay as they are.
LEMMA DoneStays ==
    ASSUME NEW o, NEW uid, Writes(o), Done(o, uid),
           \A id \in Names(o) : children'[id] = children[id]
    PROVE  Done(o, uid)'
<1>1. CASE o.op = "put"
  <2>1. 1 \in DOMAIN o.ids
    BY <1>1 DEF Writes
  <2>2. o.ids[1] \in Names(o)
    BY <2>1 DEF Names
  <2>3. QED
    BY <1>1, <2>2 DEF Done
<1>2. CASE o.op = "delete"
  <2>1. \A i \in DOMAIN o.ids : o.ids[i] \in Names(o)
    BY DEF Names
  <2>2. QED
    BY <1>2, <2>1 DEF Done
<1>3. QED
  BY <1>1, <1>2 DEF Done

LEMMA OperationType ==
    ASSUME NEW r \in Routes, NEW s \in AllSpecs, NEW c \in {s.canary, Nil},
           NEW k \in DOMAIN childPlan(r, s, c)
    PROVE  childPlan(r, s, c)[k] \in Operations
BY DEF Operations

\* The plan of a job that is at its children.
LEMMA PlanFacts ==
    ASSUME TypeInv, job # Nil
    PROVE  /\ DOMAIN Plan = 1 .. Len(Plan) /\ Len(Plan) \in Nat
           /\ \A k \in DOMAIN Plan : Writes(Plan[k]) /\ Names(Plan[k]) \subseteq ChildIds
           /\ IndicesDiffer =>
                \A j, k \in DOMAIN Plan : j # k => Names(Plan[j]) \cap Names(Plan[k]) = {}
<1>1. /\ job.key \in Routes /\ job.base.spec \in AllSpecs
      /\ job.canary \in {job.base.spec.canary, Nil}
  BY DEF TypeInv, TypeOK, JobInv, Jobs, RouteObjects
<1>2. /\ Spread(Plan) /\ AllWrite(Plan) /\ DOMAIN Plan = 1 .. Len(Plan) /\ Len(Plan) \in Nat
  BY <1>1, PlanSpread DEF Plan
<1>3. \A k \in DOMAIN Plan : Plan[k] \in Operations
  BY <1>1, OperationType DEF Plan
<1>4. \A k \in DOMAIN Plan : Names(Plan[k]) \subseteq ChildIds
  BY <1>3 DEF ChildIds, Names
<1>5. \A k \in DOMAIN Plan : Writes(Plan[k])
  BY <1>2 DEF AllWrite
<1>6. IndicesDiffer => \A j, k \in DOMAIN Plan : j # k => Names(Plan[j]) \cap Names(Plan[k]) = {}
  BY <1>2 DEF Spread
<1>7. QED
  BY <1>2, <1>4, <1>5, <1>6

\* What Advance does to the local variables of Reconcile.
LEMMA AdvanceShape ==
    ASSUME TypeInv, pc = "children", NEW succeeded \in BOOLEAN, Advance(succeeded)
    PROVE  /\ job # Nil /\ job' # Nil
           /\ job'.key = job.key /\ job'.base = job.base /\ job'.canary = job.canary
           /\ job'.verdict = job.verdict
           /\ job.step \in Nat /\ job'.step = job.step + 1
           /\ job'.failed = (job.failed \/ ~succeeded)
           /\ Plan' = Plan
           /\ pc' = IF job.step + 1 \in DOMAIN Plan THEN "children" ELSE "status"
<1>1. job \in Jobs /\ job # Nil
  BY DEF TypeInv, TypeOK, JobInv
<1>2. PICK m, f : /\ f = (job.failed \/ ~succeeded)
                  /\ m = IF succeeded /\ Operation.op = "put" THEN job.managed + 1 ELSE job.managed
  OBVIOUS
<1>3. job' = [job EXCEPT !.step = job.step + 1, !.managed = m, !.failed = f]
  BY <1>2 DEF Advance
<1>4. /\ job'.key = job.key /\ job'.base = job.base /\ job'.canary = job.canary
      /\ job'.verdict = job.verdict
      /\ job.step \in Nat /\ job'.step = job.step + 1
      /\ job'.failed = f
  BY <1>1, <1>3 DEF Jobs
<1>5. job' # Nil
  BY AdvanceType, NilAssumption
<1>6. pc' = IF job.step + 1 \in DOMAIN Plan THEN "children" ELSE "status"
  BY DEF Advance
<1>7. Plan' = Plan
  BY <1>4 DEF Plan
<1>8. QED
  BY <1>1, <1>2, <1>4, <1>5, <1>6, <1>7

\* An operation adds to what has been done, and undoes nothing.
LEMMA AdvanceWork ==
    ASSUME IndicesDiffer, TypeInv, WorkDone, pc = "children", job.step \in DOMAIN Plan,
           NEW succeeded \in BOOLEAN, Advance(succeeded), UNCHANGED routes,
           NEW o, o = Operation, NEW uid, uid = job.base.uid, succeeded => Done(o, uid)',
           \A id \in ChildIds \ Names(o) : children'[id] = children[id]
    PROVE  WorkDone'
<1>1. /\ job # Nil /\ job'.key = job.key /\ job'.base = job.base
      /\ job'.verdict = job.verdict
      /\ job.step \in Nat /\ job'.step = job.step + 1
      /\ job'.failed = (job.failed \/ ~succeeded)
      /\ Plan' = Plan
      /\ pc' = IF job.step + 1 \in DOMAIN Plan THEN "children" ELSE "status"
  BY AdvanceShape
<1>2. PICK p : p = Plan
  OBVIOUS
<1>3. /\ DOMAIN p = 1 .. Len(p) /\ Len(p) \in Nat
      /\ \A k \in DOMAIN p : Writes(p[k]) /\ Names(p[k]) \subseteq ChildIds
      /\ \A j, k \in DOMAIN p : j # k => Names(p[j]) \cap Names(p[k]) = {}
  BY <1>1, <1>2, PlanFacts
<1>4. o = p[job.step] /\ job.step \in DOMAIN p
  BY <1>2 DEF Operation
<1>5. ASSUME job'.verdict = "healthy", ~job'.failed, ~routes'[job'.key].deleting,
             NEW k \in DOMAIN p, k < job'.step
      PROVE  Done(p[k], uid)'
  <2>1. succeeded /\ ~job.failed
    BY <1>1, <1>5
  <2>2. CASE k = job.step
    BY <1>4, <2>1, <2>2
  <2>3. CASE k < job.step
    <3>1. Done(p[k], uid)
      BY <1>1, <1>2, <1>5, <2>1, <2>3 DEF WorkDone
    <3>2. \A id \in Names(p[k]) : children'[id] = children[id]
      BY <1>3, <1>4, <2>3
    <3>3. QED
      BY <1>3, <3>1, <3>2, DoneStays
  <2>4. QED
    BY <1>1, <1>3, <1>5, <2>2, <2>3
<1>6. pc' = "status" => \A k \in DOMAIN p : k < job'.step
  BY <1>1, <1>2, <1>3, <1>4
<1>7. pc' \in {"children", "status"}
  BY <1>1
<1>8. \A k \in DOMAIN Plan' : k < job'.step
        => (job'.verdict = "healthy" /\ ~job'.failed /\ ~routes'[job'.key].deleting
            => Done(Plan[k], job.base.uid)')
  BY <1>1, <1>2, <1>5
<1>9. QED
  BY <1>1, <1>2, <1>6, <1>7, <1>8 DEF WorkDone, Before

\* The three kinds of operations.
LEMMA OperationsWork ==
    ASSUME IndicesDiffer, TypeInv, TypeInv', WorkDone,
           \/ \E out \in Outcomes : PutChild(out)
           \/ \E n \in 0 .. 2, succeeded \in BOOLEAN : DeleteChildren(n, succeeded)
           \/ SkipChild
    PROVE  WorkDone'
<1>0. children \in [ChildIds -> Objects \cup {Nil}]
  BY DEF TypeInv, TypeOK
<1>1. PICK o, uid : o = Operation /\ uid = job.base.uid
  OBVIOUS
<1>2. pc = "children" /\ job.step \in DOMAIN Plan /\ UNCHANGED routes
  BY DEF PutChild, DeleteChildren, SkipChild, apiVars
<1>3. job # Nil
  BY <1>2 DEF TypeInv, JobInv
<1>4. Writes(o) /\ Names(o) \subseteq ChildIds
  BY <1>1, <1>2, <1>3, PlanFacts DEF Operation
<1>5. ASSUME NEW out \in Outcomes, PutChild(out) PROVE WorkDone'
  <2> DEFINE x == o.ids[1]
             new == [uid |-> uid, label |-> job.key.name, body |-> o.body]
             ok == children[x] = childCache[x] /\ out = "ok"
  <2>1. /\ o.op = "put" /\ Advance(ok)
        /\ children' = children \/ children' = [children EXCEPT ![x] = new]
        /\ ok => children' = [children EXCEPT ![x] = new]
    BY <1>1, <1>5 DEF PutChild, SetChildren, Applied
  <2>2. x \in Names(o) /\ x \in ChildIds
    BY <1>4, <2>1 DEF Writes, Names
  <2>3. new \in Objects /\ new # Nil /\ new.uid = uid /\ new.body = o.body
    BY <1>1, <1>2, <1>3, ChildType, NilAssumption
  <2> HIDE DEF x, new
  <2>4. ok => Done(o, uid)'
    BY <1>0, <2>1, <2>2, <2>3 DEF Done, x
  <2>5. \A id \in ChildIds \ Names(o) : children'[id] = children[id]
    BY <1>0, <2>1, <2>2
  <2>6. ok \in BOOLEAN
    OBVIOUS
  <2> HIDE DEF ok
  <2>7. QED
    BY <1>1, <1>2, <2>1, <2>4, <2>5, <2>6, AdvanceWork
<1>6. ASSUME NEW n \in 0 .. 2, NEW succeeded \in BOOLEAN, DeleteChildren(n, succeeded)
      PROVE  WorkDone'
  <2>1. /\ o.op = "delete" /\ Advance(succeeded) /\ n \in 0 .. Len(o.ids)
        /\ succeeded => n = Len(o.ids)
        /\ children' = [id \in ChildIds |-> IF \E i \in 1 .. n : o.ids[i] = id THEN Nil ELSE children[id]]
    BY <1>1, <1>6 DEF DeleteChildren, SetChildren
  <2>2. DOMAIN o.ids = 1 .. Len(o.ids)
    BY <1>4 DEF Writes
  <2>3. succeeded => Done(o, uid)'
    BY <1>4, <2>1, <2>2 DEF Done, Names
  <2>4. \A id \in ChildIds \ Names(o) : children'[id] = children[id]
    BY <2>1, <2>2 DEF Names
  <2>5. QED
    BY <1>1, <1>2, <2>1, <2>3, <2>4, AdvanceWork
<1>7. CASE SkipChild
  <2>1. Advance(FALSE) /\ children' = children
    BY <1>7 DEF SkipChild, apiVars
  <2>2. QED
    BY <1>1, <1>2, <2>1, AdvanceWork
<1>8. QED
  BY <1>5, <1>6, <1>7

\* The evaluations come before the first operation.
LEMMA EvaluationsWork ==
    ASSUME TypeInv, TypeInv', WorkDone,
           CheckCertificate \/ CheckConflicts \/ CheckBackends \/ ChooseCanary \/ StartProbe
           \/ \E bad \in BOOLEAN : FinishProbe(bad)
    PROVE  WorkDone'
<1>1. job # Nil /\ job \in Jobs /\ pc \in Before
  BY DEF CheckCertificate, CheckConflicts, CheckBackends, ChooseCanary, StartProbe, FinishProbe,
         TypeInv, TypeOK, JobInv, Before
<1>2. job.step = 1
  BY <1>1 DEF WorkDone
<1>3. job'.step = job.step
  <2>1. CASE CheckCertificate
    BY <1>1, <2>1 DEF CheckCertificate, Jobs
  <2>2. CASE CheckConflicts \/ CheckBackends \/ ChooseCanary \/ StartProbe
    BY <1>1, <2>2 DEF CheckConflicts, CheckBackends, ChooseCanary, StartProbe, Jobs
  <2>3. CASE \E bad \in BOOLEAN : FinishProbe(bad)
    BY <1>1, <2>3 DEF FinishProbe, Jobs
  <2>4. QED
    BY <2>1, <2>2, <2>3
<1>4. pc' = "status" => job'.verdict # "healthy"
  <2>1. CASE CheckConflicts
    BY <1>1, <2>1 DEF CheckConflicts, Jobs
  <2>2. CASE CheckBackends
    BY <1>1, <2>2 DEF CheckBackends, Jobs
  <2>3. CASE CheckCertificate \/ ChooseCanary \/ StartProbe \/ \E bad \in BOOLEAN : FinishProbe(bad)
    BY <2>3 DEF CheckCertificate, ChooseCanary, StartProbe, FinishProbe
  <2>4. QED
    BY <2>1, <2>2, <2>3
<1>5. job' # Nil => \A k \in DOMAIN Plan' : ~(k < 1)
  <2>1. job' # Nil => DOMAIN Plan' = 1 .. Len(Plan') /\ Len(Plan') \in Nat
    <3>1. job' # Nil => /\ job'.key \in Routes /\ job'.base.spec \in AllSpecs
      BY DEF TypeInv, TypeOK, Jobs, RouteObjects
    <3>2. job' # Nil => /\ DOMAIN childPlan(job'.key, job'.base.spec, job'.canary)
                           = 1 .. Len(childPlan(job'.key, job'.base.spec, job'.canary))
                        /\ Len(childPlan(job'.key, job'.base.spec, job'.canary)) \in Nat
      BY <3>1, PlanSpread
    <3>3. Plan' = childPlan(job'.key, job'.base.spec, job'.canary)
      BY DEF Plan
    <3>4. QED
      BY <3>2, <3>3
  <2>2. QED
    BY <2>1
<1>6. QED
  BY <1>2, <1>3, <1>4, <1>5 DEF WorkDone

\* While Reconcile works, the Route it works for is there: so the garbage
\* collector leaves its children alone, unless it is being deleted.
LEMMA OthersWork ==
    ASSUME AllInv, AllInv', WorkDone, [Next]_vars, job' = job, pc' = pc,
           children' = children \/ \E id \in ChildIds : GarbageCollect(id)
    PROVE  WorkDone'
<1> USE DEF AllInv
<1>1. PICK p, uid : p = Plan /\ uid = job.base.uid
  OBVIOUS
<1>2. Plan' = Plan
  BY DEF Plan
<1>3. ASSUME job # Nil, pc \in {"children", "status"}, job.verdict = "healthy", ~job.failed,
             ~routes'[job.key].deleting, NEW k \in DOMAIN p, k < job.step
      PROVE  Done(p[k], uid)'
  <2>1. job \in Jobs /\ job.key \in Routes /\ job.base.finalizer /\ ~job.base.deleting
    BY <1>3 DEF TypeInv, TypeOK, JobInv, Jobs, Working, GuardInv, WorkerInv, Deleting
  <2>2. routes[job.key] # Nil /\ routes[job.key].uid = uid
    BY <1>1, <1>3, <2>1 DEF GuardInv, WorkGuarded, Held
  <2>3. routes'[job.key] # Nil
    BY <1>3, <2>1 DEF GuardInv, WorkGuarded, Held
  <2>4. ~routes[job.key].deleting
    <3>1. RouteFollows(job.key)
      BY <2>1, <2>3, RouteStep
    <3>2. QED
      BY <1>3, <2>2, <3>1 DEF RouteFollows
  <2>5. ~routes[job.key].hold
    BY <2>1, <2>2, <2>4 DEF GuardInv, HoldDeletes
  <2>6. Done(p[k], uid)
    BY <1>1, <1>3, <2>4 DEF WorkDone
  <2>7. Writes(p[k]) /\ Names(p[k]) \subseteq ChildIds
    BY <1>1, <1>3, PlanFacts
  <2>8. CASE children' = children
    BY <2>6, <2>7, <2>8, DoneStays
  <2>9. ASSUME NEW x \in ChildIds, GarbageCollect(x) PROVE Done(p[k], uid)'
    <3>1. /\ children' = [children EXCEPT ![x] = Nil]
          /\ children[x] # Nil /\ children[x].uid # uid
      BY <2>1, <2>2, <2>5, <2>9 DEF GarbageCollect, SetChildren
    <3>2. children \in [ChildIds -> Objects \cup {Nil}]
      BY DEF TypeInv, TypeOK
    <3>3. x \notin Names(p[k])
      <4>1. CASE p[k].op = "put"
        BY <2>6, <2>7, <3>1, <4>1 DEF Done, Writes, Names
      <4>2. CASE p[k].op = "delete"
        BY <2>6, <3>1, <4>2 DEF Done, Names
      <4>3. QED
        BY <2>6, <4>1, <4>2 DEF Done
    <3>4. \A id \in Names(p[k]) : children'[id] = children[id]
      BY <2>7, <3>1, <3>2, <3>3
    <3>5. QED
      BY <2>6, <2>7, <3>4, DoneStays
  <2>10. QED
    BY <2>8, <2>9
<1>4. job' # Nil =>
        (/\ pc' \in {"children", "status"} /\ job'.verdict = "healthy" /\ ~job'.failed
         /\ ~routes'[job'.key].deleting
         => \A k \in DOMAIN Plan' : k < job'.step => Done(Plan[k], job.base.uid)')
  BY <1>1, <1>2, <1>3
<1>5. QED
  BY <1>2, <1>4 DEF WorkDone

LEMMA StepWork ==
    ASSUME Budget["meddle"] = 0, IndicesDiffer, AllInv, AllInv', WorkDone, [Next]_vars
    PROVE  WorkDone'
<1> USE DEF AllInv
<1>0. ~Spend("meddle")
  <2>1. spent["meddle"] \in Nat
    BY DEF TypeInv, TypeOK, BudgetKinds
  <2>2. QED
    BY <2>1 DEF Spend
<1>1. CASE Minor
  <2>1. \/ job' = Nil
        \/ job' = job /\ pc' = pc /\ (children' = children \/ \E id \in ChildIds : GarbageCollect(id))
        \/ CheckCertificate \/ CheckConflicts \/ CheckBackends \/ ChooseCanary \/ StartProbe
        \/ (\E bad \in BOOLEAN : FinishProbe(bad))
        \/ (\E n \in 0 .. 2, succeeded \in BOOLEAN : DeleteChildren(n, succeeded))
        \/ SkipChild
    BY <1>0, <1>1 DEF Minor, BeginGone, BeginFails, BeginReleased, RequeueDue, EvaluationFails,
       ReturnRequeue, Resync, ChildSync, GarbageCollect, DeleteChild, Cluster, SetService, SetGateway,
       SetSecret, Tick, apiVars, workerVars, vars
  <2>2. CASE job' = Nil
    BY <2>2 DEF WorkDone
  <2>3. CASE job' = job /\ pc' = pc /\ (children' = children \/ \E id \in ChildIds : GarbageCollect(id))
    BY <2>3, OthersWork
  <2>4. CASE CheckCertificate \/ CheckConflicts \/ CheckBackends \/ ChooseCanary \/ StartProbe
             \/ \E bad \in BOOLEAN : FinishProbe(bad)
    BY <2>4, EvaluationsWork
  <2>5. CASE \/ (\E n \in 0 .. 2, succeeded \in BOOLEAN : DeleteChildren(n, succeeded))
             \/ SkipChild
    BY <2>5, OperationsWork
  <2>6. QED
    BY <2>1, <2>2, <2>3, <2>4, <2>5
<1>2. ASSUME NEW r \in Routes, Begin(r) PROVE WorkDone'
  <2>1. pc' \notin {"children", "status"} /\ job'.step = 1
    BY <1>2 DEF Begin, FirstStep, NewJob
  <2>2. QED
    BY <2>1 DEF WorkDone
<1>3. CASE CleanupKind
  <2>1. pc' \in Deleting
    BY <1>3 DEF CleanupKind, Deleting
  <2>2. QED
    BY <2>1 DEF WorkDone, Deleting, Before
<1>4. ASSUME NEW out \in Outcomes, PutChild(out) PROVE WorkDone'
  BY <1>4, OperationsWork
<1>5. ASSUME NEW out \in Outcomes, WriteStatus(out) \/ RemoveFinalizer(out) PROVE WorkDone'
  <2>1. job' = Nil
    BY <1>5, StatusShape, RemoveShape
  <2>2. QED
    BY <2>1 DEF WorkDone
<1>6. ASSUME NEW out \in Outcomes, AddFinalizer(out) PROVE WorkDone'
  <2>1. job \in Jobs /\ job # Nil /\ pc = "finalize"
    BY <1>6, AddShape, NilAssumption DEF AddFinalizer
  <2>2. job' = Nil \/ \E new : job' = [job EXCEPT !.base = new] /\ pc' = "certificate"
    BY <1>6 DEF AddFinalizer, ReturnRequeue
  <2>3. job' = Nil \/ (job'.step = job.step /\ pc' = "certificate")
    BY <2>1, <2>2 DEF Jobs
  <2>4. job.step = 1
    BY <2>1 DEF WorkDone, Before
  <2>5. QED
    BY <2>3, <2>4 DEF WorkDone
<1>7. CASE Crash
  BY <1>7 DEF Crash, WorkDone
<1>8. ASSUME \/ CacheSync
             \/ \E r \in Routes, spec \in Specs : CreateRoute(r, spec)
             \/ \E r \in Routes : Rewrites(r)
      PROVE  WorkDone'
  <2>1. job' = job /\ pc' = pc /\ children' = children
    BY <1>8, CreateShape, RewriteShape DEF CacheSync, apiVars
  <2>2. QED
    BY <2>1, OthersWork
<1>9. QED
  BY <1>1, <1>2, <1>3, <1>4, <1>5, <1>6, <1>7, <1>8, StepCases DEF Major

\* The status that says Active is written where all operations have been carried out.
LEMMA StepActive ==
    ASSUME AllInv, AllInv', WorkDone, [Next]_vars, NEW r \in Routes, routes[r] # Nil, routes'[r] # Nil,
           routes'[r].status # routes[r].status, routes'[r].status.phase = "Active"
    PROVE  InSync(r, job.canary)
<1> USE DEF AllInv
<1>1. /\ pc = "status" /\ job.key = r /\ routes[r] = job.base
      /\ routes'[r].status = NewStatus(job)
  <2>1. RouteFollows(r)
    BY RouteStep
  <2>2. QED
    BY <2>1 DEF RouteFollows
<1>2. job # Nil /\ job \in Jobs /\ ~job.base.deleting
  BY <1>1 DEF TypeInv, TypeOK, JobInv, GuardInv, WorkerInv, Deleting
<1>3. Phase(job) = "Active"
  BY <1>1 DEF NewStatus
<1>4. job.verdict = "healthy" /\ ~job.failed
  BY <1>2, <1>3 DEF Phase, Jobs, Verdicts
<1>5. \A k \in DOMAIN Plan : Done(Plan[k], job.base.uid)
  BY <1>1, <1>2, <1>4 DEF WorkDone
<1>6. QED
  BY <1>1, <1>5 DEF InSync, Plan

\* A status says Active only when, at that moment, all the children of the Route
\* are the ones that the specification in the API server asks for, whatever calls
\* failed or were lost, and whatever stale cache was read before.  It takes that
\* nobody deletes a child by hand between its write and that of the status, and that
\* the numbers in the names of the children are written differently.
THEOREM ActiveSafety ==
    Budget["meddle"] = 0 /\ IndicesDiffer => (Spec => ActiveIsTrue)
<1> SUFFICES ASSUME Budget["meddle"] = 0, IndicesDiffer PROVE Spec => ActiveIsTrue
  OBVIOUS
<1>1. Init => WorkDone
  BY DEF Init, WorkDone
<1>2. AllInv /\ AllInv' /\ WorkDone /\ [Next]_vars => WorkDone'
  BY StepWork
<1>3. AllInv /\ AllInv' /\ WorkDone /\ [Next]_vars =>
        [ \A r \in Routes :
            /\ routes[r] # Nil
            /\ routes'[r] # Nil
            /\ routes'[r].status # routes[r].status
            /\ routes'[r].status.phase = "Active"
            => InSync(r, job.canary) ]_vars
  BY StepActive
<1>4. QED
  BY <1>1, <1>2, <1>3, Invariance, PTL DEF Spec, ActiveIsTrue

=============================================================================

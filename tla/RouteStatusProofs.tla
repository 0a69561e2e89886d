------------------------- MODULE RouteStatusProofs -------------------------
(***************************************************************************)
(* What the status and the metrics of a Route say, for any set of Routes   *)
(* and specifications, any interleaving and any faults.                    *)
(*                                                                         *)
(* Ready and Synced are two calls of setCondition, each of which leaves    *)
(* its condition alone as long as status and reason stay.  They speak of   *)
(* one generation because their reasons come in pairs: both change or      *)
(* neither does.                                                           *)
(***************************************************************************)
EXTENDS RouteRefinementProofs

\* The reasons that Synced and Ready have together.
ReasonPairs ==
    { <<"RouteConflict", "RouteConflict">>, <<"BackendServiceMissing", "BackendServiceMissing">>,
      <<"BackendNoEndpoints", "BackendNoEndpoints">>, <<"ReconcileError", "NotReady">>,
      <<"ReconcileSuccess", "Available">> }

\* A pair of conditions, for an object of generation gen: both are there and
\* were set together, to what their reasons say.
Paired(synced, ready, gen) ==
    /\ synced # Nil /\ ready # Nil
    /\ <<synced.reason, ready.reason>> \in ReasonPairs
    /\ synced.status <=> synced.reason = "ReconcileSuccess"
    /\ ready.status <=> synced.reason = "ReconcileSuccess"
    /\ synced.gen = ready.gen
    /\ synced.gen <= gen

\* A status that was never written has neither; a written one has both.
Agrees(status, gen) ==
    LET synced == status.conditions["Synced"]
        ready  == status.conditions["Ready"]
    IN  \/ status.phase = "" /\ synced = Nil /\ ready = Nil
        \/ /\ Paired(synced, ready, gen)
           /\ status.phase = "Active" <=> synced.reason = "ReconcileSuccess"

\* So it is at the API server, in the cache, and in what Reconcile works on,
\* which changes no condition but CertificateHealthy on its way.
StatusesAgree ==
    /\ \A r \in Routes : routes[r] # Nil => Agrees(routes[r].status, routes[r].gen)
    /\ \A r \in Routes : cache[r] # Nil => Agrees(cache[r].status, cache[r].gen)
    /\ job # Nil =>
         /\ Agrees(job.base.status, job.base.gen)
         /\ job.conditions["Synced"] = job.base.status.conditions["Synced"]
         /\ job.conditions["Ready"] = job.base.status.conditions["Ready"]

-----------------------------------------------------------------------------
(* The status that is about to be written.                                 *)

\* The three ways to fill in the status choose a pair of reasons.
LEMMA ReasonsPaired ==
    ASSUME NEW j \in Jobs
    PROVE  /\ <<SyncedReason(j), ReadyReason(j)>> \in ReasonPairs
           /\ Phase(j) \in phaseValues
           /\ Phase(j) = "Active" <=> SyncedReason(j) = "ReconcileSuccess"
           /\ SyncedReason(j) \in {"ReconcileSuccess", "ReconcileError"} <=> j.verdict = "healthy"
<1>1. j.verdict \in Verdicts /\ j.failed \in BOOLEAN
  BY DEF Jobs
<1>2. QED
  BY <1>1 DEF SyncedReason, ReadyReason, Phase, ReasonPairs, phaseValues, Verdicts

\* One call of setCondition.
LEMMA ConditionSet ==
    ASSUME NEW c \in Conditions, NEW t \in ConditionTypes, NEW b \in BOOLEAN,
           NEW reason \in Reasons, NEW g \in Nat
    PROVE  /\ \A u \in ConditionTypes : u # t => setCondition(c, t, b, reason, g)[u] = c[u]
           /\ LET d == setCondition(c, t, b, reason, g)[t]
              IN  /\ d # Nil => d.status = b /\ d.reason = reason
                  /\ d # Nil
                  /\ IF c[t] # Nil /\ c[t].status = b /\ c[t].reason = reason
                     THEN d = c[t] ELSE d.gen = g
<1> DEFINE new == [status |-> b, reason |-> reason, gen |-> g]
           d == setCondition(c, t, b, reason, g)
<1>1. new # Nil /\ new.status = b /\ new.reason = reason /\ new.gen = g
  BY NilAssumption
<1>2. IF c[t] # Nil /\ c[t].status = b /\ c[t].reason = reason
      THEN d = c ELSE d = [c EXCEPT ![t] = new]
  BY DEF setCondition
<1> HIDE DEF new, d
<1>3. \A u \in ConditionTypes : u # t => d[u] = c[u]
  BY <1>2 DEF Conditions
<1>4. IF c[t] # Nil /\ c[t].status = b /\ c[t].reason = reason
      THEN d[t] = c[t] ELSE d[t] = new
  BY <1>2 DEF Conditions
<1>5. QED
  BY <1>1, <1>3, <1>4 DEF d

\* What NewStatus makes of a pair of conditions is a pair again.
LEMMA NewStatusAgrees ==
    ASSUME NEW j \in Jobs, Agrees(j.base.status, j.base.gen),
           j.conditions["Synced"] = j.base.status.conditions["Synced"],
           j.conditions["Ready"] = j.base.status.conditions["Ready"]
    PROVE  /\ Agrees(NewStatus(j), j.base.gen)
           /\ NewStatus(j).phase \in phaseValues
           /\ NewStatus(j).conditions["Synced"].reason = SyncedReason(j)
<1> DEFINE good == Phase(j) = "Active"
           one == setCondition(j.conditions, "Synced", good, SyncedReason(j), j.base.gen)
           two == setCondition(one, "Ready", good, ReadyReason(j), j.base.gen)
           a == j.conditions["Synced"]
           b == j.conditions["Ready"]
<1>1. j.conditions \in Conditions /\ j.base.gen \in Nat /\ good \in BOOLEAN
  BY DEF Jobs, RouteObjects
<1>2. SyncedReason(j) \in Reasons /\ ReadyReason(j) \in Reasons
  BY ReasonsPaired DEF ReasonPairs, Reasons
<1>3. "Synced" \in ConditionTypes /\ "Ready" \in ConditionTypes
  BY DEF ConditionTypes
<1>4. one \in Conditions
  BY <1>1, <1>2, <1>3, SetConditionType
<1> HIDE DEF good
<1>5. /\ one["Ready"] = b
      /\ one["Synced"] # Nil /\ one["Synced"].status = good /\ one["Synced"].reason = SyncedReason(j)
      /\ IF a # Nil /\ a.status = good /\ a.reason = SyncedReason(j)
         THEN one["Synced"] = a ELSE one["Synced"].gen = j.base.gen
  BY <1>1, <1>2, <1>3, ConditionSet
<1> HIDE DEF one
<1>6. /\ two["Synced"] = one["Synced"]
      /\ two["Ready"] # Nil /\ two["Ready"].status = good /\ two["Ready"].reason = ReadyReason(j)
      /\ IF b # Nil /\ b.status = good /\ b.reason = ReadyReason(j)
         THEN two["Ready"] = b ELSE two["Ready"].gen = j.base.gen
  <2>1. good \in BOOLEAN
    BY DEF good
  <2>2. QED
    BY <1>1, <1>2, <1>3, <1>4, <1>5, <2>1, ConditionSet
<1>7. /\ NewStatus(j).phase = Phase(j)
      /\ NewStatus(j).conditions["Synced"] = two["Synced"]
      /\ NewStatus(j).conditions["Ready"] = two["Ready"]
  BY DEF NewStatus, good, one
<1> HIDE DEF two
<1>8. /\ <<SyncedReason(j), ReadyReason(j)>> \in ReasonPairs
      /\ good <=> SyncedReason(j) = "ReconcileSuccess"
      /\ Phase(j) \in phaseValues
      /\ Phase(j) = "Active" <=> SyncedReason(j) = "ReconcileSuccess"
  BY ReasonsPaired DEF good
<1>9. CASE a = Nil
  <2>1. b = Nil
    BY <1>9 DEF Agrees, Paired
  <2>2. two["Synced"].gen = j.base.gen /\ two["Ready"].gen = j.base.gen
    BY <1>5, <1>6, <1>9, <2>1
  <2>3. Paired(two["Synced"], two["Ready"], j.base.gen)
    BY <1>1, <1>5, <1>6, <1>8, <2>2 DEF Paired
  <2>4. QED
    BY <1>5, <1>6, <1>7, <1>8, <2>3 DEF Agrees
<1>10. CASE a # Nil
  <2>1. Paired(a, b, j.base.gen)
    BY <1>10 DEF Agrees
  <2>2. a.status = good /\ a.reason = SyncedReason(j) <=> a.reason = SyncedReason(j)
    <3>1. a.status \in BOOLEAN
      BY <1>1, <1>3, <1>10 DEF Conditions
    <3>2. QED
      BY <1>1, <1>8, <2>1, <3>1 DEF Paired
  <2>3. b.status = good /\ b.reason = ReadyReason(j) <=> a.reason = SyncedReason(j)
    <3>1. b.status \in BOOLEAN
      BY <1>1, <1>3, <2>1 DEF Conditions, Paired
    <3>2. b.reason = ReadyReason(j) <=> a.reason = SyncedReason(j)
      BY <1>8, <2>1 DEF Paired, ReasonPairs
    <3>3. QED
      BY <1>1, <1>8, <2>1, <3>1, <3>2 DEF Paired
  <2>4. two["Synced"].gen = two["Ready"].gen /\ two["Synced"].gen <= j.base.gen
    BY <1>1, <1>5, <1>6, <1>10, <2>1, <2>2, <2>3 DEF Paired
  <2>5. Paired(two["Synced"], two["Ready"], j.base.gen)
    BY <1>5, <1>6, <1>8, <2>4 DEF Paired
  <2>6. QED
    BY <1>5, <1>6, <1>7, <1>8, <2>5 DEF Agrees
<1>11. QED
  BY <1>9, <1>10

-----------------------------------------------------------------------------
(* Every step keeps the conditions in agreement.                           *)

\* A later generation does no harm.
LEMMA AgreesLater ==
    ASSUME NEW s \in Statuses, NEW g \in Nat, NEW h \in Nat, h >= g, Agrees(s, g)
    PROVE  Agrees(s, h)
<1>1. s.conditions["Synced"] # Nil => s.conditions["Synced"].gen \in Nat
  BY DEF Statuses, Conditions, ConditionTypes
<1>2. \A n \in Nat : n <= g => n <= h
  OBVIOUS
<1>3. QED
  BY <1>1, <1>2, Zenon DEF Agrees, Paired

\* Until it writes the status, Reconcile keeps the object and the two conditions.
LEMMA ConditionsCarried ==
    ASSUME TypeInv, TypeInv', Minor \/ CleanupKind \/ \E out \in Outcomes : PutChild(out)
    PROVE  job' # Nil =>
             /\ job # Nil
             /\ job'.base = job.base
             /\ job'.conditions["Synced"] = job.conditions["Synced"]
             /\ job'.conditions["Ready"] = job.conditions["Ready"]
<1> DEFINE Goal == job' # Nil =>
             /\ job # Nil
             /\ job'.base = job.base
             /\ job'.conditions["Synced"] = job.conditions["Synced"]
             /\ job'.conditions["Ready"] = job.conditions["Ready"]
<1>1. CASE \/ \E r \in Routes : BeginGone(r) \/ BeginFails(r) \/ BeginReleased(r) \/ RequeueDue(r)
           \/ Resync \/ ChildSync
           \/ \E id \in ChildIds : GarbageCollect(id) \/ DeleteChild(id)
           \/ Cluster \/ Tick
           \/ UNCHANGED vars
  <2>1. job' = job
    BY <1>1 DEF BeginGone, BeginFails, BeginReleased, RequeueDue, Resync, ChildSync, GarbageCollect,
                DeleteChild, Cluster, SetService, SetGateway, SetSecret, Tick, workerVars, vars
  <2>2. QED
    BY <2>1
<1>2. CASE EvaluationFails
  BY <1>2 DEF EvaluationFails, ReturnRequeue
<1>3. ASSUME \/ CheckCertificate \/ CheckConflicts \/ CheckBackends \/ ChooseCanary \/ StartProbe
             \/ (\E bad \in BOOLEAN : FinishProbe(bad)) \/ SkipChild
             \/ (\E n \in 0 .. 2, succeeded \in BOOLEAN : DeleteChildren(n, succeeded))
             \/ CleanupKind \/ \E out \in Outcomes : PutChild(out)
      PROVE  Goal
  <2>1. job \in Jobs /\ job # Nil
    BY <1>3 DEF CheckCertificate, CheckConflicts, CheckBackends, ChooseCanary, StartProbe, FinishProbe,
                SkipChild, DeleteChildren, CleanupKind, PutChild, TypeInv, TypeOK, JobInv
  <2>2. CASE CheckCertificate
    <3>1. PICK reason : job' = [job EXCEPT !.conditions =
            setCondition(@, "CertificateHealthy", reason \in CertificateOK, reason, job.base.gen)]
      BY <2>2 DEF CheckCertificate
    <3>2. job'.base = job.base
      BY <2>1, <3>1 DEF Jobs
    <3>3. job'.conditions
            = setCondition(job.conditions, "CertificateHealthy", reason \in CertificateOK, reason, job.base.gen)
      BY <2>1, <3>1 DEF Jobs
    <3>4. job.conditions \in Conditions
      BY <2>1 DEF Jobs
    <3>5. \A t \in {"Synced", "Ready"} : job'.conditions[t] = job.conditions[t]
      BY <3>3, <3>4 DEF setCondition, Conditions, ConditionTypes
    <3>6. QED
      BY <2>1, <3>2, <3>5
  <2>3. CASE CheckConflicts \/ CheckBackends \/ ChooseCanary \/ StartProbe
    BY <2>1, <2>3 DEF CheckConflicts, CheckBackends, ChooseCanary, StartProbe, Jobs
  <2>4. CASE \E bad \in BOOLEAN : FinishProbe(bad)
    BY <2>1, <2>4 DEF FinishProbe, Jobs
  <2>5. CASE \/ SkipChild
             \/ (\E n \in 0 .. 2, succeeded \in BOOLEAN : DeleteChildren(n, succeeded))
             \/ \E out \in Outcomes : PutChild(out)
    BY <2>1, <2>5 DEF SkipChild, DeleteChildren, PutChild, Advance, Jobs
  <2>6. CASE CleanupKind
    BY <2>1, <2>6 DEF CleanupKind, Jobs
  <2>7. QED
    BY <1>3, <2>2, <2>3, <2>4, <2>5, <2>6
<1>4. QED
  BY <1>1, <1>2, <1>3 DEF Minor

\* A Route is written: what is written agrees, and Reconcile does not work on
\* anything else than before.
LEMMA WriteAgrees ==
    ASSUME TypeInv, StatusesAgree, NEW r \in Routes, NEW new \in RouteObjects \cup {Nil},
           routes' = [routes EXCEPT ![r] = new], cache' = cache, job' \in {job, Nil},
           new # Nil => Agrees(new.status, new.gen)
    PROVE  StatusesAgree'
<1>1. routes'[r] = new /\ \A q \in Routes : q # r => routes'[q] = routes[q]
  BY DEF TypeInv, TypeOK
<1>2. QED
  BY <1>1 DEF StatusesAgree

LEMMA StepAgrees ==
    ASSUME TypeInv, TypeInv', StatusesAgree, [Next]_vars
    PROVE  StatusesAgree'
<1>1. CASE Minor \/ CleanupKind \/ \E out \in Outcomes : PutChild(out)
  <2>1. UNCHANGED <<routes, cache>>
    BY <1>1, MinorSteps, PutShape DEF ChildrenGo, CleanupKind
  <2>2. QED
    BY <1>1, <2>1, ConditionsCarried DEF StatusesAgree
<1>2. ASSUME NEW r \in Routes, Begin(r) PROVE StatusesAgree'
  <2>1. /\ cache[r] # Nil /\ UNCHANGED <<routes, cache>>
        /\ job'.base = cache[r] /\ job'.conditions = cache[r].status.conditions
    BY <1>2 DEF Begin, NewJob, apiVars
  <2>2. QED
    BY <2>1 DEF StatusesAgree
<1>3. ASSUME NEW out \in Outcomes, WriteStatus(out) PROVE StatusesAgree'
  <2>1. job \in Jobs /\ job # Nil /\ job.key \in Routes /\ job' = Nil /\ cache' = cache
    BY <1>3, StatusShape, NilAssumption
  <2>2. Agrees(NewStatus(job), job.base.gen)
    BY <2>1, NewStatusAgrees DEF StatusesAgree
  <2>3. CASE routes' = routes
    BY <2>1, <2>3 DEF StatusesAgree
  <2>4. CASE routes' # routes
    <3>1. PICK new \in RouteObjects :
            /\ routes' = [routes EXCEPT ![job.key] = new]
            /\ new.status = NewStatus(job) /\ new.gen = job.base.gen
      BY <1>3, <2>4, StatusShape
    <3>2. QED
      BY <2>1, <2>2, <3>1, WriteAgrees
  <2>5. QED
    BY <2>3, <2>4
<1>4. ASSUME NEW out \in Outcomes, RemoveFinalizer(out) PROVE StatusesAgree'
  <2>1. job # Nil /\ job.key \in Routes /\ job' = Nil /\ cache' = cache
    BY <1>4, RemoveShape, NilAssumption
  <2>2. CASE routes' = routes
    BY <2>1, <2>2 DEF StatusesAgree
  <2>3. CASE routes' # routes
    <3>1. PICK new \in RouteObjects \cup {Nil} :
            /\ routes' = [routes EXCEPT ![job.key] = new]
            /\ new # Nil => new.status = job.base.status /\ new.gen = job.base.gen
      BY <1>4, <2>3, RemoveShape
    <3>2. Agrees(job.base.status, job.base.gen)
      BY <2>1 DEF StatusesAgree
    <3>3. QED
      BY <2>1, <3>1, <3>2, WriteAgrees
  <2>4. QED
    BY <2>2, <2>3
<1>5. ASSUME NEW out \in Outcomes, AddFinalizer(out) PROVE StatusesAgree'
  <2>1. job \in Jobs /\ job # Nil /\ job.key \in Routes /\ cache' = cache
    BY <1>5, AddShape, NilAssumption
  <2>2. Agrees(job.base.status, job.base.gen)
    BY <2>1 DEF StatusesAgree
  <2>3. CASE routes' = routes /\ job' = Nil
    BY <2>1, <2>3 DEF StatusesAgree
  <2>4. CASE ~(routes' = routes /\ job' = Nil)
    <3>1. PICK new \in RouteObjects :
            /\ routes' = [routes EXCEPT ![job.key] = new]
            /\ job' = Nil \/ job' = [job EXCEPT !.base = new]
            /\ new.status = job.base.status /\ new.gen = job.base.gen
      BY <1>5, <2>4, AddShape
    <3>2. CASE job' = Nil
      BY <2>1, <2>2, <3>1, <3>2, WriteAgrees
    <3>3. CASE job' = [job EXCEPT !.base = new]
      <4>1. job'.base = new /\ job'.conditions = job.conditions
        BY <2>1, <3>3 DEF Jobs
      <4>2. routes'[job.key] = new /\ \A q \in Routes : q # job.key => routes'[q] = routes[q]
        BY <3>1 DEF TypeInv, TypeOK
      <4>3. QED
        BY <2>1, <2>2, <3>1, <4>1, <4>2 DEF StatusesAgree
    <3>4. QED
      BY <3>1, <3>2, <3>3
  <2>5. QED
    BY <2>3, <2>4
<1>6. CASE CacheSync \/ Crash
  BY <1>6 DEF CacheSync, Crash, apiVars, StatusesAgree
<1>7. ASSUME NEW r \in Routes, NEW spec \in Specs, CreateRoute(r, spec) PROVE StatusesAgree'
  <2>1. UNCHANGED <<cache, job>>
    BY <1>7, CreateShape
  <2>2. PICK new \in RouteObjects : routes' = [routes EXCEPT ![r] = new] /\ new.status = NoStatus
    BY <1>7, CreateShape
  <2>3. Agrees(NoStatus, new.gen)
    BY DEF Agrees, NoStatus, ConditionTypes
  <2>4. QED
    BY <2>1, <2>2, <2>3, WriteAgrees
<1>8. ASSUME NEW r \in Routes, Rewrites(r) PROVE StatusesAgree'
  <2>1. UNCHANGED <<cache, job>> /\ routes[r] \in RouteObjects /\ routes[r] # Nil
    BY <1>8, RewriteShape, NilAssumption
  <2>2. PICK new \in RouteObjects \cup {Nil} :
          /\ routes' = [routes EXCEPT ![r] = new]
          /\ new # Nil => new.status = routes[r].status /\ new.gen >= routes[r].gen
    BY <1>8, RewriteShape
  <2>3. new # Nil => Agrees(new.status, new.gen)
    <3> SUFFICES ASSUME new # Nil PROVE Agrees(new.status, new.gen)
      OBVIOUS
    <3>1. routes[r].status \in Statuses /\ routes[r].gen \in Nat /\ new.gen \in Nat
      BY <2>1 DEF RouteObjects
    <3>2. Agrees(routes[r].status, routes[r].gen)
      BY <2>1 DEF StatusesAgree
    <3>3. QED
      BY <2>2, <3>1, <3>2, AgreesLater
  <2>4. QED
    BY <2>1, <2>2, <2>3, WriteAgrees
<1>9. QED
  BY <1>1, <1>2, <1>3, <1>4, <1>5, <1>6, <1>7, <1>8, StepCases DEF Major

\* Ready, Synced and the phase never contradict each other and speak of one
\* generation, whatever is read late, retried, refused or lost in between.
THEOREM ConditionSafety == Spec => []ConditionsAgree
<1>1. Init => StatusesAgree
  BY DEF Init, StatusesAgree
<1>2. AllInv /\ AllInv' /\ StatusesAgree /\ [Next]_vars => StatusesAgree'
  BY StepAgrees DEF AllInv
<1>3. AllInv /\ StatusesAgree => ConditionsAgree
  <2> SUFFICES ASSUME AllInv, StatusesAgree, NEW r \in Routes,
                      routes[r] # Nil, routes[r].status.phase # ""
               PROVE  LET ready  == routes[r].status.conditions["Ready"]
                          synced == routes[r].status.conditions["Synced"]
                      IN  /\ ready # Nil /\ synced # Nil
                          /\ ready.status = (routes[r].status.phase = "Active")
                          /\ synced.status = ready.status
                          /\ synced.gen = ready.gen
                          /\ synced.gen <= routes[r].gen
    BY DEF ConditionsAgree
  <2> DEFINE ready  == routes[r].status.conditions["Ready"]
             synced == routes[r].status.conditions["Synced"]
  <2>1. /\ Paired(synced, ready, routes[r].gen)
        /\ routes[r].status.phase = "Active" <=> synced.reason = "ReconcileSuccess"
    BY DEF StatusesAgree, Agrees
  <2>2. ready.status \in BOOLEAN /\ synced.status \in BOOLEAN
    BY <2>1 DEF AllInv, TypeInv, TypeOK, RouteObjects, Statuses, Conditions, ConditionTypes, Paired
  <2> HIDE DEF ready, synced
  <2>3. /\ ready.status = (routes[r].status.phase = "Active")
        /\ synced.status = ready.status
    BY <2>1, <2>2 DEF Paired
  <2>4. QED
    BY <2>1, <2>3 DEF Paired, ready, synced
<1>4. QED
  BY <1>1, <1>2, <1>3, Invariance, PTL DEF Spec

-----------------------------------------------------------------------------
(* The metrics.                                                            *)

\* The gauges say what the status says.
Shows(g, status) ==
    /\ {p \in DOMAIN g.phase : g.phase[p] = 1} = {status.phase}
    /\ (g.health["healthy"] = 1) = (status.conditions["Synced"].reason
                                       \in {"ReconcileSuccess", "ReconcileError"})
    /\ g.managed = status.managed

\* Reconcile will look at the Route once more: it is queued or delayed, it is
\* being worked on, or the cache will wake it.
Due(r) ==
    \/ r \in queue \cup delayed
    \/ job # Nil /\ job.key = r
    \/ cache[r] # routes[r]

\* The metrics of a live Route are right, or will be looked at.
GaugesDue ==
    \A r \in Routes : Live(r) => Due(r) \/ (gauges[r] # Nil /\ Shows(gauges[r], routes[r].status))

\* The cache is never ahead of the API server.
GensFollow ==
    \A r \in Routes :
        routes[r] # Nil /\ cache[r] # Nil /\ cache[r].uid = routes[r].uid
            => cache[r].gen <= routes[r].gen

\* Where no call fails, the metrics are always right, and gone with the finalizer.
GaugesRight ==
    \A r \in Routes : gauges[r] # Nil =>
        routes[r] # Nil /\ routes[r].finalizer /\ Shows(gauges[r], routes[r].status)

LEMMA MetricsAreShown ==
    ASSUME NEW r \in Routes
    PROVE  MetricsAgree(r) <=> Shows(gauges[r], routes[r].status)
BY DEF MetricsAgree, Shows

\* The metrics that go with a status show it.
LEMMA NewMetricsShow ==
    ASSUME NEW j \in Jobs, NEW status, status.phase \in phaseValues, status.managed \in Nat,
           status.conditions["Synced"].reason = SyncedReason(j)
    PROVE  /\ RouteMetrics(status.phase, j.verdict, status.managed) # Nil
           /\ Shows(RouteMetrics(status.phase, j.verdict, status.managed), status)
<1> DEFINE g == RouteMetrics(status.phase, j.verdict, status.managed)
<1>1. /\ g.phase = [v \in phaseValues |-> IF v = status.phase THEN 1 ELSE 0]
      /\ g.health = [v \in backendStates |-> IF v = j.verdict THEN 1 ELSE 0]
      /\ g.managed = status.managed
  BY DEF RouteMetrics, OneHot
<1>2. g \in Gauges
  BY <1>1 DEF RouteMetrics, OneHot, Gauges
<1> HIDE DEF g
<1>3. {p \in DOMAIN g.phase : g.phase[p] = 1} = {status.phase}
  BY <1>1
<1>4. g.health["healthy"] = 1 <=> j.verdict = "healthy"
  BY <1>1 DEF backendStates
<1>5. j.verdict = "healthy" <=>
        status.conditions["Synced"].reason \in {"ReconcileSuccess", "ReconcileError"}
  BY ReasonsPaired
<1>6. (g.health["healthy"] = 1) =
        (status.conditions["Synced"].reason \in {"ReconcileSuccess", "ReconcileError"})
  BY <1>4, <1>5
<1>7. g # Nil
  BY <1>2, NilAssumption
<1>8. QED
  BY <1>1, <1>3, <1>6, <1>7 DEF Shows, g

\* The three ends of a Reconcile that writes a status: refused, applied with
\* the answer lost, or applied; only then are the metrics set, and otherwise the
\* Route comes back.
LEMMA StatusMetrics ==
    ASSUME TypeInv, StatusesAgree, NEW out \in Outcomes, WriteStatus(out)
    PROVE  /\ job \in Jobs /\ job # Nil /\ job.key \in Routes /\ job' = Nil
           /\ job.base.finalizer
           /\ cache' = cache /\ queue' = queue /\ delayed \subseteq delayed'
           /\ \/ routes' = routes /\ gauges' = gauges /\ job.key \in delayed'
              \/ \E new \in RouteObjects :
                   /\ routes' = [routes EXCEPT ![job.key] = new]
                   /\ new.finalizer = job.base.finalizer
                   /\ \/ out = "lost" /\ gauges' = gauges /\ job.key \in delayed'
                      \/ /\ out = "ok"
                         /\ \A q \in Routes : q # job.key => gauges'[q] = gauges[q]
                         /\ gauges'[job.key] # Nil
                         /\ Shows(gauges'[job.key], new.status)
<1>1. /\ job \in Jobs /\ job # Nil /\ job.key \in Routes /\ job.base \in RouteObjects
      /\ job' = Nil /\ cache' = cache
  BY StatusShape, NilAssumption
<1>2. job.base.finalizer
  BY <1>1 DEF WriteStatus, TypeInv, JobInv, Working
<1>3. queue' = queue /\ delayed \subseteq delayed'
  BY DEF WriteStatus, AfterStatus, Return, ReturnRequeue
<1> DEFINE status == NewStatus(job)
           new == [job.base EXCEPT !.status = status]
<1>4. /\ status.phase \in phaseValues
      /\ status.conditions["Synced"].reason = SyncedReason(job)
  BY <1>1, NewStatusAgrees DEF StatusesAgree
<1>5. status \in Statuses
  BY <1>1, NewStatusType
<1>6. status.managed \in Nat
  BY <1>5 DEF Statuses
<1> HIDE DEF status
<1>7. new \in RouteObjects /\ new.status = status /\ new.finalizer = job.base.finalizer
  BY <1>1, <1>5 DEF RouteObjects
<1>8. CASE ~NotModified(job.key)
  <2>1. routes' = routes /\ gauges' = gauges /\ job.key \in delayed'
    BY <1>1, <1>8 DEF WriteStatus, AfterStatus, ReturnRequeue, TypeInv, TypeOK
  <2>2. QED
    BY <1>1, <1>2, <1>3, <2>1
<1>9. CASE NotModified(job.key) /\ out = "refused"
  <2>1. routes' = routes /\ gauges' = gauges /\ job.key \in delayed'
    BY <1>1, <1>9 DEF WriteStatus, AfterStatus, ReturnRequeue, Applied, TypeInv, TypeOK
  <2>2. QED
    BY <1>1, <1>2, <1>3, <2>1
<1>10. CASE NotModified(job.key) /\ out = "lost"
  <2>1. routes' = [routes EXCEPT ![job.key] = new]
    BY <1>1, <1>10 DEF WriteStatus, NotModified, Applied, TypeInv, TypeOK, status
  <2>2. gauges' = gauges /\ job.key \in delayed'
    BY <1>1, <1>10 DEF WriteStatus, AfterStatus, ReturnRequeue
  <2> HIDE DEF new
  <2>3. QED
    BY <1>1, <1>2, <1>3, <1>7, <1>10, <2>1, <2>2
<1>11. CASE NotModified(job.key) /\ out = "ok"
  <2>1. routes' = [routes EXCEPT ![job.key] = new]
    BY <1>1, <1>11 DEF WriteStatus, NotModified, Applied, TypeInv, TypeOK, status
  <2>2. gauges' = [gauges EXCEPT ![job.key] = RouteMetrics(status.phase, job.verdict, status.managed)]
    BY <1>11 DEF WriteStatus, status
  <2>3. /\ \A q \in Routes : q # job.key => gauges'[q] = gauges[q]
        /\ gauges'[job.key] = RouteMetrics(status.phase, job.verdict, status.managed)
    BY <1>1, <2>2 DEF TypeInv, TypeOK
  <2>4. gauges'[job.key] # Nil /\ Shows(gauges'[job.key], new.status)
    BY <1>1, <1>4, <1>6, <1>7, <2>3, NewMetricsShow
  <2> HIDE DEF new
  <2>5. QED
    BY <1>1, <1>2, <1>3, <1>7, <1>11, <2>1, <2>3, <2>4
<1>12. QED
  BY <1>8, <1>9, <1>10, <1>11 DEF Outcomes

\* Likewise for the Reconcile that takes the finalizer away and clears the metrics.
LEMMA RemoveMetrics ==
    ASSUME TypeInv, WorkerInv, NEW out \in Outcomes, RemoveFinalizer(out)
    PROVE  /\ job # Nil /\ job.key \in Routes /\ job' = Nil
           /\ cache' = cache /\ queue' = queue /\ delayed \subseteq delayed'
           /\ \/ routes' = routes /\ gauges' = gauges /\ job.key \in delayed'
              \/ \E new \in RouteObjects \cup {Nil} :
                   /\ routes' = [routes EXCEPT ![job.key] = new]
                   /\ new # Nil => new.deleting
                   /\ \/ out = "lost" /\ gauges' = gauges /\ job.key \in delayed'
                      \/ /\ out = "ok"
                         /\ \A q \in Routes : q # job.key => gauges'[q] = gauges[q]
                         /\ gauges'[job.key] = Nil
<1> DEFINE accepted == NotModified(job.key) /\ Admitted(job.key, job.base.spec)
<1>1. /\ job # Nil /\ job.key \in Routes /\ job' = Nil /\ cache' = cache
      /\ pc = "unfinalize"
  BY RemoveShape, NilAssumption
<1>2. queue' = queue /\ delayed \subseteq delayed'
  BY DEF RemoveFinalizer, Return, ReturnRequeue
<1>3. job.base.deleting
  BY <1>1 DEF WorkerInv, Deleting
<1>4. CASE ~accepted \/ out = "refused"
  <2>1. routes' = routes
    BY <1>1, <1>4 DEF RemoveFinalizer, Applied, TypeInv, TypeOK
  <2>2. gauges' = gauges /\ job.key \in delayed'
    BY <1>4 DEF RemoveFinalizer, ReturnRequeue
  <2>3. QED
    BY <1>1, <1>2, <2>1, <2>2
<1>5. CASE accepted /\ out # "refused"
  <2>1. PICK new \in RouteObjects \cup {Nil} :
          /\ routes' = [routes EXCEPT ![job.key] = new]
          /\ new # Nil => new.deleting
    <3>1. CASE routes' = routes
      <4>1. routes' = [routes EXCEPT ![job.key] = job.base] /\ job.base \in RouteObjects
        BY <1>1, <1>5, <3>1, RemoveShape DEF NotModified, TypeInv, TypeOK
      <4>2. QED
        BY <1>3, <4>1
    <3>2. CASE routes' # routes
      BY <1>3, <3>2, RemoveShape
    <3>3. QED
      BY <3>1, <3>2
  <2>2. CASE out = "lost"
    <3>1. gauges' = gauges /\ job.key \in delayed'
      BY <2>2 DEF RemoveFinalizer, ReturnRequeue
    <3>2. QED
      BY <1>1, <1>2, <2>1, <2>2, <3>1
  <2>3. CASE out = "ok"
    <3>1. gauges' = [gauges EXCEPT ![job.key] = Nil]
      BY <1>5, <2>3 DEF RemoveFinalizer, clearRouteMetrics
    <3>2. /\ \A q \in Routes : q # job.key => gauges'[q] = gauges[q]
          /\ gauges'[job.key] = Nil
      BY <1>1, <3>1 DEF TypeInv, TypeOK
    <3>3. QED
      BY <1>1, <1>2, <2>1, <2>3, <3>2
  <2>4. QED
    BY <1>5, <2>2, <2>3 DEF Outcomes
<1>6. QED
  BY <1>4, <1>5

\* A Route is written: the others are as due as before.
LEMMA WriteDue ==
    ASSUME TypeInv, GaugesDue, NEW r \in Routes, NEW new \in RouteObjects \cup {Nil},
           routes' = [routes EXCEPT ![r] = new], cache' = cache,
           queue \cup delayed \subseteq queue' \cup delayed',
           \A q \in Routes : q # r => gauges'[q] = gauges[q],
           job # Nil => job.key = r \/ job' = job,
           new # Nil /\ ~new.deleting =>
               Due(r)' \/ (gauges'[r] # Nil /\ Shows(gauges'[r], new.status))
    PROVE  GaugesDue'
<1>1. routes'[r] = new /\ \A q \in Routes : q # r => routes'[q] = routes[q]
  BY DEF TypeInv, TypeOK
<1> SUFFICES ASSUME NEW q \in Routes, Live(q)'
             PROVE  Due(q)' \/ (gauges'[q] # Nil /\ Shows(gauges'[q], routes'[q].status))
  BY DEF GaugesDue
<1>2. CASE q = r
  BY <1>1, <1>2 DEF Live
<1>3. CASE q # r
  BY <1>1, <1>3 DEF GaugesDue, Due, Live
<1>4. QED
  BY <1>2, <1>3

\* No Route is written: every one stays due, or its metrics stay.
LEMMA StayDue ==
    ASSUME GaugesDue, UNCHANGED <<routes, cache, gauges>>,
           queue \cup delayed \subseteq queue' \cup delayed',
           job # Nil => (job' # Nil /\ job'.key = job.key) \/ job.key \in delayed'
    PROVE  GaugesDue'
BY DEF GaugesDue, Due, Live

\* The steps of Reconcile, and of others, that write no Route.
LEMMA MinorDue ==
    ASSUME TypeInv, TypeInv', GaugesDue,
           \/ Minor \/ CleanupKind \/ \E out \in Outcomes : PutChild(out)
    PROVE  GaugesDue'
<1>1. ASSUME NEW r \in Routes, BeginGone(r) PROVE GaugesDue'
  <2>1. /\ UNCHANGED <<routes, cache, gauges, delayed, job>>
        /\ queue' = queue \ {r} /\ cache[r] = Nil
    BY <1>1 DEF BeginGone, apiVars
  <2>2. QED
    BY <2>1 DEF GaugesDue, Due, Live
<1>2. ASSUME NEW r \in Routes, BeginReleased(r) PROVE GaugesDue'
  <2>1. /\ UNCHANGED <<routes, cache, delayed, job>>
        /\ queue' = queue \ {r} /\ cache[r] # Nil /\ cache[r].deleting
        /\ \A q \in Routes : q # r => gauges'[q] = gauges[q]
    BY <1>2 DEF BeginReleased, apiVars, clearRouteMetrics, TypeInv, TypeOK
  <2>2. Live(r) => cache[r] # routes[r]
    BY <2>1 DEF Live
  <2>3. QED
    BY <2>1, <2>2 DEF GaugesDue, Due, Live
<1>3. ASSUME NEW r \in Routes, BeginFails(r) \/ RequeueDue(r) PROVE GaugesDue'
  <2>1. /\ UNCHANGED <<routes, cache, gauges, job>>
        /\ queue \cup delayed \subseteq queue' \cup delayed'
    BY <1>3 DEF BeginFails, RequeueDue, apiVars
  <2>2. QED
    BY <2>1, StayDue
<1>4. CASE EvaluationFails
  BY <1>4, StayDue DEF EvaluationFails, ReturnRequeue, apiVars
<1>5. CASE \/ Resync \/ ChildSync
           \/ \E id \in ChildIds : GarbageCollect(id) \/ DeleteChild(id)
           \/ Cluster \/ Tick
           \/ UNCHANGED vars
  <2>1. UNCHANGED <<routes, cache, gauges, job, delayed>> /\ queue \subseteq queue'
    BY <1>5 DEF Resync, ChildSync, GarbageCollect, DeleteChild, Cluster, SetService, SetGateway,
                SetSecret, Tick, apiVars, workerVars, vars
  <2>2. QED
    BY <2>1, StayDue
<1>6. CASE \/ CheckCertificate \/ CheckConflicts \/ CheckBackends \/ ChooseCanary \/ StartProbe
           \/ (\E bad \in BOOLEAN : FinishProbe(bad)) \/ SkipChild
           \/ (\E n \in 0 .. 2, succeeded \in BOOLEAN : DeleteChildren(n, succeeded))
           \/ CleanupKind \/ \E out \in Outcomes : PutChild(out)
  <2>1. UNCHANGED <<routes, cache, gauges, delayed>> /\ queue \subseteq queue'
    BY <1>6 DEF CheckCertificate, CheckConflicts, CheckBackends, ChooseCanary, StartProbe, FinishProbe,
                SkipChild, DeleteChildren, CleanupKind, PutChild, apiVars
  <2>2. pc' # "idle" /\ job' # Nil
    BY <1>6 DEF CheckCertificate, CheckConflicts, CheckBackends, ChooseCanary, StartProbe, FinishProbe,
                SkipChild, DeleteChildren, CleanupKind, PutChild, Advance, TypeInv, JobInv
  <2>3. job # Nil => job'.key = job.key
    <3>1. CASE CleanupKind
      BY <3>1 DEF CleanupKind, TypeInv, TypeOK, Jobs
    <3>2. CASE \E out \in Outcomes : PutChild(out)
      BY <2>2, <3>2, PutShape DEF JobStays
    <3>3. CASE Minor
      BY <2>2, <3>3, MinorSteps DEF ChildrenGo, JobStays
    <3>4. QED
      BY <1>6, <3>1, <3>2, <3>3 DEF Minor
  <2>4. QED
    BY <2>1, <2>2, <2>3, StayDue
<1>7. QED
  BY <1>1, <1>2, <1>3, <1>4, <1>5, <1>6 DEF Minor

\* Generations only grow, and the cache copies them.
LEMMA StepGens ==
    ASSUME TypeInv, TypeInv', FinalizerInv, GensFollow, [Next]_vars
    PROVE  GensFollow'
<1>1. \A q \in Routes : /\ routes[q] # Nil => routes[q].gen \in Nat
                        /\ cache[q] # Nil => cache[q].gen \in Nat
  BY DEF TypeInv, TypeOK, RouteObjects
<1>2. ASSUME NEW r \in Routes, NEW new \in RouteObjects \cup {Nil},
             routes' = [routes EXCEPT ![r] = new], cache' = cache,
             new # Nil => routes[r] # Nil /\ new.uid = routes[r].uid /\ new.gen >= routes[r].gen
      PROVE  GensFollow'
  <2>1. routes'[r] = new /\ \A q \in Routes : q # r => routes'[q] = routes[q]
    BY <1>2 DEF TypeInv, TypeOK
  <2>2. new # Nil => new.gen \in Nat
    BY DEF RouteObjects
  <2>3. QED
    BY <1>1, <1>2, <2>1, <2>2 DEF GensFollow
<1>3. CASE UNCHANGED <<routes, cache>>
  BY <1>3 DEF GensFollow
<1>4. CASE Minor \/ (\E r \in Routes : Begin(r)) \/ CleanupKind \/ \E out \in Outcomes : PutChild(out)
  BY <1>3, <1>4, MinorSteps, PutShape DEF ChildrenGo, Begin, CleanupKind, apiVars
<1>5. ASSUME NEW out \in Outcomes, WriteStatus(out) PROVE GensFollow'
  <2>1. job.key \in Routes /\ job.base \in RouteObjects /\ job.base # Nil /\ cache' = cache
    BY <1>5, StatusShape, NilAssumption
  <2>2. job.base.gen \in Nat
    BY <2>1 DEF RouteObjects
  <2>3. CASE routes' = routes
    BY <1>3, <2>1, <2>3
  <2>4. CASE routes' # routes
    <3>1. PICK new \in RouteObjects :
            /\ routes[job.key] = job.base
            /\ routes' = [routes EXCEPT ![job.key] = new]
            /\ new.uid = job.base.uid /\ new.gen = job.base.gen
      BY <1>5, <2>4, StatusShape
    <3>2. new # Nil => /\ routes[job.key] # Nil /\ new.uid = routes[job.key].uid
                       /\ new.gen >= routes[job.key].gen
      BY <2>1, <2>2, <3>1
    <3>3. QED
      BY <1>2, <2>1, <3>1, <3>2
  <2>5. QED
    BY <2>3, <2>4
<1>6. ASSUME NEW out \in Outcomes, RemoveFinalizer(out) PROVE GensFollow'
  <2>1. job.key \in Routes /\ job.base \in RouteObjects /\ job.base # Nil /\ cache' = cache
    BY <1>6, RemoveShape, NilAssumption
  <2>2. job.base.gen \in Nat
    BY <2>1 DEF RouteObjects
  <2>3. CASE routes' = routes
    BY <1>3, <2>1, <2>3
  <2>4. CASE routes' # routes
    <3>1. PICK new \in RouteObjects \cup {Nil} :
            /\ routes[job.key] = job.base
            /\ routes' = [routes EXCEPT ![job.key] = new]
            /\ new # Nil => new.uid = job.base.uid /\ new.gen = job.base.gen
      BY <1>6, <2>4, RemoveShape
    <3>2. new # Nil => /\ routes[job.key] # Nil /\ new.uid = routes[job.key].uid
                       /\ new.gen >= routes[job.key].gen
      BY <2>1, <2>2, <3>1
    <3>3. QED
      BY <1>2, <2>1, <3>1, <3>2
  <2>5. QED
    BY <2>3, <2>4
<1>7. ASSUME NEW out \in Outcomes, AddFinalizer(out) PROVE GensFollow'
  <2>1. job.key \in Routes /\ job.base \in RouteObjects /\ job.base # Nil /\ cache' = cache
    BY <1>7, AddShape, NilAssumption
  <2>2. job.base.gen \in Nat
    BY <2>1 DEF RouteObjects
  <2>3. CASE routes' = routes
    BY <1>3, <2>1, <2>3
  <2>4. CASE routes' # routes
    <3>1. PICK new \in RouteObjects :
            /\ routes[job.key] = job.base
            /\ routes' = [routes EXCEPT ![job.key] = new]
            /\ new.uid = job.base.uid /\ new.gen = job.base.gen
      BY <1>7, <2>4, AddShape
    <3>2. new # Nil => /\ routes[job.key] # Nil /\ new.uid = routes[job.key].uid
                       /\ new.gen >= routes[job.key].gen
      BY <2>1, <2>2, <3>1
    <3>3. QED
      BY <1>2, <2>1, <3>1, <3>2
  <2>5. QED
    BY <2>3, <2>4
<1>8. CASE CacheSync \/ Crash
  <2>1. cache' = routes /\ routes' = routes
    BY <1>8 DEF CacheSync, Crash, apiVars
  <2>2. QED
    BY <1>1, <2>1 DEF GensFollow
<1>9. ASSUME NEW r \in Routes, NEW spec \in Specs, CreateRoute(r, spec) PROVE GensFollow'
  <2>1. PICK new \in RouteObjects : routes' = [routes EXCEPT ![r] = new] /\ new.uid = spent["create"]
    BY <1>9, CreateShape
  <2>2. cache' = cache
    BY <1>9, CreateShape
  <2>3. routes'[r] = new /\ \A q \in Routes : q # r => routes'[q] = routes[q]
    BY <2>1 DEF TypeInv, TypeOK
  <2>4. cache[r] # Nil => cache[r].uid # new.uid
    BY <2>1 DEF FinalizerInv, UidsKnown, TypeInv, TypeOK, RouteObjects, BudgetKinds
  <2>5. QED
    BY <2>2, <2>3, <2>4 DEF GensFollow
<1>10. ASSUME NEW r \in Routes, Rewrites(r) PROVE GensFollow'
  <2>1. cache' = cache /\ routes[r] # Nil
    BY <1>10, RewriteShape, NilAssumption
  <2>2. QED
    BY <1>2, <1>10, <2>1, RewriteShape
<1>11. QED
  BY <1>4, <1>5, <1>6, <1>7, <1>8, <1>9, <1>10, StepCases DEF Major

\* Every step leaves the metrics of a live Route right, or the Route due.
LEMMA StepDue ==
    ASSUME AllInv, AllInv', StatusesAgree, GensFollow, GaugesDue, [Next]_vars
    PROVE  GaugesDue'
<1> USE DEF AllInv
<1>1. CASE Minor \/ CleanupKind \/ \E out \in Outcomes : PutChild(out)
  BY <1>1, MinorDue
<1>2. ASSUME NEW r \in Routes, Begin(r) PROVE GaugesDue'
  <2>1. /\ UNCHANGED <<routes, cache, gauges, delayed>>
        /\ queue' = queue \ {r} /\ job'.key = r /\ job = Nil /\ job' # Nil
    BY <1>2 DEF Begin, NewJob, FirstStep, apiVars, TypeInv, JobInv
  <2>2. QED
    BY <2>1 DEF GaugesDue, Due, Live
<1>3. ASSUME NEW out \in Outcomes, WriteStatus(out) PROVE GaugesDue'
  <2>1. /\ job # Nil /\ job.key \in Routes /\ job' = Nil
        /\ cache' = cache /\ queue' = queue /\ delayed \subseteq delayed'
    BY <1>3, StatusMetrics
  <2>2. CASE routes' = routes /\ gauges' = gauges /\ job.key \in delayed'
    BY <2>1, <2>2, StayDue
  <2>3. CASE ~(routes' = routes /\ gauges' = gauges /\ job.key \in delayed')
    <3>1. PICK new \in RouteObjects :
            /\ routes' = [routes EXCEPT ![job.key] = new]
            /\ \/ gauges' = gauges /\ job.key \in delayed'
               \/ /\ \A q \in Routes : q # job.key => gauges'[q] = gauges[q]
                  /\ gauges'[job.key] # Nil
                  /\ Shows(gauges'[job.key], new.status)
      BY <1>3, <2>3, StatusMetrics
    <3>2. QED
      BY <2>1, <3>1, WriteDue DEF Due
  <2>4. QED
    BY <2>2, <2>3
<1>4. ASSUME NEW out \in Outcomes, RemoveFinalizer(out) PROVE GaugesDue'
  <2>1. /\ job # Nil /\ job.key \in Routes /\ job' = Nil
        /\ cache' = cache /\ queue' = queue /\ delayed \subseteq delayed'
    BY <1>4, RemoveMetrics DEF GuardInv
  <2>2. CASE routes' = routes /\ gauges' = gauges /\ job.key \in delayed'
    BY <2>1, <2>2, StayDue
  <2>3. CASE ~(routes' = routes /\ gauges' = gauges /\ job.key \in delayed')
    <3>1. PICK new \in RouteObjects \cup {Nil} :
            /\ routes' = [routes EXCEPT ![job.key] = new]
            /\ new # Nil => new.deleting
            /\ \A q \in Routes : q # job.key => gauges'[q] = gauges[q]
      BY <1>4, <2>3, RemoveMetrics DEF GuardInv
    <3>2. QED
      BY <2>1, <3>1, WriteDue
  <2>4. QED
    BY <2>2, <2>3
<1>5. ASSUME NEW out \in Outcomes, AddFinalizer(out) PROVE GaugesDue'
  <2>1. job \in Jobs /\ job # Nil /\ job.key \in Routes /\ cache' = cache /\ gauges' = gauges
    BY <1>5, AddShape, NilAssumption
  <2>2. queue' = queue /\ delayed \subseteq delayed'
    BY <1>5 DEF AddFinalizer, ReturnRequeue
  <2>3. job.key \in delayed' \/ (job' # Nil /\ job'.key = job.key)
    <3>1. job.key \in delayed' \/ (pc' = "certificate" /\ \E new : job' = [job EXCEPT !.base = new])
      BY <1>5 DEF AddFinalizer, ReturnRequeue
    <3>2. pc' = "certificate" => job' # Nil
      BY DEF TypeInv, JobInv
    <3>3. QED
      BY <2>1, <3>1, <3>2 DEF Jobs
  <2>4. CASE routes' = routes
    BY <2>1, <2>2, <2>3, <2>4, StayDue
  <2>5. CASE routes' # routes
    <3>1. PICK r \in Routes : r = job.key
      BY <2>1
    <3>2. PICK new \in RouteObjects : routes' = [routes EXCEPT ![r] = new]
      BY <1>5, <2>5, <3>1, AddShape
    <3>3. Due(r)'
      BY <2>3, <3>1 DEF Due
    <3>4. QED
      BY <2>1, <2>2, <3>1, <3>2, <3>3, WriteDue
  <2>6. QED
    BY <2>4, <2>5
<1>6. CASE CacheSync
  BY <1>6 DEF CacheSync, apiVars, GaugesDue, Due, Live
<1>7. CASE Crash
  BY <1>7 DEF Crash, apiVars, GaugesDue, Due, Live
<1>8. ASSUME NEW r \in Routes, NEW spec \in Specs, CreateRoute(r, spec) PROVE GaugesDue'
  <2>1. PICK new \in RouteObjects : routes' = [routes EXCEPT ![r] = new] /\ new.uid = spent["create"]
    BY <1>8, CreateShape
  <2>2. UNCHANGED <<cache, job, gauges, queue, delayed>>
    BY <1>8 DEF CreateRoute, workerVars
  <2>3. routes'[r] = new /\ new # Nil
    BY <2>1, NilAssumption DEF TypeInv, TypeOK
  <2>4. cache[r] # Nil => cache[r].uid # new.uid
    BY <2>1 DEF FinalizerInv, UidsKnown, TypeInv, TypeOK, RouteObjects, BudgetKinds
  <2>5. Due(r)'
    BY <2>2, <2>3, <2>4 DEF Due
  <2>6. QED
    BY <2>1, <2>2, <2>5, WriteDue
<1>9. ASSUME NEW r \in Routes, NEW spec \in Specs, EditRoute(r, spec) PROVE GaugesDue'
  <2>1. /\ UNCHANGED <<cache, job, gauges, queue, delayed>>
        /\ routes[r] \in RouteObjects /\ routes[r] # Nil
    BY <1>9 DEF EditRoute, workerVars, TypeInv, TypeOK
  <2>2. PICK new \in RouteObjects \cup {Nil} :
          /\ routes' = [routes EXCEPT ![r] = new]
          /\ new # Nil => new.uid = routes[r].uid
    BY <1>9, RewriteShape DEF Rewrites
  <2>3. routes'[r].gen = routes[r].gen + 1 /\ routes[r].gen \in Nat
    BY <1>9, <2>1 DEF EditRoute, TypeInv, TypeOK, RouteObjects
  <2>4. routes'[r] = new
    BY <2>2 DEF TypeInv, TypeOK
  <2>5. cache[r] # Nil => cache[r].gen \in Nat
    BY DEF TypeInv, TypeOK, RouteObjects
  <2>6. new # Nil => cache[r] # new
    BY <2>1, <2>2, <2>3, <2>4, <2>5 DEF GensFollow
  <2>7. new # Nil => Due(r)'
    BY <2>1, <2>4, <2>6 DEF Due
  <2>8. QED
    BY <2>1, <2>2, <2>7, WriteDue
<1>10. ASSUME NEW r \in Routes, (\E foreground \in BOOLEAN : DeleteRoute(r, foreground)) \/ ReleaseHold(r)
       PROVE  GaugesDue'
  <2>1. UNCHANGED <<cache, job, gauges, queue, delayed>>
    BY <1>10 DEF DeleteRoute, ReleaseHold, workerVars
  <2>2. PICK new \in RouteObjects \cup {Nil} : routes' = [routes EXCEPT ![r] = new]
    BY <1>10, RewriteShape DEF Rewrites
  <2>3. routes'[r] = new
    BY <2>2 DEF TypeInv, TypeOK
  <2>4. new # Nil => new.deleting
    <3>1. routes[r] \in RouteObjects /\ routes[r] # Nil
      BY <1>10 DEF DeleteRoute, ReleaseHold, TypeInv, TypeOK
    <3>2. CASE \E foreground \in BOOLEAN : DeleteRoute(r, foreground)
      <4>1. PICK foreground \in BOOLEAN : DeleteRoute(r, foreground)
        BY <3>2
      <4>2. new # Nil =>
              new = [routes[r] EXCEPT !.deleting = TRUE, !.hold = foreground, !.gen = routes[r].gen + 1]
        BY <2>3, <4>1 DEF DeleteRoute, TypeInv, TypeOK
      <4>3. QED
        BY <3>1, <4>2 DEF RouteObjects
    <3>3. CASE ReleaseHold(r)
      <4>1. routes[r].deleting
        BY <3>1, <3>3 DEF ReleaseHold, GuardInv, HoldDeletes
      <4>2. new # Nil => routes'[r] = [routes[r] EXCEPT !.hold = FALSE]
        BY <2>3, <3>1, <3>3 DEF ReleaseHold, TypeInv, TypeOK
      <4>3. QED
        BY <2>3, <3>1, <4>1, <4>2 DEF RouteObjects
    <3>4. QED
      BY <1>10, <3>2, <3>3
  <2>5. QED
    BY <2>1, <2>2, <2>4, WriteDue
<1>11. QED
  BY <1>1, <1>2, <1>3, <1>4, <1>5, <1>6, <1>7, <1>8, <1>9, <1>10, StepCases DEF Major, Rewrites

\* After lost answers, refused writes, restarts and Routes that were deleted and
\* created again, the metrics of a live Route say what its status says as soon as
\* nothing is left to do: whatever puts them behind leaves the Route due.
THEOREM MetricsRecovery == Spec => []MetricsRecover
<1> DEFINE Inv == StatusesAgree /\ GensFollow /\ GaugesDue
<1>1. Init => Inv
  BY DEF Init, StatusesAgree, GensFollow, GaugesDue, Live
<1>2. AllInv /\ AllInv' /\ Inv /\ [Next]_vars => Inv'
  BY StepAgrees, StepGens, StepDue DEF AllInv
<1>3. AllInv /\ Inv => MetricsRecover
  <2> SUFFICES ASSUME AllInv, Inv, Quiet, delayed = {}, NEW r \in Routes, Live(r)
               PROVE  gauges[r] # Nil /\ MetricsAgree(r)
    BY DEF MetricsRecover
  <2>1. job = Nil
    BY DEF Quiet, AllInv, TypeInv, JobInv
  <2>2. ~Due(r)
    BY <2>1 DEF Due, Quiet
  <2>3. QED
    BY <2>2, MetricsAreShown DEF GaugesDue
<1> HIDE DEF Inv
<1>4. QED
  BY <1>1, <1>2, <1>3, Invariance, PTL DEF Spec

\* A Route is written; its metrics fit what is written, or are gone.
LEMMA WriteRight ==
    ASSUME TypeInv, GaugesRight, NEW r \in Routes, NEW new \in RouteObjects \cup {Nil},
           routes' = [routes EXCEPT ![r] = new],
           \A q \in Routes : q # r => gauges'[q] = gauges[q],
           gauges'[r] # Nil => new # Nil /\ new.finalizer /\ Shows(gauges'[r], new.status)
    PROVE  GaugesRight'
<1>1. routes'[r] = new /\ \A q \in Routes : q # r => routes'[q] = routes[q]
  BY DEF TypeInv, TypeOK
<1>2. QED
  BY <1>1 DEF GaugesRight

\* Where no call fails, every step leaves all metrics right.
LEMMA StepRight ==
    ASSUME AllInv, AllInv', StatusesAgree, Budget["fault"] = 0, GaugesRight, [Next]_vars
    PROVE  GaugesRight'
<1> USE DEF AllInv
<1>1. \A accepted, out : CallFault(accepted, out) => out = "ok"
  <2>1. ~Spend("fault")
    BY DEF Spend, TypeInv, TypeOK, BudgetKinds
  <2>2. QED
    BY <2>1 DEF CallFault
<1>2. ASSUME routes' = routes, \A r \in Routes : gauges'[r] \in {gauges[r], Nil} PROVE GaugesRight'
  BY <1>2 DEF GaugesRight
<1>3. CASE \/ Minor \/ (\E r \in Routes : Begin(r)) \/ CleanupKind
           \/ (\E out \in Outcomes : PutChild(out)) \/ CacheSync \/ Crash
  <2>1. routes' = routes
    BY <1>3, MinorSteps, PutShape DEF ChildrenGo, Begin, CleanupKind, CacheSync, Crash, apiVars
  <2>2. \/ gauges' = gauges
        \/ \E r \in Routes : gauges' = [gauges EXCEPT ![r] = Nil]
        \/ gauges' = [r \in Routes |-> Nil]
    <3>1. CASE Minor
      BY <3>1 DEF Minor, BeginGone, BeginFails, BeginReleased, clearRouteMetrics, RequeueDue,
             CheckCertificate, CheckConflicts, CheckBackends, EvaluationFails, ChooseCanary, StartProbe,
             FinishProbe, DeleteChildren, SkipChild, Resync, ChildSync, GarbageCollect, DeleteChild,
             Cluster, SetService, SetGateway, SetSecret, Tick, workerVars, vars
    <3>2. QED
      BY <1>3, <3>1, PutShape DEF Begin, CleanupKind, CacheSync, Crash
  <2>3. \A r \in Routes : gauges'[r] \in {gauges[r], Nil}
    BY <2>2 DEF TypeInv, TypeOK
  <2>4. QED
    BY <1>2, <2>1, <2>3
<1>4. ASSUME NEW out \in Outcomes, WriteStatus(out) PROVE GaugesRight'
  <2>1. out = "ok"
    BY <1>1, <1>4 DEF WriteStatus
  <2>2. job.key \in Routes /\ job.base.finalizer
    BY <1>4, StatusMetrics
  <2>3. CASE routes' = routes /\ gauges' = gauges
    BY <1>2, <2>3
  <2>4. CASE ~(routes' = routes /\ gauges' = gauges)
    <3>1. PICK new \in RouteObjects :
            /\ routes' = [routes EXCEPT ![job.key] = new]
            /\ new.finalizer = job.base.finalizer
            /\ \A q \in Routes : q # job.key => gauges'[q] = gauges[q]
            /\ Shows(gauges'[job.key], new.status)
      BY <1>4, <2>1, <2>4, StatusMetrics
    <3>2. QED
      BY <2>2, <3>1, WriteRight, NilAssumption
  <2>5. QED
    BY <2>3, <2>4
<1>5. ASSUME NEW out \in Outcomes, RemoveFinalizer(out) PROVE GaugesRight'
  <2>1. out = "ok"
    BY <1>1, <1>5 DEF RemoveFinalizer
  <2>2. job.key \in Routes
    BY <1>5, RemoveMetrics DEF GuardInv
  <2>3. CASE routes' = routes /\ gauges' = gauges
    BY <1>2, <2>3
  <2>4. CASE ~(routes' = routes /\ gauges' = gauges)
    <3>1. PICK new \in RouteObjects \cup {Nil} :
            /\ routes' = [routes EXCEPT ![job.key] = new]
            /\ \A q \in Routes : q # job.key => gauges'[q] = gauges[q]
            /\ gauges'[job.key] = Nil
      BY <1>5, <2>1, <2>4, RemoveMetrics DEF GuardInv
    <3>2. QED
      BY <2>2, <3>1, WriteRight
  <2>5. QED
    BY <2>3, <2>4
<1>6. ASSUME NEW out \in Outcomes, AddFinalizer(out) PROVE GaugesRight'
  <2>1. job.key \in Routes /\ gauges' = gauges
    BY <1>6, AddShape
  <2>2. CASE routes' = routes
    BY <1>2, <2>1, <2>2
  <2>3. CASE routes' # routes
    <3>1. PICK new \in RouteObjects :
            /\ routes[job.key] = job.base
            /\ routes' = [routes EXCEPT ![job.key] = new]
            /\ new.finalizer = TRUE
            /\ new.status = job.base.status
      BY <1>6, <2>3, AddShape
    <3>2. new # Nil /\ new.finalizer
      BY <3>1, NilAssumption
    <3>3. gauges[job.key] # Nil => Shows(gauges[job.key], new.status)
      BY <2>1, <3>1 DEF GaugesRight
    <3>4. QED
      BY <2>1, <3>1, <3>2, <3>3, WriteRight
  <2>4. QED
    BY <2>2, <2>3
<1>7. ASSUME NEW r \in Routes, NEW spec \in Specs, CreateRoute(r, spec) PROVE GaugesRight'
  <2>1. routes[r] = Nil /\ gauges' = gauges
    BY <1>7, CreateShape
  <2>2. gauges[r] = Nil
    BY <2>1 DEF GaugesRight
  <2>3. QED
    BY <1>7, <2>1, <2>2, CreateShape, WriteRight
<1>8. ASSUME NEW r \in Routes, Rewrites(r) PROVE GaugesRight'
  <2>1. gauges' = gauges /\ routes[r] \in RouteObjects
    BY <1>8, RewriteShape
  <2>2. PICK new \in RouteObjects \cup {Nil} :
          /\ routes' = [routes EXCEPT ![r] = new]
          /\ new = Nil => ~routes[r].finalizer
          /\ new # Nil => new.finalizer = routes[r].finalizer /\ new.status = routes[r].status
    BY <1>8, RewriteShape
  <2>3. gauges[r] # Nil => routes[r].finalizer /\ Shows(gauges[r], routes[r].status)
    BY DEF GaugesRight
  <2>4. QED
    BY <2>1, <2>2, <2>3, WriteRight
<1>9. QED
  BY <1>3, <1>4, <1>5, <1>6, <1>7, <1>8, StepCases DEF Major

\* Where no call fails, the exported metrics of a Route say what its status says
\* at every moment, through conflicts, stale reads and restarts, and there are
\* none for a Route that is gone: the call that writes or removes is the last that
\* another process can see, and the metrics follow it at once.
THEOREM MetricsSafety == Budget["fault"] = 0 => (Spec => []MetricsFollowStatus)
<1> SUFFICES ASSUME Budget["fault"] = 0 PROVE Spec => []MetricsFollowStatus
  OBVIOUS
<1> DEFINE Inv == StatusesAgree /\ GaugesRight
<1>1. Init => Inv
  BY DEF Init, StatusesAgree, GaugesRight
<1>2. AllInv /\ AllInv' /\ Inv /\ [Next]_vars => Inv'
  BY StepAgrees, StepRight DEF AllInv
<1>3. Inv => MetricsFollowStatus
  BY MetricsAreShown DEF GaugesRight, MetricsFollowStatus
<1> HIDE DEF Inv
<1>4. QED
  BY <1>1, <1>2, <1>3, Invariance, PTL DEF Spec

=============================================================================

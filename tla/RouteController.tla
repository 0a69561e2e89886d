--------------------------- MODULE RouteController ---------------------------
(***************************************************************************)
(* The Route controller against a Kubernetes API server: Reconcile, split  *)
(* where it talks to another process, together with the informer cache it  *)
(* reads, the work queue that feeds its single worker, the webhooks, the   *)
(* garbage collector, the users, and the faults and restarts between any   *)
(* two of its steps.                                                       *)
(*                                                                         *)
(* A Route at the API server is a record                                   *)
(*   uid, created, gen        metadata set by the API server               *)
(*   spec, status             the two halves of the object                 *)
(*   finalizer                does it carry the controller's finalizer?    *)
(*   deleting                 is its deletionTimestamp set?                *)
(*   hold                     is it held by another finalizer (that of a   *)
(*                            foreground deletion)?                        *)
(* Its resourceVersion is not represented: an update is accepted when the  *)
(* object is still the one that was read.  uid and gen never repeat, the   *)
(* finalizer is added once and removed once for each uid, and the status   *)
(* is written by this controller alone, so equal objects are one version.  *)
(***************************************************************************)
EXTENDS CanaryState, RouteWebhook, GatewayCertificate

CONSTANTS
    Specs,          \* the specifications users write
    ServiceKeys,    \* the Services [ns, name] that may exist
    ServiceStates,  \* what such a Service may be, of "missing", "empty", "ready"
    GatewayRefs,    \* the Gateways [name, ns] that may exist
    GatewayStates,  \* what such a Gateway may be
    SecretKeys,     \* the Secrets [ns, name] that may exist
    SecretStates,   \* what such a Secret may hold
    WebhookEnabled, \* are the admission webhooks installed?
    ChildLag,       \* do reads of children come from a cache that lags?
    Budget,         \* Budget[k]: how often an environment step of kind k happens
    MaxNow          \* bound on the clock (seconds, of creation and cooldowns)

VARIABLES
    routes,      \* routes[r]: the Route at the API server, or Nil
    cache,       \* cache[r]: the Route in the controller's informer cache
    children,    \* children[id]: the child at the API server, or Nil
    childCache,  \* childCache[id]: the child in the controller's caches
    services,    \* services[s]: "missing", "empty" (no ready endpoint) or "ready"
    gateways,    \* gateways[g]: a Gateway state, or Nil
    secrets,     \* secrets[k]: a Secret state, or Nil
    queue,       \* keys the worker has to reconcile
    delayed,     \* keys that come back by RequeueAfter or after a backoff
    pc,          \* where the worker stands in Reconcile
    job,         \* the local variables of Reconcile, Nil when the worker is idle
    gauges,      \* gauges[r]: the metrics exported for r, Nil when cleared
    now,         \* the clock
    spent        \* spent[k]: environment steps of kind k so far

clusterVars == <<services, gateways, secrets>>
apiVars == <<routes, children, clusterVars>>
workerVars == <<queue, delayed, pc, job, gauges>>
vars == <<canaryVars, apiVars, cache, childCache, workerVars, now, spent>>

BudgetKinds == {"create", "edit", "delete", "service", "gateway", "secret", "meddle", "fault", "crash"}

ConditionTypes == {"Ready", "Synced", "CertificateHealthy"}
Phases == {"", "Pending", "Provisioning", "Active", "Degraded"}
Verdicts == {"conflict", "missing_service", "zero_endpoints", "healthy"}
Reasons ==
    {"RouteConflict", "BackendServiceMissing", "BackendNoEndpoints", "ReconcileError",
     "NotReady", "ReconcileSuccess", "Available", "GatewayNotFound", "CertificateSecretMissing",
     "CertificateParseError", "CertificateNotConfigured", "CertificateExpired",
     "CertificateExpiring", "CertificateHealthy"}
PCs == {"idle", "cleanup", "unfinalize", "finalize", "certificate", "conflicts",
        "backends", "canary", "probe", "children", "status"}

\* The kinds without an ownerReference, in the order of cleanupOwnedResources.
CrossKinds ==
    <<"DestinationRule", "EnvoyFilter", "RequestAuthentication", "AuthorizationPolicy">>

AllSpecs == Specs \cup {Default(s) : s \in Specs}
Operations ==
    UNION { UNION { UNION { { childPlan(r, s, c)[k] : k \in DOMAIN childPlan(r, s, c) }
                            : c \in {s.canary, Nil} } : s \in AllSpecs } : r \in Routes }
ChildIds == UNION { { o.ids[i] : i \in DOMAIN o.ids } : o \in Operations }
Bodies == { o.body : o \in Operations }

\* A child carries the uid of the Route it was written for: the ownerReference
\* where the kind has one, a history value for the kinds in CrossKinds; and the
\* name of the Route, from managedLabels.
Objects == [uid: Nat, label: {r.name : r \in Routes}, body: Bodies]

Conditions == [ConditionTypes -> [status: BOOLEAN, reason: Reasons, gen: Nat] \cup {Nil}]
Statuses == [phase: Phases, managed: Nat, conditions: Conditions]
RouteObjects ==
    [uid: Nat, created: Nat, gen: Nat, spec: AllSpecs, status: Statuses,
     finalizer: BOOLEAN, deleting: BOOLEAN, hold: BOOLEAN]
Jobs ==
    [key: Routes, base: RouteObjects, conditions: Conditions, verdict: Verdicts,
     canary: RouteCanaries \cup {Nil}, start: Nat, step: Nat, managed: Nat, failed: BOOLEAN]

\* The label values of the two one-hot gauges.
phaseValues == {"Pending", "Provisioning", "Active", "Degraded"}
backendStates == {"healthy", "missing_service", "zero_endpoints", "conflict", "unknown"}
Gauges == [phase: [phaseValues -> 0 .. 1], health: [backendStates -> 0 .. 1], managed: Nat]

ASSUME BudgetAssumption == Budget \in [BudgetKinds -> Nat]
ASSUME ModesAssumption == WebhookEnabled \in BOOLEAN /\ ChildLag \in BOOLEAN /\ MaxNow \in Nat
ASSUME ServicesAssumption == ServiceStates \subseteq {"missing", "empty", "ready"}
ASSUME GatewaysAssumption == Nil \notin GatewayStates
ASSUME SecretsAssumption == SecretStates \subseteq Seq(Nat \cup {Nil})
ASSUME SpecsAssumption ==
    /\ Specs \subseteq RouteSpecs
    /\ \A s \in Specs : gatewayRef(s) \in GatewayRefs
ASSUME NilAssumption ==
    /\ Nil \notin RouteObjects /\ Nil \notin Objects /\ Nil \notin Jobs /\ Nil \notin Gauges
    /\ Nil \notin [status: BOOLEAN, reason: Reasons, gen: Nat]

TypeOK ==
    /\ CanaryTypeOK
    /\ routes \in [Routes -> RouteObjects \cup {Nil}]
    /\ cache \in [Routes -> RouteObjects \cup {Nil}]
    /\ children \in [ChildIds -> Objects \cup {Nil}]
    /\ childCache \in [ChildIds -> Objects \cup {Nil}]
    /\ services \in [ServiceKeys -> ServiceStates]
    /\ gateways \in [GatewayRefs -> GatewayStates \cup {Nil}]
    /\ secrets \in [SecretKeys -> SecretStates \cup {Nil}]
    /\ queue \subseteq Routes
    /\ delayed \subseteq Routes
    /\ pc \in PCs
    /\ job \in Jobs \cup {Nil}
    /\ gauges \in [Routes -> Gauges \cup {Nil}]
    /\ now \in Nat
    /\ spent \in [BudgetKinds -> Nat]

NoStatus == [phase |-> "", managed |-> 0, conditions |-> [t \in ConditionTypes |-> Nil]]

Init ==
    /\ CanaryInit
    /\ routes = [r \in Routes |-> Nil]
    /\ cache = routes
    /\ children = [id \in ChildIds |-> Nil]
    /\ childCache = children
    /\ services \in [ServiceKeys -> ServiceStates]
    /\ gateways \in [GatewayRefs -> GatewayStates]
    /\ secrets \in [SecretKeys -> SecretStates]
    /\ queue = {}
    /\ delayed = {}
    /\ pc = "idle"
    /\ job = Nil
    /\ gauges = [r \in Routes |-> Nil]
    /\ now = 0
    /\ spent = [k \in BudgetKinds |-> 0]

-----------------------------------------------------------------------------
(* Helpers of the actions.                                                 *)

\* One more environment step of kind k, within its bound.
Spend(k) ==
    /\ spent[k] < Budget[k]
    /\ spent' = [spent EXCEPT ![k] = @ + 1]

\* The outcomes of a call that the API server would accept: it returns, it is
\* never received, or it is executed and its answer is lost.
Outcomes == {"ok", "refused", "lost"}
Applied(out) == out # "refused"
CallFault(accepted, out) ==
    IF out = "ok" THEN UNCHANGED spent ELSE accepted /\ Spend("fault")

\* The API server accepts an update only of the version that was read.
NotModified(r) == routes[r] = job.base

Admitted(r, spec) == WebhookEnabled => validateRoute(r, spec, gateways, cache)
Mutated(spec) == IF WebhookEnabled THEN Default(spec) ELSE spec

\* Reconcile returns: nothing more to do, RequeueAfter, or an error (which
\* comes back after a backoff).
Return ==
    /\ pc' = "idle"
    /\ job' = Nil
    /\ UNCHANGED delayed
ReturnRequeue ==
    /\ pc' = "idle"
    /\ job' = Nil
    /\ delayed' = delayed \cup {job.key}

\* setRoutePhaseMetric and setRouteBackendHealthState set every label value,
\* setManagedResourcesMetric its one gauge.
OneHot(values, current) == [v \in values |-> IF v = current THEN 1 ELSE 0]

\* Bug: the label value of the phase before is not set back to 0.
RouteMetricsSticky(phase, state, count) ==
    [phase |-> [v \in phaseValues |->
        IF v = phase \/ (gauges[job.key] # Nil /\ gauges[job.key].phase[v] = 1) THEN 1 ELSE 0],
     health |-> OneHot(backendStates, state), managed |-> count]

RouteMetrics(phase, state, count) ==
    [phase |-> OneHot(phaseValues, phase), health |-> OneHot(backendStates, state), managed |-> count]

clearRouteMetrics(r) == gauges' = [gauges EXCEPT ![r] = Nil]

\* Writes to the children; without lag the caches see them at once.
SetChildren(new) ==
    /\ children' = new
    /\ childCache' = IF ChildLag THEN childCache ELSE new

\* Owns(HTTPRoute): an event of a changed HTTPRoute wakes the Routes that its
\* old and its new state name as owner.  The other kinds that the controller
\* watches carry no ownerReference, so their events wake nobody.
Woken(id, old, new) ==
    IF id.kind # "HTTPRoute" \/ old = new THEN {}
    ELSE { r \in Routes : /\ r.ns = id.ns
                          /\ \E o \in {old, new} \ {Nil} : o.label = r.name }

\* setCondition: a condition whose status and reason stay is left alone, its
\* message and its observedGeneration included.
setCondition(conditions, type, status, reason, gen) ==
    IF /\ conditions[type] # Nil
       /\ conditions[type].status = status
       /\ conditions[type].reason = reason
    THEN conditions
    ELSE [conditions EXCEPT ![type] = [status |-> status, reason |-> reason, gen |-> gen]]

-----------------------------------------------------------------------------
(* The worker: Reconcile.                                                  *)

NewJob(r) ==
    [key |-> r, base |-> cache[r], conditions |-> cache[r].status.conditions,
     verdict |-> "healthy", canary |-> Nil, start |-> 0, step |-> 1,
     managed |-> 0, failed |-> FALSE]

\* Bug: children are written before the finalizer.
FirstStepWithoutFinalizer(o) == IF o.deleting THEN "cleanup" ELSE "certificate"

\* Bug: a Degraded Route is torn down as if it were being deleted.
FirstStepTearsDown(o) ==
    IF o.deleting \/ o.status.phase = "Degraded" THEN "cleanup"
    ELSE IF o.finalizer THEN "certificate" ELSE "finalize"

\* Bug: the deletionTimestamp is not looked at.
FirstStepIgnoresDeletion(o) == IF o.finalizer THEN "certificate" ELSE "finalize"

\* Where Reconcile goes with the Route it read.
FirstStep(o) ==
    IF o.deleting THEN "cleanup" ELSE IF o.finalizer THEN "certificate" ELSE "finalize"

\* The Get finds no Route.
BeginGone(r) ==
    /\ pc = "idle"
    /\ r \in queue
    /\ cache[r] = Nil
    /\ queue' = queue \ {r}
    /\ UNCHANGED <<canaryVars, apiVars, cache, childCache, delayed, pc, job, gauges, now, spent>>

\* The Get fails.
BeginFails(r) ==
    /\ pc = "idle"
    /\ r \in queue
    /\ Spend("fault")
    /\ queue' = queue \ {r}
    /\ delayed' = delayed \cup {r}
    /\ UNCHANGED <<canaryVars, apiVars, cache, childCache, pc, job, gauges, now>>

\* A Route that is being deleted and whose finalizer is gone: only the memory
\* of the process is cleared.
BeginReleased(r) ==
    /\ pc = "idle"
    /\ r \in queue
    /\ cache[r] # Nil
    /\ cache[r].deleting /\ ~cache[r].finalizer
    /\ queue' = queue \ {r}
    /\ clearCanaryRuntimeState(r)
    /\ clearRouteMetrics(r)
    /\ UNCHANGED <<apiVars, cache, childCache, delayed, pc, job, now, spent>>

Begin(r) ==
    /\ pc = "idle"
    /\ r \in queue
    /\ cache[r] # Nil
    /\ cache[r].deleting => cache[r].finalizer
    /\ queue' = queue \ {r}
    /\ job' = NewJob(r)
    /\ pc' = FirstStep(cache[r])
    /\ UNCHANGED <<canaryVars, apiVars, cache, childCache, delayed, gauges, now, spent>>

\* Bug: the List looks in the namespace of the Route.
ListedBesideRoute(kind) ==
    { id \in ChildIds : /\ id.kind = kind
                        /\ id.ns = job.key.ns
                        /\ childCache[id] # Nil
                        /\ childCache[id].label = job.key.name }

\* What the List for one kind returns: the children in the namespace of the
\* Gateway whose label is the name of the Route.
Listed(kind) ==
    { id \in ChildIds : /\ id.kind = kind
                        /\ id.ns = gatewayRef(job.base.spec).ns
                        /\ childCache[id] # Nil
                        /\ childCache[id].label = job.key.name }

\* One block of cleanupOwnedResources: List a kind and delete what it returned.
\* An error of the List, or of any Delete, is dropped: the children in kept
\* stay and nobody is told.
CleanupKind ==
    /\ pc = "cleanup"
    /\ LET victims == Listed(CrossKinds[job.step])
       IN  \E kept \in SUBSET victims :
           /\ IF kept = {} THEN UNCHANGED spent ELSE Spend("fault")
           /\ SetChildren([id \in ChildIds |-> IF id \in victims \ kept THEN Nil ELSE children[id]])
    /\ IF job.step = Len(CrossKinds)
       THEN pc' = "unfinalize" /\ UNCHANGED job
       ELSE job' = [job EXCEPT !.step = @ + 1] /\ UNCHANGED pc
    /\ UNCHANGED <<canaryVars, routes, cache, clusterVars, queue, delayed, gauges, now>>

\* RemoveFinalizer and Update, which the validating webhook sees as any other
\* update, then clearCanaryRuntimeState and clearRouteMetrics.
RemoveFinalizer(out) ==
    /\ pc = "unfinalize"
    /\ LET r == job.key
           accepted == NotModified(r) /\ Admitted(r, job.base.spec)
       IN  /\ CallFault(accepted, out)
           /\ routes' = [routes EXCEPT
                ![r] = IF ~accepted \/ ~Applied(out) THEN @
                       ELSE IF job.base.hold THEN [@ EXCEPT !.finalizer = FALSE]
                       ELSE Nil]
           /\ IF accepted /\ out = "ok"
              THEN /\ clearCanaryRuntimeState(r)
                   /\ clearRouteMetrics(r)
                   /\ Return
              ELSE /\ UNCHANGED <<canaryVars, gauges>>
                   /\ ReturnRequeue
    /\ UNCHANGED <<cache, children, childCache, clusterVars, queue, now>>

\* AddFinalizer and Update; Reconcile goes on with the object it got back.
AddFinalizer(out) ==
    /\ pc = "finalize"
    /\ LET r == job.key
           new == [job.base EXCEPT !.finalizer = TRUE, !.spec = Mutated(@)]
           accepted == NotModified(r) /\ Admitted(r, new.spec)
       IN  /\ CallFault(accepted, out)
           /\ routes' = [routes EXCEPT ![r] = IF accepted /\ Applied(out) THEN new ELSE @]
           /\ IF accepted /\ out = "ok"
              THEN /\ job' = [job EXCEPT !.base = new]
                   /\ pc' = "certificate"
                   /\ UNCHANGED delayed
              ELSE ReturnRequeue
    /\ UNCHANGED <<canaryVars, cache, children, childCache, clusterVars, queue, gauges, now>>

\* evaluateGatewayCertificate and setCondition.
CheckCertificate ==
    /\ pc = "certificate"
    /\ LET reason == evaluateGatewayCertificate(job.base.spec, gateways, secrets, now)
       IN  job' = [job EXCEPT !.conditions =
                     setCondition(@, "CertificateHealthy", reason \in CertificateOK, reason, job.base.gen)]
    /\ pc' = "conflicts"
    /\ UNCHANGED <<canaryVars, apiVars, cache, childCache, queue, delayed, gauges, now, spent>>

\* A List or a Get of one of the three evaluations fails: Reconcile returns the
\* error and writes no status.
EvaluationFails ==
    /\ pc \in {"certificate", "conflicts", "backends"}
    /\ Spend("fault")
    /\ ReturnRequeue
    /\ UNCHANGED <<canaryVars, apiVars, cache, childCache, queue, gauges, now>>

\* Bug: precedence is forgotten, so that both sides give way.
evaluateRouteConflictsBoth(r, o) ==
    { q \in Routes \ {r} :
        /\ cache[q] # Nil
        /\ ~cache[q].deleting
        /\ ruleIdentities(o.spec) \cap ruleIdentities(cache[q].spec) # {} }

\* The cached Routes that r has to give way to.
evaluateRouteConflicts(r, o) ==
    { q \in Routes \ {r} :
        /\ cache[q] # Nil
        /\ ~cache[q].deleting
        /\ ~routePrecedes(r, o.created, q, cache[q].created)
        /\ ruleIdentities(o.spec) \cap ruleIdentities(cache[q].spec) # {} }

CheckConflicts ==
    /\ pc = "conflicts"
    /\ IF evaluateRouteConflicts(job.key, job.base) = {}
       THEN pc' = "backends" /\ UNCHANGED job
       ELSE pc' = "status" /\ job' = [job EXCEPT !.verdict = "conflict"]
    /\ UNCHANGED <<canaryVars, apiVars, cache, childCache, queue, delayed, gauges, now, spent>>

\* phaseReasonAndMessage of evaluateBackendHealth: a missing Service weighs more
\* than one without ready endpoints.
evaluateBackendHealth(r, spec) ==
    LET states == { services[[ns |-> r.ns, name |-> s]] : s \in backendServices(spec) }
    IN  IF "missing" \in states THEN "missing_service"
        ELSE IF "empty" \in states THEN "zero_endpoints"
        ELSE "healthy"

CheckBackends ==
    /\ pc = "backends"
    /\ LET health == evaluateBackendHealth(job.key, job.base.spec)
       IN  /\ job' = [job EXCEPT !.verdict = health]
           /\ pc' = IF health = "healthy" THEN "canary" ELSE "status"
    /\ UNCHANGED <<canaryVars, apiVars, cache, childCache, queue, delayed, gauges, now, spent>>

HasPolicy(spec) == spec.canary # Nil /\ spec.canary.rollback # Nil

\* The choice of the effective canary, without a probe: no rollback policy, or
\* a rollback whose cooldown runs.
ChooseCanary ==
    /\ pc = "canary"
    /\ HasPolicy(job.base.spec) => InCooldown(job.key, now)
    /\ job' = [job EXCEPT !.canary = IF HasPolicy(job.base.spec) THEN Nil ELSE job.base.spec.canary]
    /\ pc' = "children"
    /\ UNCHANGED <<canaryVars, apiVars, cache, childCache, queue, delayed, gauges, now, spent>>

StartProbe ==
    /\ pc = "canary"
    /\ HasPolicy(job.base.spec)
    /\ ~InCooldown(job.key, now)
    /\ job' = [job EXCEPT !.start = now]
    /\ pc' = "probe"
    /\ UNCHANGED <<canaryVars, apiVars, cache, childCache, queue, delayed, gauges, now, spent>>

\* The probe ends; its answer is the canary Service's own.
FinishProbe(isFiveXX) ==
    /\ pc = "probe"
    /\ LET r == job.key
           policy == job.base.spec.canary.rollback
       IN  /\ RecordProbe(r, policy, job.start, isFiveXX)
           /\ job' = [job EXCEPT !.canary =
                        IF rollbackActive(r, policy, job.start, isFiveXX)
                        THEN Nil ELSE job.base.spec.canary]
    /\ pc' = "children"
    /\ UNCHANGED <<apiVars, cache, childCache, queue, delayed, gauges, now, spent>>

\* Bug: the loop over the rules starts at the second one.
PlanFromSecondRule == Tail(childPlan(job.key, job.base.spec, job.canary))

Plan == childPlan(job.key, job.base.spec, job.canary)
Operation == Plan[job.step]

\* Bug: reconcileErr is that of the last operation.
AdvanceForgetting(succeeded) ==
    /\ job' = [job EXCEPT !.step = @ + 1,
                          !.managed = IF succeeded /\ Operation.op = "put" THEN @ + 1 ELSE @,
                          !.failed = ~succeeded]
    /\ pc' = IF job.step + 1 \in DOMAIN Plan THEN "children" ELSE "status"

\* Bug: managedCount counts operations, not the children they leave.
AdvanceCountingAll(succeeded) ==
    /\ job' = [job EXCEPT !.step = @ + 1, !.managed = @ + 1, !.failed = @ \/ ~succeeded]
    /\ pc' = IF job.step + 1 \in DOMAIN Plan THEN "children" ELSE "status"

\* managedCount and reconcileErr after an operation, and the next one: errors
\* are remembered and the remaining operations still run.
Advance(succeeded) ==
    /\ job' = [job EXCEPT !.step = @ + 1,
                          !.managed = IF succeeded /\ Operation.op = "put" THEN @ + 1 ELSE @,
                          !.failed = @ \/ ~succeeded]
    /\ pc' = IF job.step + 1 \in DOMAIN Plan THEN "children" ELSE "status"

\* createOrUpdate and createOrUpdateCrossNS: a cached Get chooses between Create
\* (refused if the child exists after all) and Update (refused if the child is
\* not the cached one any more).  Whose child it is, is not looked at.
PutChild(out) ==
    /\ pc = "children"
    /\ job.step \in DOMAIN Plan
    /\ Operation.op = "put"
    /\ LET id == Operation.ids[1]
           new == [uid |-> job.base.uid, label |-> job.key.name, body |-> Operation.body]
           accepted == children[id] = childCache[id]
           applied == accepted /\ Applied(out)
       IN  /\ CallFault(accepted, out)
           /\ SetChildren(IF applied THEN [children EXCEPT ![id] = new] ELSE children)
           /\ queue' = IF applied THEN queue \cup Woken(id, children[id], new) ELSE queue
           /\ Advance(accepted /\ out = "ok")
    /\ UNCHANGED <<canaryVars, routes, cache, clusterVars, delayed, gauges, now>>

\* deleteAuthResources and deleteRateLimitEnvoyFilter: the children are deleted
\* by name, in order, up to the first call that fails; n of them are gone then.
DeleteChildren(n, succeeded) ==
    /\ pc = "children"
    /\ IF succeeded THEN UNCHANGED spent ELSE Spend("fault")
    /\ job.step \in DOMAIN Plan
    /\ Operation.op = "delete"
    /\ LET ids == Operation.ids
       IN  /\ n \in 0 .. Len(ids)
           /\ succeeded => n = Len(ids)
           /\ SetChildren([id \in ChildIds |->
                             IF \E i \in 1 .. n : ids[i] = id THEN Nil ELSE children[id]])
           /\ Advance(succeeded)
    /\ UNCHANGED <<canaryVars, routes, cache, clusterVars, queue, delayed, gauges, now>>

\* A child that cannot be built (maxBodySize is no number).
SkipChild ==
    /\ pc = "children"
    /\ job.step \in DOMAIN Plan
    /\ Operation.op = "fail"
    /\ Advance(FALSE)
    /\ UNCHANGED <<canaryVars, apiVars, cache, childCache, queue, delayed, gauges, now, spent>>

\* Bug: a phase that the CRD does not know.
PhaseUnknown(j) ==
    IF j.verdict # "healthy" THEN "Pending" ELSE IF j.failed THEN "Failed" ELSE "Active"

\* The three ways Reconcile fills in the status it is about to write.
Phase(j) ==
    CASE j.verdict = "missing_service" -> "Pending"
      [] j.verdict \in {"conflict", "zero_endpoints"} -> "Degraded"
      [] OTHER -> IF j.failed THEN "Degraded" ELSE "Active"
SyncedReason(j) ==
    CASE j.verdict = "conflict" -> "RouteConflict"
      [] j.verdict = "missing_service" -> "BackendServiceMissing"
      [] j.verdict = "zero_endpoints" -> "BackendNoEndpoints"
      [] OTHER -> IF j.failed THEN "ReconcileError" ELSE "ReconcileSuccess"
ReadyReason(j) ==
    IF j.verdict # "healthy" THEN SyncedReason(j)
    ELSE IF j.failed THEN "NotReady" ELSE "Available"

\* Bug: Ready is set where all went well, and forgotten where it did not.
NewStatusReadyOnSuccess(j) ==
    LET good == Phase(j) = "Active"
        synced == setCondition(j.conditions, "Synced", good, SyncedReason(j), j.base.gen)
    IN  [phase |-> Phase(j),
         managed |-> IF j.verdict = "healthy" THEN j.managed ELSE 0,
         conditions |-> IF good THEN setCondition(synced, "Ready", TRUE, "Available", j.base.gen)
                        ELSE synced]

NewStatus(j) ==
    LET good == Phase(j) = "Active"
        synced == setCondition(j.conditions, "Synced", good, SyncedReason(j), j.base.gen)
    IN  [phase |-> Phase(j),
         managed |-> IF j.verdict = "healthy" THEN j.managed ELSE 0,
         conditions |-> setCondition(synced, "Ready", good, ReadyReason(j), j.base.gen)]

\* Is the Route reconciled again without an event?  After a conflict and while
\* the backends are not ready, after an error, and for the next canary probe.
Requeues(j) == j.verdict # "healthy" \/ j.failed \/ HasPolicy(j.base.spec)

AfterStatus(ok) == IF ok /\ ~Requeues(job) THEN Return ELSE ReturnRequeue

\* Status().Update (the webhooks do not see the subresource) and the metrics.
WriteStatus(out) ==
    /\ pc = "status"
    /\ LET r == job.key
           accepted == NotModified(r)
           new == NewStatus(job)
       IN  /\ CallFault(accepted, out)
           /\ routes' = [routes EXCEPT
                ![r] = IF accepted /\ Applied(out) THEN [@ EXCEPT !.status = new] ELSE @]
           /\ gauges' = IF accepted /\ out = "ok"
                        THEN [gauges EXCEPT ![r] = RouteMetrics(new.phase, job.verdict, new.managed)]
                        ELSE gauges
           /\ AfterStatus(accepted /\ out = "ok")
    /\ UNCHANGED <<canaryVars, cache, children, childCache, clusterVars, queue, now>>

-----------------------------------------------------------------------------
(* The work queue and the caches.                                          *)

RequeueDue(r) ==
    /\ r \in delayed
    /\ delayed' = delayed \ {r}
    /\ queue' = queue \cup {r}
    /\ UNCHANGED <<canaryVars, apiVars, cache, childCache, pc, job, gauges, now, spent>>

\* The periodic resync hands every cached Route to the worker again.
Resync ==
    /\ queue' = queue \cup { r \in Routes : cache[r] # Nil }
    /\ queue' # queue
    /\ UNCHANGED <<canaryVars, apiVars, cache, childCache, delayed, pc, job, gauges, now, spent>>

\* Bug: a predicate keeps updates of a Route from the worker.
CacheSyncCreatesOnly ==
    /\ cache # routes
    /\ cache' = routes
    /\ queue' = queue \cup { r \in Routes : cache[r] = Nil /\ routes[r] # Nil }
    /\ UNCHANGED <<canaryVars, apiVars, childCache, delayed, pc, job, gauges, now, spent>>

\* The watch on Routes catches up and wakes the Routes that changed.
CacheSync ==
    /\ cache # routes
    /\ cache' = routes
    /\ queue' = queue \cup { r \in Routes : cache[r] # routes[r] }
    /\ UNCHANGED <<canaryVars, apiVars, childCache, delayed, pc, job, gauges, now, spent>>

\* The watches on the children catch up.
ChildSync ==
    /\ childCache # children
    /\ childCache' = children
    /\ UNCHANGED <<canaryVars, apiVars, cache, workerVars, now, spent>>

\* The process restarts: its memory is lost and its caches are filled by a new
\* List, which wakes every Route there is.
Crash ==
    /\ Spend("crash")
    /\ CanaryReset
    /\ cache' = routes
    /\ childCache' = children
    /\ queue' = { r \in Routes : routes[r] # Nil }
    /\ delayed' = {}
    /\ pc' = "idle"
    /\ job' = Nil
    /\ gauges' = [r \in Routes |-> Nil]
    /\ UNCHANGED <<apiVars, now>>

-----------------------------------------------------------------------------
(* The users, the cluster and the garbage collector.                       *)

CreateRoute(r, spec) ==
    /\ routes[r] = Nil
    /\ Admitted(r, Mutated(spec))
    /\ Spend("create")
    /\ routes' = [routes EXCEPT
         ![r] = [uid |-> spent["create"], created |-> now, gen |-> 1, spec |-> Mutated(spec),
                 status |-> NoStatus, finalizer |-> FALSE, deleting |-> FALSE, hold |-> FALSE]]
    /\ UNCHANGED <<canaryVars, cache, children, childCache, clusterVars, workerVars, now>>

EditRoute(r, spec) ==
    /\ routes[r] # Nil
    /\ routes[r].spec # Mutated(spec)
    /\ Admitted(r, Mutated(spec))
    /\ Spend("edit")
    /\ routes' = [routes EXCEPT ![r].spec = Mutated(spec), ![r].gen = @ + 1]
    /\ UNCHANGED <<canaryVars, cache, children, childCache, clusterVars, workerVars, now>>

\* A Route without finalizers disappears at once, any other is marked.
DeleteRoute(r, foreground) ==
    /\ routes[r] # Nil
    /\ ~routes[r].deleting
    /\ Spend("delete")
    /\ routes' = [routes EXCEPT
         ![r] = IF @.finalizer \/ foreground
                THEN [@ EXCEPT !.deleting = TRUE, !.hold = foreground, !.gen = routes[r].gen + 1]
                ELSE Nil]
    /\ UNCHANGED <<canaryVars, cache, children, childCache, clusterVars, workerVars, now>>

Owned(id) == id.kind \notin ToSet(CrossKinds)

\* The garbage collector deletes an owned child whose owner is gone, or waits
\* for its children in a foreground deletion.
GarbageCollect(id) ==
    /\ children[id] # Nil
    /\ Owned(id)
    /\ ~\E r \in Routes : /\ routes[r] # Nil
                          /\ routes[r].uid = children[id].uid
                          /\ ~routes[r].hold
    /\ SetChildren([children EXCEPT ![id] = Nil])
    /\ queue' = queue \cup Woken(id, children[id], Nil)
    /\ UNCHANGED <<canaryVars, routes, cache, clusterVars, delayed, pc, job, gauges, now, spent>>

\* It then releases the Route.
ReleaseHold(r) ==
    /\ routes[r] # Nil
    /\ routes[r].hold
    /\ \A id \in ChildIds : Owned(id) /\ children[id] # Nil => children[id].uid # routes[r].uid
    /\ routes' = [routes EXCEPT
         ![r] = IF @.finalizer THEN [@ EXCEPT !.hold = FALSE] ELSE Nil]
    /\ UNCHANGED <<canaryVars, cache, children, childCache, clusterVars, workerVars, now, spent>>

\* Somebody deletes a child by hand.
DeleteChild(id) ==
    /\ children[id] # Nil
    /\ Spend("meddle")
    /\ SetChildren([children EXCEPT ![id] = Nil])
    /\ queue' = queue \cup Woken(id, children[id], Nil)
    /\ UNCHANGED <<canaryVars, routes, cache, clusterVars, delayed, pc, job, gauges, now>>

SetService(s, state) ==
    /\ services[s] # state
    /\ Spend("service")
    /\ services' = [services EXCEPT ![s] = state]
    /\ UNCHANGED <<canaryVars, routes, cache, children, childCache, gateways, secrets, workerVars, now>>

SetGateway(g, state) ==
    /\ gateways[g] # state
    /\ Spend("gateway")
    /\ gateways' = [gateways EXCEPT ![g] = state]
    /\ UNCHANGED <<canaryVars, routes, cache, children, childCache, services, secrets, workerVars, now>>

SetSecret(k, state) ==
    /\ secrets[k] # state
    /\ Spend("secret")
    /\ secrets' = [secrets EXCEPT ![k] = state]
    /\ UNCHANGED <<canaryVars, routes, cache, children, childCache, services, gateways, workerVars, now>>

Tick ==
    /\ now < MaxNow
    /\ now' = now + 1
    /\ UNCHANGED <<canaryVars, apiVars, cache, childCache, workerVars, spent>>

-----------------------------------------------------------------------------

BeginAny(r) == BeginGone(r) \/ BeginFails(r) \/ BeginReleased(r) \/ Begin(r)

Worker ==
    \/ CleanupKind
    \/ \E out \in Outcomes :
         RemoveFinalizer(out) \/ AddFinalizer(out) \/ PutChild(out) \/ WriteStatus(out)
    \/ CheckCertificate \/ CheckConflicts \/ CheckBackends \/ EvaluationFails
    \/ ChooseCanary \/ StartProbe \/ \E bad \in BOOLEAN : FinishProbe(bad)
    \/ \E n \in 0 .. 2, succeeded \in BOOLEAN : DeleteChildren(n, succeeded)
    \/ SkipChild

Collector ==
    \/ \E id \in ChildIds : GarbageCollect(id)
    \/ \E r \in Routes : ReleaseHold(r)

User ==
    \/ \E r \in Routes, spec \in Specs : CreateRoute(r, spec) \/ EditRoute(r, spec)
    \/ \E r \in Routes, foreground \in BOOLEAN : DeleteRoute(r, foreground)
    \/ \E id \in ChildIds : DeleteChild(id)

Cluster ==
    \/ \E s \in ServiceKeys, state \in ServiceStates : SetService(s, state)
    \/ \E g \in GatewayRefs, state \in GatewayStates \cup {Nil} : SetGateway(g, state)
    \/ \E k \in SecretKeys, state \in SecretStates \cup {Nil} : SetSecret(k, state)

Next ==
    \/ \E r \in Routes : BeginAny(r) \/ RequeueDue(r)
    \/ Worker
    \/ Resync \/ CacheSync \/ ChildSync \/ Crash
    \/ Collector \/ User \/ Cluster \/ Tick

Spec == Init /\ [][Next]_vars

\* The worker goroutine runs as long as the process does and each of its calls has
\* a timeout: it is idle again and again, or takes one step after the other.  This is
\* WF_vars(Worker), as Worker is enabled unless it is idle, and every step of Worker
\* and no other but a restart moves it.
WorkerRuns == []<>(pc = "idle") \/ []<><<TRUE>>_<<pc, job>>

\* The watches are reconnected until they deliver; the work queue is first in, first
\* out, so a queued key is reached however often others are added; backoffs,
\* RequeueAfter and the resync period are finite; the garbage collector is a control
\* loop of its own.  Users, faults and restarts are not fair.
Fairness ==
    /\ WorkerRuns
    /\ \A r \in Routes : SF_vars(BeginAny(r)) /\ WF_vars(RequeueDue(r))
    /\ WF_vars(CacheSync) /\ WF_vars(ChildSync) /\ WF_vars(Resync)
    /\ WF_vars(Collector)

FairSpec == Spec /\ Fairness

-----------------------------------------------------------------------------
(* Properties.                                                             *)

Live(r) == routes[r] # Nil /\ ~routes[r].deleting

\* Is the child that an operation is about the way the operation leaves it?
Done(o, uid) ==
    CASE o.op = "put" -> /\ children[o.ids[1]] # Nil
                         /\ children[o.ids[1]].uid = uid
                         /\ children[o.ids[1]].body = o.body
      [] o.op = "delete" -> \A i \in DOMAIN o.ids : children[o.ids[i]] = Nil
      [] OTHER -> FALSE

\* Do the children of r include the ones its specification asks for, with this
\* canary?  Children that only an earlier specification asked for may be left.
InSync(r, canary) ==
    LET plan == childPlan(r, routes[r].spec, canary)
    IN  \A k \in DOMAIN plan : Done(plan[k], routes[r].uid)

\* Nothing is left to do until the next event, timer or resync.
Quiet == pc = "idle" /\ queue = {} /\ cache = routes

\* A live Route has a child only once its finalizer is stored at the API
\* server.  Wherever the process stops, and however stale its cache is, the
\* deletion of a Route with children therefore waits for the controller.
FinalizerFirst ==
    \A id \in ChildIds, r \in Routes :
        /\ children[id] # Nil
        /\ Live(r)
        /\ routes[r].uid = children[id].uid
        => routes[r].finalizer

\* A cross-namespace child, which no garbage collector looks after, never
\* outlives its Route: cleanupOwnedResources is complete when the finalizer goes.
NoOrphans ==
    \A id \in ChildIds :
        children[id] # Nil /\ ~Owned(id)
            => \E r \in Routes : routes[r] # Nil /\ routes[r].uid = children[id].uid

\* The phase Active is written only when the children include the ones asked for
\* by the specification the API server holds at that moment, not one read earlier.
ActiveIsTrue ==
    [][ \A r \in Routes :
          /\ routes[r] # Nil
          /\ routes'[r] # Nil
          /\ routes'[r].status # routes[r].status
          /\ routes'[r].status.phase = "Active"
          => InSync(r, job.canary) ]_vars

\* Whenever the controller has nothing left to do, the children of an Active
\* Route include the ones its specification asks for, as it asks for them.
ActiveStaysTrue ==
    Quiet => \A r \in Routes :
        Live(r) /\ routes[r].status.phase = "Active" /\ ~HasPolicy(routes[r].spec)
            => InSync(r, routes[r].spec.canary)

\* What the children of r with a kind say.
OwnBodies(r, kind) ==
    { children[id].body : id \in
        { i \in ChildIds : i.kind = kind /\ children[i] # Nil /\ children[i].uid = routes[r].uid } }

\* The path of a rule, the shares of its traffic, a duration and a burst, as a user
\* reads them: a duration that does not parse counts as none.
PathOf(rule) == IF rule.path = <<>> THEN <<"/">> ELSE rule.path
Split(spec, rule) ==
    IF spec.canary = Nil THEN {<<rule.backend, 100>>}
    ELSE {<<rule.backend, 100 - spec.canary.weight>>, <<spec.canary.backend, spec.canary.weight>>}
Shares(to) == { <<to[k].to, IF Len(to) = 1 THEN 100 ELSE to[k].weight>> : k \in DOMAIN to }
Duration(s) == IF s \in {"", "bad"} THEN Nil ELSE s
Burst(rate) == IF rate.burst = Nil THEN rate.requests ELSE rate.burst
FillIntervals == { <<"Second", "1s">>, <<"Minute", "60s">>, <<"Hour", "3600s">> }

\* Header operations: whether there are any, and a list of filters that has them.
Pairs(m) == { [name |-> n, value |-> m[n]] : n \in mapKeys(m) }
Asked(ops) == ops # Nil /\ (Pairs(ops.set) # {} \/ Pairs(ops.add) # {} \/ ops.remove # <<>>)
Modified(filters, type, ops) ==
    Asked(ops) =>
        \E f \in ToSet(filters) :
            /\ f.type = type
            /\ ToSet(f.modifier.set) = Pairs(ops.set)
            /\ ToSet(f.modifier.add) = Pairs(ops.add)
            /\ f.modifier.remove = ops.remove

\* The HTTPRoute of a rule: its Gateway, host, path, weights and headers.
RuleRouted(r, spec, rule) ==
    \E b \in OwnBodies(r, "HTTPRoute") :
        /\ b.gateway = gatewayRef(spec)
        /\ b.section = "https" /\ b.host = rule.host /\ b.path = PathOf(rule)
        /\ Shares(b.to) = Split(spec, rule)
        /\ rule.headers # Nil =>
             /\ Modified(b.filters, "RequestHeaderModifier", rule.headers.request)
             /\ Modified(b.filters, "ResponseHeaderModifier", rule.headers.response)
RuleRedirected(r, spec, rule) ==
    spec.ssl # "off" =>
        \E b \in OwnBodies(r, "HTTPRoute") :
            b.gateway = gatewayRef(spec) /\ b.section = "http" /\ b.host = rule.host

\* Its route in the VirtualService, which takes the place of the HTTPRoute: besides
\* what the HTTPRoute says, the timeout, CORS, retries.
RuleTuned(r, spec, rule) ==
    spec.timeout # "" \/ spec.cors # Nil \/ spec.retries # Nil \/ spec.canary # Nil =>
        \E b \in OwnBodies(r, "VirtualService") : \E h \in ToSet(b.http) :
            /\ b.gateway = gatewayRef(spec) /\ rule.host \in ToSet(b.hosts)
            /\ h.host = rule.host /\ h.path = PathOf(rule)
            /\ Shares(h.to) = Split(spec, rule)
            /\ h.timeout = Duration(spec.timeout)
            /\ h.cors = IF spec.cors = Nil THEN Nil
                        ELSE [origins |-> spec.cors.origins, methods |-> spec.cors.methods,
                              headers |-> spec.cors.headers, maxAge |-> Duration(spec.cors.maxAge)]
            /\ h.retries = IF spec.retries = Nil THEN Nil
                           ELSE [attempts |-> spec.retries.attempts, retryOn |-> spec.retries.retryOn,
                                 perTryTimeout |-> Duration(spec.retries.perTryTimeout)]
            /\ rule.headers # Nil =>
                 /\ Asked(rule.headers.request) => h.headers.request = rule.headers.request
                 /\ Asked(rule.headers.response) => h.headers.response = rule.headers.response

\* TLS to its HTTPS backends.
RuleEncrypted(r, spec, rule) ==
    \A pair \in Split(spec, rule) : pair[1].protocol = "HTTPS" =>
        \E b \in OwnBodies(r, "DestinationRule") :
            b.service = pair[1].service /\ b.ns = r.ns /\ b.port = pair[1].port

\* Its limits on the size of a body and on the rate, with the filter they configure.
Patched(r, spec, vhost, filter, config) ==
    \E b \in OwnBodies(r, "EnvoyFilter") : \E p \in ToSet(b.patches) :
        /\ b.selector = gatewayRef(spec).name
        /\ p.vhost = vhost /\ p.filter = filter /\ p.config = config
RuleLimited(r, spec, rule) ==
    /\ spec.maxBody # "" => Patched(r, spec, rule.host, "buffer", <<spec.maxBody>>)
    /\ spec.rate # Nil =>
         /\ Patched(r, spec, <<>>, "local_ratelimit", <<>>)
         /\ \E fill \in FillIntervals :
              /\ fill[1] = spec.rate.unit
              /\ Patched(r, spec, rule.host, "local_ratelimit",
                         <<Burst(spec.rate), spec.rate.requests, fill[2]>>)

\* Its authentication, and a policy that lets through the requests it routes: a
\* pattern with one star, at the end, whether or not the path has one already.
WithoutStar(path) == IF path[Len(path)] = "*" THEN SubSeq(path, 1, Len(path) - 1) ELSE path
RuleProtected(r, spec, rule) ==
    spec.auth # Nil =>
        /\ \E b \in OwnBodies(r, "RequestAuthentication") :
              /\ b.selector = gatewayRef(spec).name
              /\ b.issuer = spec.auth.issuer /\ b.jwksUri = spec.auth.jwksUri
              /\ b.audiences = spec.auth.audiences
              /\ b.forward = (spec.auth.forward \in {"unset", "on"})
        /\ \E b \in OwnBodies(r, "AuthorizationPolicy") : \E k \in DOMAIN b.allow :
              /\ b.selector = gatewayRef(spec).name
              /\ b.allow[k].host = rule.host
              /\ b.allow[k].path = WithoutStar(PathOf(rule)) \o <<"*">>

\* The children of r do, rule by rule, what its specification says.  Unlike
\* InSync this does not depend on how childPlan builds them.
Serves(r) ==
    LET spec == routes[r].spec IN
    \A i \in DOMAIN spec.rules :
        LET rule == spec.rules[i] IN
        /\ RuleRouted(r, spec, rule) /\ RuleRedirected(r, spec, rule) /\ RuleTuned(r, spec, rule)
        /\ RuleEncrypted(r, spec, rule) /\ RuleLimited(r, spec, rule) /\ RuleProtected(r, spec, rule)

\* Whenever the controller has nothing left to do, an Active Route has, for each of
\* its rules, the routing with its weights and headers, the redirect, timeout, CORS,
\* retries, TLS, limits and authentication that its specification says.
ActiveServes ==
    Quiet => \A r \in Routes :
        Live(r) /\ routes[r].status.phase = "Active" /\ ~HasPolicy(routes[r].spec) => Serves(r)

\* Cleaning up after a deleted Route, possibly from a stale cache, takes nothing
\* from a live one.
CleanupSparesOthers ==
    [][ pc = "cleanup" =>
          \A id \in ChildIds :
             children[id] # Nil /\ children'[id] # children[id]
                => \A r \in Routes : Live(r) => routes[r].uid # children[id].uid ]_vars

\* Do the gauges of r, of which one phase and one health are set, say what its
\* status says?
MetricsAgree(r) ==
    LET g == gauges[r]
    IN  /\ {p \in DOMAIN g.phase : g.phase[p] = 1} = {routes[r].status.phase}
        /\ (g.health["healthy"] = 1) = (routes[r].status.conditions["Synced"].reason
                                           \in {"ReconcileSuccess", "ReconcileError"})
        /\ g.managed = routes[r].status.managed

\* The exported metrics of a Route say what its status says, and there are none
\* for a Route that is gone.
MetricsFollowStatus ==
    \A r \in Routes : gauges[r] # Nil => routes[r] # Nil /\ MetricsAgree(r)

\* After a call whose answer was lost, and after the Route was deleted and
\* created again meanwhile, the metrics of a Route that exists are right again
\* as soon as nothing is left to do.
MetricsRecover ==
    Quiet /\ delayed = {} => \A r \in Routes :
        Live(r) => gauges[r] # Nil /\ MetricsAgree(r)

\* Ready, Synced and the phase never contradict each other, and Ready and Synced
\* speak of one generation, although setCondition leaves each of them alone for
\* as long as its own status and reason stay.
ConditionsAgree ==
    \A r \in Routes :
        routes[r] # Nil /\ routes[r].status.phase # "" =>
            LET ready  == routes[r].status.conditions["Ready"]
                synced == routes[r].status.conditions["Synced"]
            IN  /\ ready # Nil /\ synced # Nil
                /\ ready.status = (routes[r].status.phase = "Active")
                /\ synced.status = ready.status
                /\ synced.gen = ready.gen
                /\ synced.gen <= routes[r].gen

\* The number of managed resources in the status of a Route never claims a child
\* that does not exist, whenever nothing is left to do.  It may be smaller than
\* the number of children: it is 0 after a conflict or a lost backend, and leaves
\* out the children of earlier specifications.
ManagedIsBacked ==
    Quiet => \A r \in Routes :
        Live(r) => routes[r].status.managed <=
            Cardinality({id \in ChildIds : children[id] # Nil /\ children[id].uid = routes[r].uid})

\* The HTTPRoutes of the rules of a specification.
RuleRoutes(r, spec) ==
    { Child("HTTPRoute", r.ns, r.name \o <<Index(i)>>) : i \in DOMAIN spec.rules }

\* While a rollback is in force, neither the VirtualService of the Route nor the
\* HTTPRoute of any of its rules sends anything to the canary: checked when the
\* children have been written and all writes went well.
RollbackIsStableOnly ==
    /\ pc = "status"
    /\ job.verdict = "healthy"
    /\ ~job.failed
    /\ HasPolicy(job.base.spec)
    /\ job.canary = Nil
    => \A id \in ChildIds :
         children[id] # Nil /\ children[id].uid = job.base.uid =>
           /\ id.kind = "VirtualService" =>
                \A i \in DOMAIN children[id].body.http :
                  \A d \in ToSet(children[id].body.http[i].to) :
                    d.to # job.base.spec.canary.backend
           /\ id \in RuleRoutes(job.key, job.base.spec) =>
                \A d \in ToSet(children[id].body.to) : d.to # job.base.spec.canary.backend

\* The two live Routes claim a common rule.
Overlap(r, q) ==
    /\ r # q
    /\ Live(r)
    /\ Live(q)
    /\ ruleIdentities(routes[r].spec) \cap ruleIdentities(routes[q].spec) # {}

\* The Route that gives way is the one that does not precede.
Loses(r) ==
    \E q \in Routes : Overlap(r, q) /\ ~routePrecedes(r, routes[r].created, q, routes[q].created)

\* What the HTTPS listeners of a Gateway say of certificates, as the Secrets they
\* name, and whether the first certificate of each of them satisfies P.
CertificateSecrets(g) ==
    { secrets[[ns |-> IF ref.ns = "" THEN g.ns ELSE ref.ns, name |-> ref.name]] : ref \in
        UNION { { x \in ToSet(l.refs) : x.group = "" /\ x.kind \in {"", "Secret"} } : l \in
                { l \in ToSet(gateways[g].listeners) : l.protocol = "HTTPS" /\ l.refs # Nil } } }
Readable(secret) == secret # Nil /\ secret # <<>> /\ secret[1] # Nil

\* The CertificateHealthy condition is right: True when every certificate can be
\* read and is good for more than the warning period, and Expired when all can
\* be read and one has reached its end.
CertificateSettled(condition, g) ==
    /\ condition # Nil
    /\ condition.status <=>
         gateways[g] # Nil /\ \A x \in CertificateSecrets(g) : Readable(x) /\ x[1] > now + WarnBefore
    /\ condition.reason = "CertificateExpired" <=>
         /\ gateways[g] # Nil
         /\ \A x \in CertificateSecrets(g) : Readable(x)
         /\ \E x \in CertificateSecrets(g) : x[1] <= now

\* The status a Route should end up with: the certificates of its Gateway, the
\* conflict guard, then the health of its backends, then its children.
Settled(r) ==
    Live(r) =>
        LET health == IF Loses(r) THEN "conflict" ELSE evaluateBackendHealth(r, routes[r].spec)
        IN  /\ CertificateSettled(routes[r].status.conditions["CertificateHealthy"],
                                  gatewayRef(routes[r].spec))
            /\ health = "conflict" => routes[r].status.phase = "Degraded"
            /\ health = "missing_service" => routes[r].status.phase = "Pending"
            /\ health = "zero_endpoints" => routes[r].status.phase = "Degraded"
            /\ health = "healthy" /\ routes[r].spec.maxBody # "bad" =>
                 /\ routes[r].status.phase = "Active"
                 /\ HasPolicy(routes[r].spec) \/ InSync(r, routes[r].spec.canary)

\* Once the users, the cluster and the faults leave it alone, the system settles:
\* every Route has the status that the certificates of its Gateway, its conflicts,
\* backends and children call for and, where that is Active, its children include
\* the ones its specification asks for.
EventuallySettled == <>[](\A r \in Routes : Settled(r))

\* A Route that is being deleted disappears.
DeletionCompletes ==
    \A r \in Routes : (routes[r] # Nil /\ routes[r].deleting) ~> (routes[r] = Nil)

=============================================================================

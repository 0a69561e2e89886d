# A TLA+ model of the Istio Gateway API Route operator

The operator turns one `Route` (`istio-gateway-api-operator.io/v1alpha1`) into
HTTPRoutes, VirtualServices, DestinationRules, EnvoyFilters,
RequestAuthentications and AuthorizationPolicies. This directory models its
controller, its webhooks and its canary rollback, model-checks them with TLC on
small instances, and proves the properties that matter most with TLAPS.

Paths below are relative to the repository; `controller.go` stands for
`internal/controller/route_controller.go` and `webhook.go` for
`api/v1alpha1/route_webhook.go`.

## The system

| Component | State | Operations |
|---|---|---|
| Route controller (`controller.go`, `Reconcile`) | the Route it read, the local variables of one reconciliation | get, clean up, add or remove the finalizer, evaluate, write children, write status |
| Child builders (`controller.go` 589-1343) | none: functions of the Route and the effective canary | one function for each kind of child |
| Canary rollback (`controller.go` 831-920) | `canaryFailureCounts`, `canaryRollbackUntil`, in memory, under `canaryStateMu` | `evaluateCanaryRollback`, `clearCanaryRuntimeState` |
| Conflict guard (`controller.go` 507-587) | none: reads the informer cache | `evaluateRouteConflicts`, `routePrecedes` |
| Backend health (`controller.go` 373-441) | none: reads Services and Endpoints | `evaluateBackendHealth`, `phaseReasonAndMessage` |
| Certificate check (`controller.go` 443-505, `helpers.go`) | none: reads the Gateway and its Secrets | `evaluateGatewayCertificate` |
| Webhooks (`webhook.go`) | none: read the informer cache | `Default`, `validateRoute` on create and update |
| Metrics (`metrics.go`) | gauges in memory | set after a status write, cleared on deletion |
| Manager, deep copies, charts | | wiring, generated code, manifests |

They interact as follows. Users write Routes; the API server calls the webhooks,
which compare with the *cache* of the manager. A watch fills the cache and puts
the key of a changed Route on the work queue. One worker takes a key, reads the
Route *from the cache*, and talks to the API server: an `Update` that adds the
finalizer (which passes the operator's own webhooks), reads, writes of children
one after the other, a `Status().Update`. Children in the namespace of the Route
have an ownerReference and are left to the garbage collector; children in the
namespace of the Gateway cannot have one, so a finalizer keeps the Route until
`cleanupOwnedResources` has deleted them by label.

What is hard about it: every step of Reconcile may be the last one before a
restart; the cache, from which all decisions are made, is older than the API
server; a call may be executed and its answer lost; users edit and delete between
any two steps; an object of the same name may be a new one; the controller's own
updates are refused by its own webhook; nothing watches Services, Endpoints,
Gateways, Secrets or the children without an owner; a certificate expires without
an event; a probe of two seconds runs between two critical
sections.

What makes each part correct:

* controller: no child before the finalizer is stored, none left when the Route
  is gone, `Active` only when it is true, the right status in the end, a deletion
  that ends;
* cleanup: takes nothing from a Route that is alive;
* conflict guard: exactly the side that does not precede gives way;
* canary rollback: only after the failures in a row that the policy asks for, off
  for the whole cooldown, on again afterwards, and off in the traffic too;
* certificate check: the condition is right at both ends of the warning period,
  whichever listener names the certificate, and is corrected although nothing
  watches the Secrets;
* builders: all kinds of children say the same about a rule;
* conditions and counts: `Ready`, `Synced` and the phase never contradict each
  other, and no child is counted that does not exist;
* metrics: say what the status says, come right again after a lost answer, and go
  with the Route.

`PROJECT.json` lists the hazards with their source lines and the properties that
would catch them.

## The modules

    RouteKeys                 the Routes and Nil
      CanaryState             the two maps of the rollback and what a probe does to them
        CanaryRollback        the rollback alone, over time          (MCCanaryRollback)
      RouteTypes              specifications, rules, the plan of child operations
        RouteWebhook          defaulting and validation
        GatewayCertificate    which Secrets are looked at, and the reason reported
          RouteController     everything together, with CanaryState
            RouteRefinement   the mapping onto RouteLifecycle        (MCRouteController)
      RouteLifecycle          what is promised about the life of a Route

    CanaryStateProofs, CanaryRollbackProofs          about the rollback
    RouteLifecycleProofs                             about the abstract life cycle
    RouteControllerProofs                            types, and the finalizer comes first
      RouteRefinementProofs                          the life cycle is implemented
        RouteStatusProofs                            conditions and metrics
        RouteChildrenProofs                          the children while Reconcile works
          RouteQuietProofs                           the children once nothing is left to do

**RouteTypes** translates the pure part. A name is the sequence of its
hyphen-separated parts, so that `fmt.Sprintf("%s-redirect-%d", ...)` is
concatenation and two generated names are equal exactly when the strings are,
for part names without hyphens. `childPlan` is the body of steps 1 to 7 of
`Reconcile`: the sequence of operations (`put`, `delete`, `fail`) that a
specification and an effective canary give, in the code's order. The bodies of the
children hold what the specification decides about them: hosts, paths, weighted
targets, header modifiers (sorted lists for the Gateway API, maps for Istio),
timeouts and retries, whose unparsable durations are dropped, CORS, JWT rules, and
the patches of the EnvoyFilters with their token buckets. A path is the sequence of
its parts, empty for `""`, with a star at its end as a part of its own. Where the
code repeats a decision (weights and default path of the HTTPRoute and of the
VirtualService, path of the webhook's identity of a rule) the model repeats it.

**GatewayCertificate** translates `evaluateGatewayCertificate` and the two helpers
it uses. A Gateway is its sequence of listeners, a Secret the sequence of the PEM
blocks in `tls.crt`, of which the code reads the first.

**RouteLifecycle** is the abstract specification: a Route is admitted, guarded by
the finalizer, asked to leave, released and gone; resources are attached to guarded
Routes only, and a Route with a *lease* (a resource without an owner) is not
released, unless `Leaky`. **RouteRefinement** maps the controller onto it: finalizer
to guard, deletionTimestamp to leaving, children to leases or owned resources by
their uid. `Leaky` becomes `CleanupMayMiss`, which lists the three reasons for which
`cleanupOwnedResources` may miss a child: its errors are dropped, its Lists are
cached, and it looks only beside the Gateway that the Route names now. Where none
of them applies the strict life cycle is implemented.

**RouteController** has one action per step of Reconcile, cut where the code talks
to another process; `pc` is the place, `job` the local variables.

| `pc` | action | code |
|---|---|---|
| `idle` | `BeginGone`, `BeginFails`, `BeginReleased`, `Begin` | 89-127 |
| `cleanup` | `CleanupKind`, once per kind | 1381-1419 |
| `unfinalize` | `RemoveFinalizer` | 109-124 |
| `finalize` | `AddFinalizer` | 126-133 |
| `certificate`, `conflicts`, `backends` | `CheckCertificate`, `CheckConflicts`, `CheckBackends`, `EvaluationFails` | 135-203 |
| `canary`, `probe` | `ChooseCanary`, `StartProbe`, `FinishProbe` | 205-217, 831-920 |
| `children` | `PutChild`, `DeleteChildren`, `SkipChild` | 219-322, 1345-1378 |
| `status` | `WriteStatus` | 324-364 |

Around the worker: `CacheSync`, `ChildSync` (watches), `RequeueDue` (RequeueAfter
and backoff), `Resync`, `Crash`; `CreateRoute`, `EditRoute`, `DeleteRoute`
(background or foreground), `DeleteChild`; `GarbageCollect`, `ReleaseHold`;
`SetService`, `SetGateway`, `SetSecret`, `Tick`. A call that would be accepted returns `ok`, is
`refused` (never executed) or `lost` (executed, answer lost); the last two come
out of the budget of faults.

**CanaryRollback** looks at the rollback alone, with a finer environment: Services
that answer well, with 5xx, or not at all, that lose their endpoints and heal at will,
edits of the canary and of its policy during a probe, time. `GateOpen` is what
`Reconcile` checks before it looks at the canary (150-203): no conflict lost, and every
backend, the canary's own included, ready; a Route that fails it is `TurnedAway` with
its children as they are. `failed`, the failed probes of a Route in a row with the
Service and its health, and `promised`, the cooldown counted from the end of the probe
that caused the rollback, are history variables. `CanaryState` holds what both modules
share.

### Abstractions

* The cache of Routes jumps to the present state; the watch delivers every change
  in between, but the worker reads the cache, not the events. Children have a
  cache of their own (`ChildLag = TRUE`), refreshed as a whole.
* A resourceVersion is represented by the object itself: an update succeeds if the
  object is the one that was read. For Routes that is exact, because uid and
  generation never repeat. A child that was deleted and created again with the same
  content counts as the same version.
* Services, Endpoints, Gateways and Secrets are read fresh, all of one evaluation
  in one step; the cache in front of them would only delay what the environment
  does to them.
* A duration is its text, `"bad"` where it does not parse; a header name is its rank
  in lexical order; the fixed parts of an Envoy patch are one name.
* `mustStruct` (`helpers.go` 29) never panics: all its values are numbers and strings.
* Events, log lines, messages of conditions and the counter
  `route_reconcile_total` are left out.
* The gauges are written in the step in which the API server accepts the status or
  the removal of the finalizer (342-350, 115-121). They are local to the process and no
  other step of the controller reads them: the moment between the two is visible to a
  scrape of the metrics, and to nothing in the model.
* One controller process with one worker, as `SetupWithManager` starts it.

## The runs

| Run | Checks | Instance |
|---|---|---|
| `canary` | `TypeOK`, `CooldownHonoured`, `RollbackEarned`, `BrokenCanaryDisabled`, `HealthyCanaryReturns` | one Route, two Services in four states of health, two policies and none, clock up to 3, probes of up to one tick, two edits or deletions, a restart |
| `lifecycle` | `TypeOK`, `FinalizerFirst`, `NoOrphans`, `ActiveStaysTrue`, `MetricsFollowStatus`, `ConditionsAgree`, `ManagedIsBacked`, `ActiveIsTrue`, `CleanupSparesOthers`, `ImplementsLifecycle` (strict) | one Route, a specification with every kind of cross-namespace child and one with a VirtualService and a body size that is no number, a Service in any state; two creations, an edit, a deletion, a restart, a Gateway that disappears |
| `faults` | `FinalizerFirst`, `MetricsRecover`, `ActiveIsTrue`, `CleanupSparesOthers`, `ImplementsLifecycle` (lenient) | lagging caches of children, a failed or lost call, two creations, a deletion |
| `settle` | `EventuallySettled` | two clusters: one without TLS, with an edit, a change of the backend, a child deleted by hand and a restart; one with two HTTPS listeners, Secrets in two namespaces, one change of a Secret, clock up to 1 with a warning period of 1, and a restart |
| `recovery` | `DeletionCompletes`, `EventuallySettled` | a deletion, a child deleted by hand, a failed or lost call, a restart; the Gateway stays |
| `conflicts` | `EventuallySettled` | two Routes with a common rule, no webhook, one of them deleted |
| `traffic` | `RollbackIsStableOnly`, `ActiveServes` | a canary next to a timeout, probes that fail or not, and a Route with two hosts that asks for everything; a restart |

`ActiveServes` is the reference definition of the builders: `Serves` says what the
children of a rule must do without using `childPlan`, and is true of an `Active`
Route whenever the controller is quiet. Rule by rule it asks for the routing with its
weights in the HTTPRoute, the redirect, the VirtualService with timeout, CORS, retries,
headers and weights, the DestinationRules, the EnvoyFilter patches of body size and rate
(any unit, with or without burst), and the JWT issuer, keys, audiences and forwarding
with the paths they protect. The property checks the builders together with everything
that may go wrong between them and the API server. That an `Active` Route has these
children does not say that it has no others: `InSync` and `Settled` ask for children that
*include* the planned ones, since the code leaves some of an earlier specification
behind (see below).

In `canary`, `CooldownHonoured` compares with the cooldown since the rollback itself and
allows for the length of one probe, since the code counts from a time read before it.
`RollbackEarned` counts the failed probes of the Route, as the code does.
`BrokenCanaryDisabled` and `HealthyCanaryReturns` have `GateOpen` in their premise:
where Reconcile keeps turning the Route away, the code promises nothing.

`ConditionsAgree` is about `setCondition`, which skips a condition whose status and
reason stay: the two conditions are set in different places with different reasons
and could drift apart. `ManagedIsBacked` is the half of "`managedResources` counts
the children" that holds. `MetricsRecover` is `MetricsFollowStatus` for behaviours
in which answers are lost: not at every moment, but once nothing is left to do.

`EventuallySettled` includes the `CertificateHealthy` condition, compared with
`CertificateSettled`, which is stated on the Secrets and the clock and not with the
operators of `GatewayCertificate`.

Five more runs show where the code and what is written about it differ:

* `rollback_split` (`RollbackIsStableOnly`): for a Route whose canary is its only
  reason to have a VirtualService, a rollback makes Reconcile skip step 3
  (`controller.go` 247): the VirtualService with the weighted split, written
  before, is neither rewritten nor deleted, so that traffic goes on to the canary.
  `traffic` shows that with a timeout, CORS or retries all is well: the VirtualService
  and the HTTPRoutes are rewritten for the stable backend alone.
* `orphan_on_error` (`NoOrphans`): `cleanupOwnedResources` drops every error; after
  a failed List or Delete the finalizer goes and the child stays.
* `deletion_stuck` (`DeletionCompletes`): the validating webhook also judges the
  update that removes the finalizer. Once the Gateway is gone it refuses it for
  ever and the Route cannot be deleted.
* `tenants` (`ActiveStaysTrue`): names and labels in the gateway namespace do not
  contain the namespace of the Route. Routes of the same name in two namespaces
  overwrite each other's DestinationRule, and both are `Active`.
* `threshold` (`RollbackAsDocumented`): the threshold is documented as a number of 5xx
  responses in a row (`route_types.go` 183, `README.md` 33), and the code counts every
  failed probe (863): two connections that time out roll the canary back.

### Bounds

`Budget` bounds each kind of environment step; the steps of the controller are not
bounded. Two creations are what it takes for an object and its successor of the
same name; one deletion, one restart and one fault may each fall between any two
steps of the worker, and combined they meet each other. One Route is enough for
the life cycle, since two Routes meet only in the conflict guard (`conflicts`) and
in names (`tenants`). In `canary` a clock up to 3 is longer than the longest
cooldown (2), so that a rollback, its end and a second one happen; thresholds 1
and 2 are the two sides of "consecutive", and two edits move the canary to another
Service and policy and back, during a cooldown too. The maps have an entry for each
Route, and one Route is enough to see what another one, which only keeps the worker
busy, cannot change; the theorems are for any number. In `settle` (`UnwatchedSpec` of `MCRouteController` keeps
the steps of its two clusters apart) the expiries 1 and 2
with a clock of 0 and 1 and a warning period of 1 meet both boundaries exactly and
from both sides. One gateway namespace and no fault make `CleanupMayMiss` false in
`lifecycle`; a fault and lagging caches make it true in `faults`.

`CHECK_DEADLOCK FALSE`: a system whose environment has spent its budget, and whose
Routes are settled or gone, has nothing to do, and the code is right to stop.

### Fairness

* `WorkerRuns`: the worker goroutine runs while the process does, and every call
  of it has a timeout. It is `WF(Worker)`, written as "idle again and again, or moving for
  ever" because TLC evaluates that several times faster: `Worker` is enabled whenever
  `pc` is not `idle`, its steps change `pc` or `job`, and but for a restart no others do.
* `SF(BeginAny(r))`: the work queue is first in, first out, so a queued key is
  taken however often others are added. Weak fairness would not do: the worker
  leaves `idle` again and again.
* `WF(RequeueDue(r))`, `WF(Resync)`: backoffs, `RequeueAfter` and the resync period
  of the informers are finite.
* `WF(CacheSync)`, `WF(ChildSync)`: watches are reconnected until they deliver.
* `WF(Collector)`: the garbage collector is a control loop of the cluster.
* In `CanaryRollback`, `WF(Requeue(r))`: an evaluation ends in a `RequeueAfter` the probe
  interval, a Route that is turned away in one of the requeue delay, and the resync does
  the rest; `SF(Reconcile(r))`: the queue is first in, first out, and `Reconcile(r)` is
  the whole of it, the early returns included, so that nothing is assumed about whether
  the canary is reached; `WF(FinishProbe)`: the HTTP client gives up after two seconds.

Users, faults, restarts, the clock and the health of Services are not fair:
nothing is owed to the controller by them.

## The proofs

TLAPS checks, for every value of the constants that satisfies the ASSUMEs of the
modules (types of the constants, `Nil` outside the sets it is compared with, the
name of a Route a sequence of strings, policies with threshold and cooldown at least
one, as the CRD demands):

* `RouteControllerProofs!TypeCorrect`: `TypeOK`, together with `JobInv`, which ties
  `pc` to `job`: there is a job exactly when the worker is not idle, it is that of a
  Route being deleted during the cleanup and of one with a finalizer from the
  evaluations on, a probe has a policy, and the effective canary is that of the
  specification or none. `TypeOK` alone is not inductive, because what a step writes
  depends on the job being the one for that step.
* `RouteControllerProofs!FinalizerSafety`: `FinalizerFirst`, the reason why a restart
  anywhere loses no child. Its invariant `FinalizerInv` adds three facts.
  `UidsKnown`: every uid in the API server, the cache, the job or a child was given
  out by a creation, so that the next creation is new. `UidsUnique`: two Routes
  never share a uid, and what was read under a uid was read under the same key.
  `FinalizerKept`: if the cached copy or the job has the finalizer, then the Route of
  that uid still has it or is being deleted. The last is what makes a stale cache harmless: it may be wrong about
  everything except a finalizer that it has seen. The steps are divided into those
  that leave children and uids alone, covered by one frame lemma (`FrameStep`), and
  the few that do not.
* `RouteRefinementProofs!GuardSafety`: `WorkGuarded`. A finalizer that the cache or
  Reconcile saw on a live Route is still at the API server, on the same object:
  nobody else removes it, and the one worker is not through with its cleanup. This
  is stronger than `FinalizerKept`, which lets the Route be on its way out. It needs
  `WorkerInv` (Reconcile cleans up exactly what was read as being deleted),
  `HoldDeletes` (a hold comes from a deletion) and `DeletingKept` (a deletion is
  never taken back); the four are `GuardInv`.
* `RouteRefinementProofs!Implementation`: `ImplementsLifecycle`, every behaviour of
  the controller is one of `RouteLifecycle`. Initial states map to initial states and
  each action to a step of the life cycle or a stutter: writing a child *attaches*
  it, because `WorkGuarded` says that the Route is there and guarded; removing the
  finalizer *releases* the Route, because `CleanupInv` says that nothing is leased
  under its uid then. `CleanupInv` is the progress of the cleanup (`Cleaned`: the
  kinds before `job.step` hold no child of the job, unless `CleanupMayMiss`), that
  children carry the name of their Route (`LabelsRight`), and that caches without
  lag are exact (`CacheExact`). Where the cleanup has to look is the lemma
  `ChildPlaces`: all children without an owner lie beside the Gateway.
* `RouteLifecycleProofs!LeasesCovered`: in the abstract life cycle leases belong to
  guarded Routes, unless it is `Leaky`. `LifeInv` adds that uids are used once.
* `RouteRefinementProofs!NoOrphansStrict`: `NoOrphans`, if `~CleanupMayMiss`. It is
  `LeasesCovered` carried through the refinement, nothing of the controller is
  looked at again. The hypothesis holds in `lifecycle`, and `orphan_on_error` and the
  observation on two gateway namespaces below show that it cannot be dropped.
* `RouteStatusProofs!ConditionSafety`: `ConditionsAgree`. The invariant
  `StatusesAgree` says of the status in the API server, in the cache and in the job
  that it is empty, or that its two conditions carry one of the five pairs of reasons
  that Reconcile writes, one generation, and the status that goes with the phase. The
  pairs are what makes it inductive: `setCondition` keeps a condition whose reason
  stays, and as each reason belongs to one pair only, both conditions are kept or both
  are replaced. It also says
  that between the read and the write the job changes only `CertificateHealthy`.
* `RouteStatusProofs!MetricsRecovery`: `MetricsRecover`, with any faults. `GaugesDue`:
  the metrics of a live Route are right, or the Route is *due*, that is queued,
  delayed, in the hands of the worker, or different in the cache. `GensFollow` (the
  cache is never ahead) is needed where a lost status write is followed by a cache
  that catches up.
* `RouteStatusProofs!MetricsSafety`: `MetricsFollowStatus`, if `Budget["fault"] = 0`.
  `GaugesRight` adds that a Route with metrics has its finalizer, so that it cannot
  disappear except by the step that clears them. With a lost answer the property
  fails for a moment (observed below), which is why `MetricsRecover` exists.
* `RouteChildrenProofs!CleanupSafety`: `CleanupSparesOthers`, if no two Routes have the
  same name (`NamesDistinct`) and nobody deletes children by hand, with any lag and
  any faults. Two facts are needed. `RoutesKnown`: a Route has its finalizer from a
  Reconcile that read it, so the cache knows the Route since, and while Reconcile works
  on an object no successor of the same key can have got children. `ChildrenNamed`: the
  label of a child is the name its own name is made of, in the API server and in the
  caches, so that an outdated entry of the cache cannot point at the child of another
  Route; it rests on the lemma `NameUnique`, that a child's name with its kind
  determines the Route's. `tenants` shows what happens to two Routes of the same name.
* `RouteChildrenProofs!ActiveSafety`: `ActiveIsTrue`, if nobody deletes children by hand
  and different numbers are written differently (`IndicesDiffer`: true, but the
  definition of `ToString` in the module TLC gives a prover nothing to prove it
  from). `WorkDone` says that the operations before `job.step` are done and still
  done, unless one failed or the Route is being deleted. That an operation undoes no
  earlier one is the lemma `PlanSpread`: the names generated for one Route are all
  different, kind by kind and suffix by suffix. That the garbage collector leaves the
  children alone follows from `WorkGuarded`. That the specification is still the one
  that was read follows from the conflict check of the status write.
* `RouteQuietProofs!ActiveStays`: `ActiveStaysTrue`, if nobody deletes children by hand,
  `IndicesDiffer`, `NamesDistinct`, and no two Routes generate one name for a child
  (`NamesApart`); and, where calls may fail, while none is put off (`delayed = {}`).
  The property alone is not inductive: an edit makes it false at once, and it is right
  again only because the edit is noticed. `ActiveDue` says that an `Active` Route has
  its children or is *pending*: queued, in the hands of the worker, different in the
  cache or, if calls may fail, delayed. The lemma `PendingEnds` is the heart of the
  proof: a Route stops being pending only when a Reconcile that worked on the Route as
  it is writes a status (or the webhook refuses its finalizer, when it has no status
  yet). It needs
  `JobFresh` (Reconcile works on the Route as it is, or the Route will be looked at
  again), `StatusGuarded` (no status before the finalizer), `CanaryChosen` and
  `WorkDone`, and that no step of another Route touches its children.
* `RouteQuietProofs!ManagedStays`: `ManagedIsBacked`, under the same hypotheses.
  `ManagedDue` is its version of `ActiveDue`; `CountBacked` says during a Reconcile
  that it has counted no more operations than there are children it has written, by
  counting the children before `job.step` (`PlanSpread` again: each operation has a
  child of its own, so that two operations never count one). `ChildrenOwned`: there are
  finitely many children, each under a name of the Route it belongs to.
* `RouteQuietProofs!RollbackSafety`: `RollbackIsStableOnly`, with any faults and
  with children deleted by hand, if each Route with a rollback policy also has a
  timeout, CORS or retries, its canary is not the backend of one of its own rules
  (`PoliciesDistinct`), and `IndicesDiffer`, so that no rule writes the HTTPRoute of
  another. `WritesKept`: what this Reconcile has written without an error is still as it
  was written, or gone. The rest is about `childPlan`: the operations on a VirtualService
  and on the HTTPRoutes of the rules are those for the effective canary, and under the
  first part of the hypothesis the VirtualService is in the plan. `rollback_split` shows
  that this part cannot be dropped.
* `RouteQuietProofs!ServesSafety`: `ActiveServes`, under the hypotheses of `ActiveStays`.
  Every conjunct of `Serves` is found in the body of an operation of `childPlan`
  (`PlanIncludes`), which is stored in a child of its own because the Route is in sync.
  That `uniqueHostsFromRules`, `httpsBackends` and `sortedMapKeys` lose nothing is proved
  too: they are lists in the order of a rank (`Ranked`), and `HostsListed`,
  `BackendsListed` and `KeysListed` of `RouteRefinementProofs` follow from counting the
  ranks, without induction over sequences. `PatternStarred` is about the paths of the
  AuthorizationPolicy, with and without a star of their own.
* `RouteControllerProofs!IdentitiesAgree`: the webhook's copy of the identity of a
  rule (`buildRuleIdentity`) and the controller's (`ruleIdentity`) tell the same rules
  apart, although each fills in the defaults of the Gateway and of the path on its own.
* `CanaryRollbackProofs!CooldownSafety`: `CooldownHonoured`, in the life of one process.
  `CooldownKept` says that an entry of the map covers the cooldown that was promised, and
  that where there is none, or the canary is on, that cooldown has passed, each but for
  one probe; the property alone says nothing of the map that the next evaluation looks
  at. It rests on `ProbeSafety`: a probe ends within its timeout, and was started when no
  cooldown was running.
* `CanaryRollbackProofs!RollbackSafety`: `RollbackEarned`, for any Routes, Services and
  policies. Its invariant says that the count of the process never runs ahead of the
  failed probes in a row.
* `CanaryRollbackProofs!TypeCorrect`, and the lemmas on `CanaryState`.

The hypotheses are met by instances that TLC checks: `lifecycle` and, with two Routes,
`conflicts` meet those of `ActiveStays` and `ManagedStays`; `traffic` meets all of them,
with a policy among its specifications. They are needed. `tenants` breaks `NamesDistinct`
and `NamesApart` and violates `ActiveStaysTrue`; `<route>-redirect-<i>` (below) breaks
`NamesApart` alone. A deleted child without an owner is noticed by no watch. After a
failed write the old status stays, `Active` perhaps, until the backoff is over: that is
why `delayed = {}`. That restarts are excepted from the cooldown is needed too: see the
next section.

Only model-checked: everything temporal beyond invariants and step properties
(`EventuallySettled`, `DeletionCompletes`, the two canary liveness properties), as
liveness under fairness and `ENABLED` are out of reach of the prover. Nothing rests on
induction over data (the modules have no `RECURSIVE` operator). Every invariant and
every step property of a passing run is also a theorem, under the hypotheses named above.

## Observed, without a run of its own

* A restart forgets a cooldown: if `Crash` kept `promised`, `CooldownHonoured` would fail
  (`controller.go` 71, 856).
* The cooldown is counted from a time read before the probe (848, 877), so it is shorter
  than documented by the length of a probe, two seconds at most.
* A canary whose Service is missing or has no ready endpoint is never probed and never
  taken out: Reconcile returns first (180-202, 397) and leaves the children, with the
  canary's share of the traffic, as they are. The same keeps a healthy canary off while
  a stable backend is not ready.
* An edit that moves a Route to a Gateway of another namespace leaves the children
  beside the old Gateway behind for ever: neither the edit nor the cleanup at the end
  looks there (1383). With two namespaces in `GatewayRefs`, `NoOrphans` fails.
* When the answer to the update that removes the finalizer is lost, the retry finds no
  Route and returns before `clearRouteMetrics` (98, 121): the metrics of the Route stay
  until the process restarts or a Route of that name is reconciled.
* `observedGeneration` and the message of a condition are those of the last change of
  its status or reason, not of the last reconciliation (1442).
* The failure count belongs to the Route, not to the Service it was counted for: when an
  edit moves the canary, failures of the old Service count against the new one (868).
  With an edit (`MaxEdits = 1`) `RollbackAsDocumented` fails for this reason as well.
* A canary without `rollbackOn5xx` is on at once, also while the cooldown of a policy that
  was removed still runs (832).
* With the webhook in place, two conflicting Routes admitted within the lag of the
  cache are both refused the update that adds their finalizer, and neither reaches
  the conflict guard: `EventuallySettled` fails in `conflicts` with
  `WebhookEnabled = TRUE` (webhook.go 115).
* Without it, a Route reconciled before the cache shows its rival is `Active`, next
  to the winner, until the next resync (553). `conflicts` passes because the resync
  is fair.
* `<route>-redirect-<i>` is also the name of rule i of a Route called
  `<route>-redirect` (679).
* An edit that asks for fewer children deletes only those of authentication and
  rate limits; HTTPRoutes of removed rules, redirects, a VirtualService, DestinationRules
  and EnvoyFilters stay (234, 247), and go on routing until the Route is deleted.
* While a backend is not ready, `managedResources` is 0 although the children exist
  (183).

## Not modelled

* Leader election and several replicas: the manifests start one replica with
  `--leader-elect`, and the election is controller-runtime's.
* `cmd/main.go` beyond the fresh `RouteReconciler` of a start: flags, TLS options,
  certificate watchers and health endpoints keep no state of the operator.
* The counter `route_reconcile_total`, events (`conditionTransitioned` decides only
  about them) and log lines: nothing reads them back.
* Generated deep copies, registration of the API group, charts and manifests (that
  the webhooks may be absent is the constant `WebhookEnabled`).

## Plan

1. Done: `CanaryState`, `CanaryRollback`, `RouteTypes`, `RouteWebhook`,
   `RouteController`, their runs, and the theorems above.
2. Done: `GatewayCertificate` in place of an opaque certificate; the builders of
   headers, retries, CORS, JWT and rate limits, and their reference definition; the
   gauges as they are exported; properties of conditions and counts; the abstract
   life cycle and its refinement; recovery from faults as a liveness property.
3. Done: the theorems on the life cycle, its refinement, `NoOrphans`, the conditions,
   the metrics, `ActiveIsTrue` and `CleanupSparesOthers`.
4. Done: the theorems on what holds once nothing is left to do, `ActiveStaysTrue`,
   `ManagedIsBacked` and `ActiveServes`, and on what a rollback leaves behind.
5. Done: the way to the canary through Reconcile, paths that end in a star, and a
   reference definition of the builders that covers all fields of a specification.

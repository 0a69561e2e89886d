------------------------ MODULE RouteControllerProofs ------------------------
(***************************************************************************)
(* What holds of the Route controller for any set of Routes, Services,     *)
(* Gateways and specifications, any interleaving, any number of faults,    *)
(* restarts and user actions, with and without the webhooks and with       *)
(* caches that lag or not.                                                 *)
(***************************************************************************)
EXTENDS RouteController, CanaryStateProofs

\* The steps of Reconcile after the finalizer is known to be stored.
Working == {"certificate", "conflicts", "backends", "canary", "probe", "children", "status"}

\* What the local variables of Reconcile are worth at each of its steps.
JobInv ==
    /\ pc = "idle" <=> job = Nil
    /\ job # Nil =>
         /\ job.canary \in {Nil, job.base.spec.canary}
         /\ pc \in {"cleanup", "unfinalize"} => job.base.deleting
         /\ pc \in Working => job.base.finalizer
         /\ pc = "probe" => HasPolicy(job.base.spec)

TypeInv == TypeOK /\ JobInv

\* The steps say that the cluster outside the Routes stays as it is in one word.
USE DEF clusterVars

-----------------------------------------------------------------------------
(* Lemmas about the operators the actions are built from.                  *)

\* The two copies of the defaults of a Gateway, of the controller (gatewayRef)
\* and of the webhooks (gatewayRefFromSpec), agree.
LEMMA GatewayDefaultsAgree ==
    ASSUME NEW s \in RouteSpecs
    PROVE  gatewayRefFromSpec(s.gateway) = gatewayRef(s)
BY DEF gatewayRefFromSpec, gatewayRef

\* Two rules have one identity for the validating webhook (buildRuleIdentity)
\* exactly when they have one for the conflict guard of Reconcile (ruleIdentity),
\* defaults and empty paths included: neither finds a conflict that the other
\* does not know.
THEOREM IdentitiesAgree ==
    ASSUME NEW s \in RouteSpecs, NEW t \in RouteSpecs,
           NEW a \in RouteRules, NEW b \in RouteRules
    PROVE  buildRuleIdentity(s, a) = buildRuleIdentity(t, b) <=> ruleIdentity(s, a) = ruleIdentity(t, b)
<1> DEFINE G == gatewayRef(s)
           H == gatewayRef(t)
<1>1. /\ G = [name |-> G.name, ns |-> G.ns]
      /\ H = [name |-> H.name, ns |-> H.ns]
  BY DEF gatewayRef
<1>2. /\ buildRuleIdentity(s, a) = <<G.ns, G.name, a.host, normalizeRoutePath(a.path)>>
      /\ buildRuleIdentity(t, b) = <<H.ns, H.name, b.host, normalizeRoutePath(b.path)>>
  <2>1. \A path : webhookRoutePath(path) = normalizeRoutePath(path)
    BY DEF webhookRoutePath, normalizeRoutePath
  <2>2. QED
    BY <2>1, GatewayDefaultsAgree DEF buildRuleIdentity
<1>3. /\ ruleIdentity(s, a) = [gateway |-> G, host |-> a.host, path |-> normalizeRoutePath(a.path)]
      /\ ruleIdentity(t, b) = [gateway |-> H, host |-> b.host, path |-> normalizeRoutePath(b.path)]
  BY DEF ruleIdentity
<1> HIDE DEF G, H
<1>4. QED
  BY <1>1, <1>2, <1>3

\* The mutating webhook leaves a specification it has already seen as it is,
\* and never touches the canary.
LEMMA MutatedType ==
    ASSUME NEW s \in AllSpecs
    PROVE  /\ Mutated(s) \in AllSpecs
           /\ Mutated(s).canary = s.canary
           /\ s \in RouteSpecs
           /\ gatewayRef(s) \in GatewayRefs
<1>1. \A x \in RouteSpecs : /\ Default(x) \in RouteSpecs
                            /\ gatewayRef(Default(x)) = gatewayRef(x)
                            /\ Default(Default(x)) = Default(x)
                            /\ Default(x).canary = x.canary
  <2> SUFFICES ASSUME NEW x \in RouteSpecs
               PROVE  /\ Default(x) \in RouteSpecs
                      /\ gatewayRef(Default(x)) = gatewayRef(x)
                      /\ Default(Default(x)) = Default(x)
                      /\ Default(x).canary = x.canary
    OBVIOUS
  <2>1. /\ gatewayRef(x) \in RouteGateways
        /\ gatewayRef(x).name # "" /\ gatewayRef(x).ns # ""
    <3>1. x.gateway \in RouteGateways
      BY DEF RouteSpecs
    <3>2. QED
      BY <3>1, DefaultNames DEF gatewayRef, RouteGateways
  <2>2. /\ Default(x) \in RouteSpecs
        /\ Default(x).gateway = gatewayRef(x)
        /\ Default(x).canary = x.canary
    BY <2>1, GatewayDefaultsAgree DEF Default, RouteSpecs
  <2>3. gatewayRef(Default(x)) = gatewayRef(x)
    <3>1. gatewayRef(Default(x)) = [name |-> gatewayRef(x).name, ns |-> gatewayRef(x).ns]
      BY <2>1, <2>2 DEF gatewayRef
    <3>2. QED
      BY <2>1, <3>1 DEF RouteGateways
  <2>4. Default(Default(x)) = Default(x)
    BY <2>1, <2>2, <2>3, GatewayDefaultsAgree DEF Default, RouteSpecs
  <2>5. QED
    BY <2>2, <2>3, <2>4
<1>2. s \in RouteSpecs /\ gatewayRef(s) \in GatewayRefs
  BY <1>1, SpecsAssumption DEF AllSpecs
<1>3. Default(s) \in AllSpecs
  BY <1>1, SpecsAssumption DEF AllSpecs
<1>4. QED
  BY <1>1, <1>2, <1>3 DEF Mutated

\* setCondition returns a set of conditions.
LEMMA SetConditionType ==
    ASSUME NEW c \in Conditions, NEW t \in ConditionTypes, NEW b \in BOOLEAN,
           NEW reason \in Reasons, NEW g \in Nat
    PROVE  setCondition(c, t, b, reason, g) \in Conditions
BY DEF setCondition, Conditions

\* The status that a Reconcile writes is well typed.
LEMMA NewStatusType ==
    ASSUME NEW j \in Jobs
    PROVE  NewStatus(j) \in Statuses
<1>1. /\ j.conditions \in Conditions /\ j.verdict \in Verdicts /\ j.failed \in BOOLEAN
      /\ j.managed \in Nat /\ j.base.gen \in Nat
  BY DEF Jobs, RouteObjects
<1>2. Phase(j) \in Phases
  BY <1>1 DEF Phase, Phases, Verdicts
<1>3. SyncedReason(j) \in Reasons
  BY <1>1 DEF SyncedReason, Reasons, Verdicts
<1>4. ReadyReason(j) \in Reasons
  BY <1>3 DEF ReadyReason, Reasons
<1> DEFINE good == Phase(j) = "Active"
           synced == setCondition(j.conditions, "Synced", good, SyncedReason(j), j.base.gen)
           ready == setCondition(synced, "Ready", good, ReadyReason(j), j.base.gen)
<1>5. synced \in Conditions
  BY <1>1, <1>3, SetConditionType DEF ConditionTypes
<1>6. ready \in Conditions
  <2> HIDE DEF synced
  <2>1. QED
    BY <1>1, <1>4, <1>5, SetConditionType DEF ConditionTypes
<1>7. NewStatus(j) = [phase |-> Phase(j),
                      managed |-> IF j.verdict = "healthy" THEN j.managed ELSE 0,
                      conditions |-> ready]
  BY DEF NewStatus
<1> HIDE DEF ready
<1>8. QED
  BY <1>1, <1>2, <1>6, <1>7 DEF Statuses

\* Every operation of a plan has a body in Bodies.
LEMMA BodyType ==
    ASSUME NEW r \in Routes, NEW s \in AllSpecs, NEW c \in {s.canary, Nil},
           NEW k \in DOMAIN childPlan(r, s, c)
    PROVE  childPlan(r, s, c)[k].body \in Bodies
BY DEF Bodies, Operations

\* A new child is an object.
LEMMA ChildType ==
    ASSUME TypeInv, job # Nil, job.step \in DOMAIN Plan
    PROVE  [uid |-> job.base.uid, label |-> job.key.name, body |-> Operation.body] \in Objects
<1>1. /\ job.key \in Routes /\ job.base.spec \in AllSpecs /\ job.base.uid \in Nat
      /\ job.canary \in {job.base.spec.canary, Nil}
  BY DEF TypeInv, TypeOK, JobInv, Jobs, RouteObjects
<1>2. Operation.body \in Bodies
  BY <1>1, BodyType DEF Operation, Plan
<1>3. QED
  BY <1>1, <1>2 DEF Objects

\* SetChildren keeps both maps of children well typed.
LEMMA SetChildrenType ==
    ASSUME TypeOK, NEW new \in [ChildIds -> Objects \cup {Nil}], SetChildren(new)
    PROVE  /\ children' \in [ChildIds -> Objects \cup {Nil}]
           /\ childCache' \in [ChildIds -> Objects \cup {Nil}]
BY DEF SetChildren, TypeOK

\* The counters of the environment stay numbers.
LEMMA SpendType ==
    ASSUME TypeOK, NEW k \in BudgetKinds, Spend(k) \/ UNCHANGED spent
    PROVE  spent' \in [BudgetKinds -> Nat]
BY DEF Spend, TypeOK

LEMMA CallFaultType ==
    ASSUME TypeOK, NEW accepted, NEW out, CallFault(accepted, out)
    PROVE  spent' \in [BudgetKinds -> Nat]
<1>1. Spend("fault") \/ UNCHANGED spent
  BY DEF CallFault
<1>2. QED
  BY <1>1, SpendType DEF BudgetKinds

-----------------------------------------------------------------------------
(* Types.                                                                  *)

\* The steps in which Reconcile starts, or returns at once.
LEMMA BeginTypes ==
    ASSUME TypeInv, NEW r \in Routes, BeginAny(r)
    PROVE  TypeInv'
<1> USE DEF TypeInv, TypeOK, JobInv
<1>1. CASE BeginGone(r)
  BY <1>1 DEF BeginGone, apiVars, canaryVars, CanaryTypeOK, Working, HasPolicy
<1>2. CASE BeginFails(r)
  <2>1. spent' \in [BudgetKinds -> Nat]
    BY <1>2, SpendType DEF BeginFails, BudgetKinds
  <2>2. QED
    BY <1>2, <2>1 DEF BeginFails, apiVars, canaryVars, CanaryTypeOK, Working, HasPolicy
<1>3. CASE BeginReleased(r)
  <2>1. CanaryTypeOK'
    BY <1>3, ClearType DEF BeginReleased
  <2>2. QED
    BY <1>3, <2>1 DEF BeginReleased, clearRouteMetrics, apiVars, Working, HasPolicy
<1>4. CASE Begin(r)
  <2>1. cache[r] \in RouteObjects
    BY <1>4 DEF Begin
  <2>2. NewJob(r) \in Jobs /\ NewJob(r).base = cache[r] /\ NewJob(r).canary = Nil
    BY <2>1 DEF NewJob, Jobs, RouteObjects, Statuses, Verdicts
  <2>3. job' \in Jobs /\ job'.base = cache[r] /\ job'.canary = Nil /\ job' # Nil
    BY <1>4, <2>2, NilAssumption DEF Begin
  <2>4. pc' \in {"cleanup", "certificate", "finalize"}
    BY <1>4 DEF Begin, FirstStep
  <2>5. /\ pc' = "cleanup" => cache[r].deleting
        /\ pc' = "certificate" => cache[r].finalizer
    BY <1>4 DEF Begin, FirstStep
  <2>6. JobInv'
    BY <2>3, <2>4, <2>5 DEF Working
  <2>7. TypeOK'
    BY <1>4, <2>3, <2>4 DEF Begin, apiVars, canaryVars, CanaryTypeOK, PCs
  <2>8. QED
    BY <2>6, <2>7
<1>5. QED
  BY <1>1, <1>2, <1>3, <1>4 DEF BeginAny

\* The steps of a deletion.
LEMMA DeletionTypes ==
    ASSUME TypeInv, CleanupKind \/ \E out \in Outcomes : RemoveFinalizer(out)
    PROVE  TypeInv'
<1> USE DEF TypeInv, TypeOK, JobInv
<1>1. CASE CleanupKind
  <2>1. job \in Jobs /\ job # Nil /\ pc = "cleanup"
    BY <1>1 DEF CleanupKind
  <2>2. spent' \in [BudgetKinds -> Nat]
    BY <1>1, SpendType DEF CleanupKind, BudgetKinds
  <2>3. /\ children' \in [ChildIds -> Objects \cup {Nil}]
        /\ childCache' \in [ChildIds -> Objects \cup {Nil}]
    BY <1>1, SetChildrenType DEF CleanupKind
  <2>4. /\ job' \in Jobs /\ job'.base = job.base /\ job'.canary = job.canary
        /\ pc' \in {"cleanup", "unfinalize"}
    <3>1. \/ pc' = "unfinalize" /\ job' = job
          \/ job' = [job EXCEPT !.step = @ + 1] /\ pc' = pc
      BY <1>1 DEF CleanupKind
    <3>2. [job EXCEPT !.step = @ + 1] \in Jobs
      BY <2>1 DEF Jobs
    <3>3. QED
      BY <2>1, <3>1, <3>2 DEF Jobs
  <2>5. JobInv'
    BY <2>1, <2>4, NilAssumption DEF Working
  <2>6. TypeOK'
    BY <1>1, <2>2, <2>3, <2>4 DEF CleanupKind, canaryVars, CanaryTypeOK, PCs
  <2>7. QED
    BY <2>5, <2>6
<1>2. ASSUME NEW out \in Outcomes, RemoveFinalizer(out) PROVE TypeInv'
  <2>1. job \in Jobs /\ job.key \in Routes /\ job.base \in RouteObjects
    BY <1>2 DEF RemoveFinalizer, Jobs
  <2>2. spent' \in [BudgetKinds -> Nat]
    BY <1>2, CallFaultType DEF RemoveFinalizer
  <2>3. routes' \in [Routes -> RouteObjects \cup {Nil}]
    <3>1. [job.base EXCEPT !.finalizer = FALSE] \in RouteObjects
      BY <2>1 DEF RouteObjects
    <3>2. \/ routes' = routes
          \/ routes' = [routes EXCEPT ![job.key] = Nil]
          \/ routes' = [routes EXCEPT ![job.key] = [job.base EXCEPT !.finalizer = FALSE]]
      BY <1>2, <2>1 DEF RemoveFinalizer, NotModified
    <3>3. QED
      BY <2>1, <3>1, <3>2
  <2>4. CanaryTypeOK'
    BY <1>2, <2>1, ClearType DEF RemoveFinalizer
  <2>5. pc' = "idle" /\ job' = Nil /\ delayed' \subseteq Routes
    BY <1>2, <2>1 DEF RemoveFinalizer, Return, ReturnRequeue
  <2>6. gauges' \in [Routes -> Gauges \cup {Nil}]
    BY <1>2 DEF RemoveFinalizer, clearRouteMetrics
  <2>7. QED
    BY <1>2, <2>2, <2>3, <2>4, <2>5, <2>6 DEF RemoveFinalizer, PCs
<1>3. QED
  BY <1>1, <1>2

\* The finalizer and the evaluations.
LEMMA EvaluationTypes ==
    ASSUME TypeInv,
           \/ \E out \in Outcomes : AddFinalizer(out)
           \/ CheckCertificate \/ CheckConflicts \/ CheckBackends \/ EvaluationFails
    PROVE  TypeInv'
<1> USE DEF TypeInv, TypeOK, JobInv
<1>1. ASSUME NEW out \in Outcomes, AddFinalizer(out) PROVE TypeInv'
  <2> DEFINE new == [job.base EXCEPT !.finalizer = TRUE, !.spec = Mutated(@)]
             accepted == NotModified(job.key) /\ Admitted(job.key, new.spec)
  <2>1. job \in Jobs /\ job.key \in Routes /\ job.base \in RouteObjects /\ job # Nil
    BY <1>1 DEF AddFinalizer, Jobs
  <2>2. job.base.spec \in AllSpecs
    BY <2>1 DEF RouteObjects
  <2>3. /\ new \in RouteObjects /\ new.finalizer
        /\ new.spec.canary = job.base.spec.canary
    BY <2>1, <2>2, MutatedType DEF RouteObjects
  <2>4. spent' \in [BudgetKinds -> Nat]
    BY <1>1, CallFaultType DEF AddFinalizer
  <2>5. routes' \in [Routes -> RouteObjects \cup {Nil}]
    BY <1>1, <2>1, <2>3 DEF AddFinalizer
  <2>6. CASE accepted /\ out = "ok"
    <3>1. job' = [job EXCEPT !.base = new] /\ pc' = "certificate" /\ delayed' = delayed
      BY <1>1, <2>6 DEF AddFinalizer
    <3> HIDE DEF new
    <3>2. job' \in Jobs /\ job'.base = new /\ job'.canary = job.canary
      BY <2>1, <2>3, <3>1 DEF Jobs
    <3>3. JobInv'
      BY <2>1, <2>3, <3>1, <3>2, NilAssumption DEF Working
    <3>4. QED
      BY <1>1, <2>4, <2>5, <3>1, <3>2, <3>3 DEF AddFinalizer, canaryVars, CanaryTypeOK, PCs
  <2>7. CASE ~(accepted /\ out = "ok")
    <3>1. pc' = "idle" /\ job' = Nil /\ delayed' \subseteq Routes
      BY <1>1, <2>1, <2>7 DEF AddFinalizer, ReturnRequeue
    <3>2. QED
      BY <1>1, <2>4, <2>5, <3>1 DEF AddFinalizer, canaryVars, CanaryTypeOK, PCs
  <2>8. QED
    BY <2>6, <2>7
<1>2. CASE CheckCertificate
  <2>1. job \in Jobs /\ job # Nil /\ job.base.spec \in AllSpecs /\ job.base.gen \in Nat
    BY <1>2 DEF CheckCertificate, Jobs, RouteObjects
  <2> DEFINE reason == evaluateGatewayCertificate(job.base.spec, gateways, secrets, now)
  <2>2. reason \in {"GatewayNotFound", "CertificateSecretMissing", "CertificateParseError",
                    "CertificateNotConfigured", "CertificateExpired", "CertificateExpiring",
                    "CertificateHealthy"}
    BY Zenon DEF evaluateGatewayCertificate, certificateExpiryState
  <2>3. reason \in Reasons
    BY <2>2 DEF Reasons
  <2>4. setCondition(job.conditions, "CertificateHealthy", reason \in CertificateOK, reason, job.base.gen)
          \in Conditions
    <3>1. job.conditions \in Conditions /\ "CertificateHealthy" \in ConditionTypes
      BY <2>1 DEF Jobs, ConditionTypes
    <3> DEFINE ok == reason \in CertificateOK
    <3>2. ok \in BOOLEAN
      OBVIOUS
    <3>3. setCondition(job.conditions, "CertificateHealthy", ok, reason, job.base.gen) \in Conditions
      <4> HIDE DEF ok, reason, TypeInv, TypeOK, JobInv
      <4>1. QED
        BY <2>1, <2>3, <3>1, <3>2, SetConditionType
    <3>4. QED
      BY <3>3
  <2>5. job' \in Jobs /\ job'.base = job.base /\ job'.canary = job.canary
    BY <1>2, <2>1, <2>4 DEF CheckCertificate, Jobs
  <2>6. pc' = "conflicts" /\ pc = "certificate"
    BY <1>2 DEF CheckCertificate
  <2>7. JobInv'
    BY <2>1, <2>5, <2>6, NilAssumption DEF Working
  <2>8. QED
    BY <1>2, <2>5, <2>6, <2>7 DEF CheckCertificate, apiVars, canaryVars, CanaryTypeOK, PCs
<1>3. CASE CheckConflicts
  <2>1. job \in Jobs /\ job # Nil
    BY <1>3 DEF CheckConflicts
  <2>2. job' \in Jobs /\ job'.base = job.base /\ job'.canary = job.canary
    BY <1>3, <2>1 DEF CheckConflicts, Jobs, Verdicts
  <2>3. pc' \in {"backends", "status"} /\ pc = "conflicts"
    BY <1>3 DEF CheckConflicts
  <2>4. JobInv'
    BY <2>1, <2>2, <2>3, NilAssumption DEF Working
  <2>5. QED
    BY <1>3, <2>2, <2>3, <2>4 DEF CheckConflicts, apiVars, canaryVars, CanaryTypeOK, PCs
<1>4. CASE CheckBackends
  <2>1. job \in Jobs /\ job # Nil
    BY <1>4 DEF CheckBackends
  <2>2. evaluateBackendHealth(job.key, job.base.spec) \in Verdicts
    BY DEF evaluateBackendHealth, Verdicts
  <2>3. job' \in Jobs /\ job'.base = job.base /\ job'.canary = job.canary
    BY <1>4, <2>1, <2>2 DEF CheckBackends, Jobs
  <2>4. pc' \in {"canary", "status"} /\ pc = "backends"
    BY <1>4 DEF CheckBackends
  <2>5. JobInv'
    BY <2>1, <2>3, <2>4, NilAssumption DEF Working
  <2>6. QED
    BY <1>4, <2>3, <2>4, <2>5 DEF CheckBackends, apiVars, canaryVars, CanaryTypeOK, PCs
<1>5. CASE EvaluationFails
  <2>1. job \in Jobs /\ job.key \in Routes
    BY <1>5 DEF EvaluationFails, Jobs
  <2>2. spent' \in [BudgetKinds -> Nat]
    BY <1>5, SpendType DEF EvaluationFails, BudgetKinds
  <2>3. pc' = "idle" /\ job' = Nil /\ delayed' \subseteq Routes
    BY <1>5, <2>1 DEF EvaluationFails, ReturnRequeue
  <2>4. QED
    BY <1>5, <2>2, <2>3 DEF EvaluationFails, apiVars, canaryVars, CanaryTypeOK, PCs
<1>6. QED
  BY <1>1, <1>2, <1>3, <1>4, <1>5

\* What Advance makes of the local variables.
LEMMA AdvanceType ==
    ASSUME TypeInv, pc = "children", NEW succeeded \in BOOLEAN, Advance(succeeded)
    PROVE  job' \in Jobs /\ pc' \in {"children", "status"} /\ JobInv'
<1>1. job \in Jobs /\ job # Nil
  BY DEF TypeInv, TypeOK, JobInv
<1>2. job.step + 1 \in Nat /\ job.managed \in Nat /\ job.managed + 1 \in Nat /\ job.failed \in BOOLEAN
  BY <1>1 DEF Jobs
<1> DEFINE managed == IF succeeded /\ Operation.op = "put" THEN job.managed + 1 ELSE job.managed
           failed == job.failed \/ ~succeeded
           new == [job EXCEPT !.step = job.step + 1, !.managed = managed, !.failed = failed]
<1>3. job' \in Jobs /\ job'.base = job.base /\ job'.canary = job.canary
  <2>1. managed \in Nat
    BY <1>2
  <2>2. failed \in BOOLEAN
    BY <1>2
  <2>3. job' = new
    BY DEF Advance
  <2> HIDE DEF managed, failed
  <2>4. new \in Jobs /\ new.base = job.base /\ new.canary = job.canary
    BY <1>1, <1>2, <2>1, <2>2 DEF Jobs
  <2>5. QED
    BY <2>3, <2>4
<1>4. pc' \in {"children", "status"}
  BY DEF Advance
<1>5. QED
  BY <1>1, <1>3, <1>4, NilAssumption DEF TypeInv, JobInv, Working

\* The canary, the children and the status.
LEMMA ChildrenTypes ==
    ASSUME TypeInv,
           \/ ChooseCanary \/ StartProbe \/ \E bad \in BOOLEAN : FinishProbe(bad)
           \/ \E out \in Outcomes : PutChild(out)
           \/ \E n \in 0 .. 2, succeeded \in BOOLEAN : DeleteChildren(n, succeeded)
           \/ SkipChild
    PROVE  TypeInv'
<1> USE DEF TypeInv, TypeOK, JobInv
<1>1. CASE ChooseCanary
  <2>1. job \in Jobs /\ job # Nil /\ job.base.spec \in AllSpecs
    BY <1>1 DEF ChooseCanary, Jobs, RouteObjects
  <2>2. job.base.spec.canary \in RouteCanaries \cup {Nil}
    BY <2>1, MutatedType DEF RouteSpecs
  <2>3. /\ \/ job' = [job EXCEPT !.canary = Nil]
           \/ job' = [job EXCEPT !.canary = job.base.spec.canary]
        /\ pc = "canary" /\ pc' = "children"
    BY <1>1 DEF ChooseCanary
  <2>4. /\ job' \in Jobs /\ job'.base = job.base
        /\ job'.canary \in {Nil, job.base.spec.canary}
    BY <2>1, <2>2, <2>3 DEF Jobs
  <2>5. JobInv'
    BY <2>1, <2>3, <2>4, NilAssumption DEF Working
  <2>6. QED
    BY <1>1, <2>3, <2>4, <2>5 DEF ChooseCanary, apiVars, canaryVars, CanaryTypeOK, PCs
<1>2. CASE StartProbe
  <2>1. job \in Jobs /\ job # Nil
    BY <1>2 DEF StartProbe
  <2>2. /\ job' = [job EXCEPT !.start = now] /\ pc = "canary" /\ pc' = "probe"
        /\ HasPolicy(job.base.spec)
    BY <1>2 DEF StartProbe
  <2>3. job' \in Jobs /\ job'.base = job.base /\ job'.canary = job.canary
    BY <2>1, <2>2 DEF Jobs
  <2>4. JobInv'
    BY <2>1, <2>2, <2>3, NilAssumption DEF Working, HasPolicy
  <2>5. QED
    BY <1>2, <2>2, <2>3, <2>4 DEF StartProbe, apiVars, canaryVars, CanaryTypeOK, PCs
<1>3. ASSUME NEW bad \in BOOLEAN, FinishProbe(bad) PROVE TypeInv'
  <2> DEFINE policy == job.base.spec.canary.rollback
  <2>1. /\ job \in Jobs /\ job # Nil /\ job.base.spec \in AllSpecs
        /\ job.key \in Routes /\ job.start \in Nat
    BY <1>3 DEF FinishProbe, Jobs, RouteObjects
  <2>2. HasPolicy(job.base.spec)
    BY <1>3, <2>1 DEF FinishProbe
  <2>3. job.base.spec.canary \in RouteCanaries /\ policy \in Policies
    BY <2>1, <2>2, MutatedType DEF RouteSpecs, RouteCanaries, HasPolicy
  <2>4. CanaryTypeOK'
    <3>1. RecordProbe(job.key, policy, job.start, bad)
      BY <1>3 DEF FinishProbe
    <3>2. QED
      BY <2>1, <2>3, <3>1, RecordProbeType DEF Policies
  <2>5. /\ \/ job' = [job EXCEPT !.canary = Nil]
           \/ job' = [job EXCEPT !.canary = job.base.spec.canary]
        /\ pc = "probe" /\ pc' = "children"
    BY <1>3 DEF FinishProbe
  <2>6. /\ job' \in Jobs /\ job'.base = job.base
        /\ job'.canary \in {Nil, job.base.spec.canary}
    BY <2>1, <2>3, <2>5 DEF Jobs
  <2>7. JobInv'
    BY <2>1, <2>5, <2>6, NilAssumption DEF Working
  <2>8. QED
    BY <1>3, <2>4, <2>5, <2>6, <2>7 DEF FinishProbe, apiVars, PCs
<1>4. ASSUME NEW out \in Outcomes, PutChild(out) PROVE TypeInv'
  <2> DEFINE id == Operation.ids[1]
             new == [uid |-> job.base.uid, label |-> job.key.name, body |-> Operation.body]
             accepted == children[id] = childCache[id]
             ok == accepted /\ out = "ok"
  <2>1. pc = "children" /\ job \in Jobs /\ job # Nil /\ job.step \in DOMAIN Plan
    BY <1>4 DEF PutChild
  <2>2. new \in Objects
    BY <2>1, ChildType
  <2>3. spent' \in [BudgetKinds -> Nat]
    <3>1. CallFault(accepted, out)
      BY <1>4 DEF PutChild
    <3>2. QED
      BY <3>1, CallFaultType
  <2>4. /\ children' \in [ChildIds -> Objects \cup {Nil}]
        /\ childCache' \in [ChildIds -> Objects \cup {Nil}]
    <3>1. \/ SetChildren(children)
          \/ SetChildren([children EXCEPT ![id] = new])
      BY <1>4 DEF PutChild
    <3>2. [children EXCEPT ![id] = new] \in [ChildIds -> Objects \cup {Nil}]
      <4> HIDE DEF id, new
      <4>1. QED
        BY <2>2
    <3>3. QED
      BY <3>1, <3>2, SetChildrenType
  <2>5. queue' \subseteq Routes
    BY <1>4 DEF PutChild, Woken
  <2>6. Advance(ok) /\ ok \in BOOLEAN
    BY <1>4 DEF PutChild
  <2>7. job' \in Jobs /\ pc' \in {"children", "status"} /\ JobInv'
    <3> HIDE DEF ok
    <3>1. QED
      BY <2>1, <2>6, AdvanceType
  <2>8. QED
    BY <1>4, <2>3, <2>4, <2>5, <2>7 DEF PutChild, canaryVars, CanaryTypeOK, PCs
<1>5. ASSUME NEW n \in 0 .. 2, NEW succeeded \in BOOLEAN, DeleteChildren(n, succeeded)
      PROVE  TypeInv'
  <2> DEFINE ids == Operation.ids
             new == [id \in ChildIds |-> IF \E i \in 1 .. n : ids[i] = id THEN Nil ELSE children[id]]
  <2>1. pc = "children"
    BY <1>5 DEF DeleteChildren
  <2>2. spent' \in [BudgetKinds -> Nat]
    BY <1>5, SpendType DEF DeleteChildren, BudgetKinds
  <2>3. SetChildren(new) /\ Advance(succeeded)
    BY <1>5 DEF DeleteChildren
  <2>4. new \in [ChildIds -> Objects \cup {Nil}]
    <3> HIDE DEF ids
    <3>1. QED
      OBVIOUS
  <2>5. /\ children' \in [ChildIds -> Objects \cup {Nil}]
        /\ childCache' \in [ChildIds -> Objects \cup {Nil}]
    <3> HIDE DEF new
    <3>1. QED
      BY <2>3, <2>4, SetChildrenType
  <2>6. job' \in Jobs /\ pc' \in {"children", "status"} /\ JobInv'
    BY <2>1, <2>3, AdvanceType
  <2>7. QED
    BY <1>5, <2>2, <2>5, <2>6 DEF DeleteChildren, canaryVars, CanaryTypeOK, PCs
<1>6. CASE SkipChild
  <2>1. job' \in Jobs /\ pc' \in {"children", "status"} /\ JobInv'
    BY <1>6, AdvanceType DEF SkipChild
  <2>2. QED
    BY <1>6, <2>1 DEF SkipChild, apiVars, canaryVars, CanaryTypeOK, PCs
<1>7. QED
  BY <1>1, <1>2, <1>3, <1>4, <1>5, <1>6

\* The status and the metrics.
LEMMA StatusTypes ==
    ASSUME TypeInv, NEW out \in Outcomes, WriteStatus(out)
    PROVE  TypeInv'
<1> USE DEF TypeInv, TypeOK, JobInv
<1> DEFINE new == NewStatus(job)
           accepted == NotModified(job.key)
<1>1. job \in Jobs /\ job.key \in Routes /\ job.base \in RouteObjects /\ job.verdict \in Verdicts
  BY DEF WriteStatus, Jobs
<1>2. new \in Statuses
  BY <1>1, NewStatusType
<1>3. spent' \in [BudgetKinds -> Nat]
  BY CallFaultType DEF WriteStatus
<1>4. routes' \in [Routes -> RouteObjects \cup {Nil}]
  <2>1. [job.base EXCEPT !.status = new] \in RouteObjects
    BY <1>1, <1>2 DEF RouteObjects
  <2>2. \/ routes' = routes
        \/ routes' = [routes EXCEPT ![job.key] = [job.base EXCEPT !.status = new]]
    BY <1>1 DEF WriteStatus, NotModified
  <2>3. QED
    BY <1>1, <2>1, <2>2
<1>5. gauges' \in [Routes -> Gauges \cup {Nil}]
  <2>1. RouteMetrics(new.phase, job.verdict, new.managed) \in Gauges
    BY <1>1, <1>2 DEF Statuses, Gauges, RouteMetrics, OneHot
  <2>2. \/ gauges' = gauges
        \/ gauges' = [gauges EXCEPT ![job.key] = RouteMetrics(new.phase, job.verdict, new.managed)]
    BY DEF WriteStatus
  <2>3. QED
    BY <2>1, <2>2
<1>6. pc' = "idle" /\ job' = Nil /\ delayed' \subseteq Routes
  BY <1>1 DEF WriteStatus, AfterStatus, Return, ReturnRequeue
<1>7. QED
  BY <1>3, <1>4, <1>5, <1>6 DEF WriteStatus, canaryVars, CanaryTypeOK, PCs

\* The work queue, the watches and restarts.
LEMMA ProcessTypes ==
    ASSUME TypeInv,
           (\E r \in Routes : RequeueDue(r)) \/ Resync \/ CacheSync \/ ChildSync \/ Crash
    PROVE  TypeInv'
<1> USE DEF TypeInv, TypeOK, JobInv
<1>1. ASSUME NEW r \in Routes, RequeueDue(r) PROVE TypeInv'
  BY <1>1 DEF RequeueDue, apiVars, canaryVars, CanaryTypeOK
<1>2. CASE Resync
  BY <1>2 DEF Resync, apiVars, canaryVars, CanaryTypeOK
<1>3. CASE CacheSync
  BY <1>3 DEF CacheSync, apiVars, canaryVars, CanaryTypeOK
<1>4. CASE ChildSync
  BY <1>4 DEF ChildSync, apiVars, workerVars, canaryVars, CanaryTypeOK
<1>5. CASE Crash
  <2>1. CanaryTypeOK'
    BY <1>5 DEF Crash, CanaryReset, CanaryTypeOK
  <2>2. spent' \in [BudgetKinds -> Nat]
    BY <1>5, SpendType DEF Crash, BudgetKinds
  <2>3. QED
    BY <1>5, <2>1, <2>2 DEF Crash, apiVars, PCs
<1>6. QED
  BY <1>1, <1>2, <1>3, <1>4, <1>5

\* What the users and the garbage collector do to a Route.
LEMMA UserTypes ==
    ASSUME TypeInv, NEW r \in Routes,
           \/ \E spec \in Specs : CreateRoute(r, spec) \/ EditRoute(r, spec)
           \/ \E foreground \in BOOLEAN : DeleteRoute(r, foreground)
           \/ ReleaseHold(r)
    PROVE  TypeInv'
<1> USE DEF TypeInv, TypeOK, JobInv
<1>1. \A spec \in Specs : Mutated(spec) \in AllSpecs
  BY MutatedType DEF AllSpecs
<1>2. ASSUME NEW spec \in Specs, CreateRoute(r, spec) PROVE TypeInv'
  <2> DEFINE new == [uid |-> spent["create"], created |-> now, gen |-> 1, spec |-> Mutated(spec),
                     status |-> NoStatus, finalizer |-> FALSE, deleting |-> FALSE, hold |-> FALSE]
  <2>1. NoStatus \in Statuses
    BY DEF NoStatus, Statuses, Conditions, Phases
  <2>2. new \in RouteObjects
    BY <1>1, <2>1 DEF RouteObjects, BudgetKinds
  <2>3. routes' \in [Routes -> RouteObjects \cup {Nil}]
    <3>1. routes' = [routes EXCEPT ![r] = new]
      BY <1>2 DEF CreateRoute
    <3>2. QED
      BY <2>2, <3>1
  <2>4. spent' \in [BudgetKinds -> Nat]
    BY <1>2, SpendType DEF CreateRoute, BudgetKinds
  <2>5. QED
    BY <1>2, <2>3, <2>4 DEF CreateRoute, workerVars, canaryVars, CanaryTypeOK
<1>3. ASSUME NEW spec \in Specs, EditRoute(r, spec) PROVE TypeInv'
  <2> DEFINE new == [routes[r] EXCEPT !.spec = Mutated(spec), !.gen = routes[r].gen + 1]
  <2>1. routes[r] \in RouteObjects
    BY <1>3 DEF EditRoute
  <2>2. new \in RouteObjects
    <3>1. routes[r].gen + 1 \in Nat
      BY <2>1 DEF RouteObjects
    <3>2. QED
      BY <1>1, <2>1, <3>1 DEF RouteObjects
  <2>3. routes' \in [Routes -> RouteObjects \cup {Nil}]
    <3>1. routes' = [routes EXCEPT ![r] = new]
      BY <1>3 DEF EditRoute
    <3>2. QED
      BY <2>2, <3>1
  <2>4. spent' \in [BudgetKinds -> Nat]
    BY <1>3, SpendType DEF EditRoute, BudgetKinds
  <2>5. QED
    BY <1>3, <2>3, <2>4 DEF EditRoute, workerVars, canaryVars, CanaryTypeOK
<1>4. ASSUME NEW foreground \in BOOLEAN, DeleteRoute(r, foreground) PROVE TypeInv'
  <2> DEFINE new == [routes[r] EXCEPT !.deleting = TRUE, !.hold = foreground, !.gen = routes[r].gen + 1]
  <2>1. routes[r] \in RouteObjects
    BY <1>4 DEF DeleteRoute
  <2>2. new \in RouteObjects
    <3>1. routes[r].gen + 1 \in Nat
      BY <2>1 DEF RouteObjects
    <3>2. QED
      BY <2>1, <3>1 DEF RouteObjects
  <2>3. routes' \in [Routes -> RouteObjects \cup {Nil}]
    <3>1. routes' = [routes EXCEPT ![r] = new] \/ routes' = [routes EXCEPT ![r] = Nil]
      BY <1>4 DEF DeleteRoute
    <3>2. QED
      BY <2>2, <3>1
  <2>4. spent' \in [BudgetKinds -> Nat]
    BY <1>4, SpendType DEF DeleteRoute, BudgetKinds
  <2>5. QED
    BY <1>4, <2>3, <2>4 DEF DeleteRoute, workerVars, canaryVars, CanaryTypeOK
<1>5. CASE ReleaseHold(r)
  <2> DEFINE new == [routes[r] EXCEPT !.hold = FALSE]
  <2>1. routes[r] \in RouteObjects
    BY <1>5 DEF ReleaseHold
  <2>2. new \in RouteObjects
    BY <2>1 DEF RouteObjects
  <2>3. routes' \in [Routes -> RouteObjects \cup {Nil}]
    <3>1. routes' = [routes EXCEPT ![r] = new] \/ routes' = [routes EXCEPT ![r] = Nil]
      BY <1>5 DEF ReleaseHold
    <3>2. QED
      BY <2>2, <3>1
  <2>4. QED
    BY <1>5, <2>3 DEF ReleaseHold, workerVars, canaryVars, CanaryTypeOK
<1>6. QED
  BY <1>2, <1>3, <1>4, <1>5

\* The children that disappear, the Services, the Gateways and the clock.
LEMMA ClusterTypes ==
    ASSUME TypeInv,
           \/ \E id \in ChildIds : GarbageCollect(id) \/ DeleteChild(id)
           \/ Cluster \/ Tick
    PROVE  TypeInv'
<1> USE DEF TypeInv, TypeOK, JobInv
<1>1. ASSUME NEW id \in ChildIds, GarbageCollect(id) \/ DeleteChild(id) PROVE TypeInv'
  <2>1. SetChildren([children EXCEPT ![id] = Nil])
    BY <1>1 DEF GarbageCollect, DeleteChild
  <2>2. [children EXCEPT ![id] = Nil] \in [ChildIds -> Objects \cup {Nil}]
    OBVIOUS
  <2>3. /\ children' \in [ChildIds -> Objects \cup {Nil}]
        /\ childCache' \in [ChildIds -> Objects \cup {Nil}]
    BY <2>1, <2>2, SetChildrenType
  <2>4. queue' \subseteq Routes
    BY <1>1 DEF GarbageCollect, DeleteChild, Woken
  <2>5. spent' \in [BudgetKinds -> Nat]
    BY <1>1, SpendType DEF GarbageCollect, DeleteChild, BudgetKinds
  <2>6. QED
    BY <1>1, <2>3, <2>4, <2>5 DEF GarbageCollect, DeleteChild, canaryVars, CanaryTypeOK
<1>2. ASSUME NEW s \in ServiceKeys, NEW state \in ServiceStates, SetService(s, state) PROVE TypeInv'
  <2>1. spent' \in [BudgetKinds -> Nat]
    BY <1>2, SpendType DEF SetService, BudgetKinds
  <2>2. QED
    BY <1>2, <2>1 DEF SetService, workerVars, canaryVars, CanaryTypeOK
<1>3. ASSUME NEW g \in GatewayRefs, NEW state \in GatewayStates \cup {Nil}, SetGateway(g, state)
      PROVE  TypeInv'
  <2>1. spent' \in [BudgetKinds -> Nat]
    BY <1>3, SpendType DEF SetGateway, BudgetKinds
  <2>2. QED
    BY <1>3, <2>1 DEF SetGateway, workerVars, canaryVars, CanaryTypeOK
<1>4. ASSUME NEW k \in SecretKeys, NEW state \in SecretStates \cup {Nil}, SetSecret(k, state)
      PROVE  TypeInv'
  <2>1. spent' \in [BudgetKinds -> Nat]
    BY <1>4, SpendType DEF SetSecret, BudgetKinds
  <2>2. QED
    BY <1>4, <2>1 DEF SetSecret, workerVars, canaryVars, CanaryTypeOK
<1>5. CASE Tick
  BY <1>5 DEF Tick, apiVars, workerVars, canaryVars, CanaryTypeOK
<1>6. QED
  BY <1>1, <1>2, <1>3, <1>4, <1>5 DEF Cluster

\* Every step of the system keeps the types.
LEMMA StepTypes ==
    ASSUME TypeInv, [Next]_vars
    PROVE  TypeInv'
<1>1. ASSUME NEW r \in Routes, BeginAny(r) \/ RequeueDue(r) PROVE TypeInv'
  BY <1>1, BeginTypes, ProcessTypes
<1>2. CASE Worker
  BY <1>2, DeletionTypes, EvaluationTypes, ChildrenTypes, StatusTypes DEF Worker
<1>3. CASE Resync \/ CacheSync \/ ChildSync \/ Crash
  BY <1>3, ProcessTypes
<1>4. CASE Collector
  BY <1>4, UserTypes, ClusterTypes DEF Collector
<1>5. CASE User
  BY <1>5, UserTypes, ClusterTypes DEF User
<1>6. CASE Cluster \/ Tick
  BY <1>6, ClusterTypes
<1>7. CASE UNCHANGED vars
  BY <1>7 DEF vars, canaryVars, apiVars, workerVars, TypeInv, TypeOK, CanaryTypeOK, JobInv
<1>8. QED
  BY <1>1, <1>2, <1>3, <1>4, <1>5, <1>6, <1>7 DEF Next

\* Types hold initially.
LEMMA InitTypes ==
    ASSUME Init
    PROVE  TypeInv
<1>1. CanaryTypeOK
  BY DEF Init, CanaryInit, CanaryTypeOK
<1>2. pc = "idle" /\ job = Nil
  BY DEF Init
<1>3. QED
  BY <1>1, <1>2 DEF Init, TypeInv, TypeOK, JobInv, PCs

\* The controller, its caches and the API server are always in a state of the
\* declared types, and the local variables of Reconcile are those of the step
\* it is at: Reconcile goes past the finalizer only with an object that has it.
THEOREM TypeCorrect == Spec => [](TypeOK /\ JobInv)
<1>1. Init => TypeInv
  BY InitTypes
<1>2. TypeInv /\ [Next]_vars => TypeInv'
  BY StepTypes
<1>3. TypeInv => TypeOK /\ JobInv
  BY DEF TypeInv
<1>4. QED
  BY <1>1, <1>2, <1>3, PTL DEF Spec

-----------------------------------------------------------------------------
(* The finalizer of a Route is stored before its first child.              *)
(*                                                                         *)
(* FinalizerFirst is not inductive: Reconcile trusts a finalizer that it   *)
(* read from a cache, perhaps of an object that has been deleted and       *)
(* created again since.  FinalizerInv adds why it may.                     *)

\* Every uid in sight was handed out by an earlier creation.
UidsKnown ==
    /\ \A r \in Routes : routes[r] # Nil => routes[r].uid < spent["create"]
    /\ \A r \in Routes : cache[r] # Nil => cache[r].uid < spent["create"]
    /\ \A id \in ChildIds : children[id] # Nil => children[id].uid < spent["create"]
    /\ job # Nil => job.base.uid < spent["create"]

\* A uid stays with its key, at the API server and in what was read from it.
UidsUnique ==
    \A r \in Routes : routes[r] # Nil =>
        /\ \A q \in Routes : routes[q] # Nil /\ routes[q].uid = routes[r].uid => q = r
        /\ \A q \in Routes : cache[q] # Nil /\ cache[q].uid = routes[r].uid => q = r
        /\ job # Nil /\ job.base.uid = routes[r].uid => job.key = r

\* A finalizer that was ever read is still there, or the Route is being deleted.
FinalizerKept ==
    \A r \in Routes : routes[r] # Nil =>
        /\ /\ cache[r] # Nil
           /\ cache[r].uid = routes[r].uid
           /\ cache[r].finalizer
           => routes[r].finalizer \/ routes[r].deleting
        /\ /\ job # Nil
           /\ job.key = r
           /\ job.base.uid = routes[r].uid
           /\ job.base.finalizer
           => routes[r].finalizer \/ routes[r].deleting

FinalizerInv == UidsKnown /\ UidsUnique /\ FinalizerKept /\ FinalizerFirst

\* What every step but a creation does to a Route: its uid stays, and its
\* finalizer goes only once it is being deleted, which is for good.
Evolves ==
    \A r \in Routes : routes'[r] # Nil =>
        /\ routes[r] # Nil
        /\ routes'[r].uid = routes[r].uid
        /\ routes[r].finalizer => routes'[r].finalizer \/ routes'[r].deleting
        /\ routes[r].deleting => routes'[r].deleting

\* What every step does to the children: they go, or come from a Route that was
\* read with its finalizer.
ChildrenFromJob ==
    \A id \in ChildIds : children'[id] # Nil =>
        \/ children'[id] = children[id]
        \/ /\ job # Nil
           /\ job.base.finalizer
           /\ children'[id].uid = job.base.uid

\* Reconcile keeps the object it works on, or returns.
JobKept ==
    job' # Nil =>
        job # Nil /\ job'.key = job.key /\ job'.base = job.base

\* Such steps keep the invariant.
LEMMA FrameStep ==
    ASSUME TypeInv, TypeInv', FinalizerInv, Evolves, ChildrenFromJob, JobKept,
           cache' = cache, spent'["create"] >= spent["create"]
    PROVE  FinalizerInv'
<1>1. /\ \A r \in Routes : routes[r] # Nil => routes[r].uid \in Nat
      /\ \A r \in Routes : cache[r] # Nil => cache[r].uid \in Nat
      /\ \A id \in ChildIds : children[id] # Nil => children[id].uid \in Nat
      /\ job # Nil => job.base.uid \in Nat /\ job.key \in Routes
      /\ spent["create"] \in Nat /\ spent'["create"] \in Nat
  BY DEF TypeInv, TypeOK, RouteObjects, Objects, Jobs, BudgetKinds
<1>2. UidsKnown'
  <2>1. \A r \in Routes : routes'[r] # Nil => routes'[r].uid < spent'["create"]
    BY <1>1 DEF FinalizerInv, UidsKnown, Evolves
  <2>2. \A r \in Routes : cache'[r] # Nil => cache'[r].uid < spent'["create"]
    BY <1>1 DEF FinalizerInv, UidsKnown
  <2>3. \A id \in ChildIds : children'[id] # Nil => children'[id].uid < spent'["create"]
    BY <1>1 DEF FinalizerInv, UidsKnown, ChildrenFromJob
  <2>4. job' # Nil => job'.base.uid < spent'["create"]
    BY <1>1 DEF FinalizerInv, UidsKnown, JobKept
  <2>5. QED
    BY <2>1, <2>2, <2>3, <2>4 DEF UidsKnown
<1>3. UidsUnique'
  BY DEF FinalizerInv, UidsUnique, Evolves, JobKept
<1>4. FinalizerKept'
  BY DEF FinalizerInv, FinalizerKept, Evolves, JobKept
<1>5. FinalizerFirst'
  <2> SUFFICES ASSUME NEW id \in ChildIds, NEW r \in Routes,
                      children'[id] # Nil, routes'[r] # Nil, ~routes'[r].deleting,
                      routes'[r].uid = children'[id].uid
               PROVE  routes'[r].finalizer
    BY DEF FinalizerFirst, Live
  <2>1. /\ routes[r] # Nil /\ routes[r].uid = children'[id].uid /\ ~routes[r].deleting
        /\ routes[r].finalizer => routes'[r].finalizer
    BY DEF Evolves
  <2>2. CASE children'[id] = children[id]
    BY <2>1, <2>2 DEF FinalizerInv, FinalizerFirst, Live
  <2>3. CASE job # Nil /\ job.base.finalizer /\ children'[id].uid = job.base.uid
    <3>1. job.key = r
      BY <2>1, <2>3 DEF FinalizerInv, UidsUnique
    <3>2. QED
      BY <2>1, <2>3, <3>1 DEF FinalizerInv, FinalizerKept
  <2>4. QED
    BY <2>2, <2>3 DEF ChildrenFromJob
<1>6. QED
  BY <1>2, <1>3, <1>4, <1>5 DEF FinalizerInv

\* Spending leaves the number of creations alone, or raises it.
LEMMA SpendCreate ==
    ASSUME TypeOK, NEW k \in BudgetKinds, Spend(k) \/ UNCHANGED spent
    PROVE  spent'["create"] >= spent["create"]
BY DEF Spend, TypeOK, BudgetKinds

LEMMA CallFaultCreate ==
    ASSUME TypeOK, NEW accepted, NEW out, CallFault(accepted, out)
    PROVE  spent'["create"] >= spent["create"]
<1>1. Spend("fault") \/ UNCHANGED spent
  BY DEF CallFault
<1>2. QED
  BY <1>1, SpendCreate DEF BudgetKinds

\* A step that leaves the Routes, their cache and the children alone, and the
\* job too or ends it.
LEMMA IdleStep ==
    ASSUME TypeInv, TypeInv', FinalizerInv, JobKept,
           UNCHANGED <<routes, cache, children>>, spent'["create"] >= spent["create"]
    PROVE  FinalizerInv'
<1>1. Evolves /\ ChildrenFromJob
  BY DEF Evolves, ChildrenFromJob
<1>2. QED
  BY <1>1, FrameStep

\* Reading the Route: what the cache has is what Reconcile works on.
LEMMA BeginFinalizer ==
    ASSUME TypeInv, TypeInv', FinalizerInv, NEW r \in Routes, BeginAny(r)
    PROVE  FinalizerInv'
<1>1. CASE Begin(r)
  <2>1. /\ cache[r] # Nil /\ job'.key = r /\ job'.base = cache[r]
        /\ UNCHANGED <<routes, cache, children, spent>>
    BY <1>1 DEF Begin, NewJob, apiVars
  <2>2. UidsKnown'
    BY <2>1 DEF FinalizerInv, UidsKnown
  <2>3. UidsUnique'
    BY <2>1 DEF FinalizerInv, UidsUnique
  <2>4. FinalizerKept'
    BY <2>1 DEF FinalizerInv, FinalizerKept
  <2>5. FinalizerFirst'
    BY <2>1 DEF FinalizerInv, FinalizerFirst, Live
  <2>6. QED
    BY <2>2, <2>3, <2>4, <2>5 DEF FinalizerInv
<1>2. CASE BeginGone(r) \/ BeginFails(r) \/ BeginReleased(r)
  <2>1. UNCHANGED <<routes, cache, children, job>>
    BY <1>2 DEF BeginGone, BeginFails, BeginReleased, apiVars
  <2>2. spent'["create"] >= spent["create"]
    <3>1. Spend("fault") \/ UNCHANGED spent
      BY <1>2 DEF BeginGone, BeginFails, BeginReleased
    <3>2. QED
      BY <3>1, SpendCreate DEF TypeInv, BudgetKinds
  <2>3. QED
    BY <2>1, <2>2, IdleStep DEF JobKept
<1>3. QED
  BY <1>1, <1>2 DEF BeginAny

\* Storing the finalizer, the one write that gives Reconcile a new object.
LEMMA AddFinalizerFinalizer ==
    ASSUME TypeInv, TypeInv', FinalizerInv, NEW out \in Outcomes, AddFinalizer(out)
    PROVE  FinalizerInv'
<1> DEFINE r == job.key
           new == [job.base EXCEPT !.finalizer = TRUE, !.spec = Mutated(@)]
           accepted == NotModified(r) /\ Admitted(r, new.spec)
<1>1. job \in Jobs /\ job # Nil /\ r \in Routes /\ job.base \in RouteObjects /\ job.base # Nil
  BY NilAssumption DEF AddFinalizer, NotModified, TypeInv, TypeOK, JobInv, Jobs
<1>2. /\ new.uid = job.base.uid /\ new.finalizer /\ new.deleting = job.base.deleting
      /\ new \in RouteObjects
  <2>1. Mutated(job.base.spec) \in AllSpecs
    BY <1>1, MutatedType DEF RouteObjects
  <2>2. QED
    BY <1>1, <2>1 DEF RouteObjects
<1>3. spent'["create"] >= spent["create"]
  BY CallFaultCreate DEF AddFinalizer, TypeInv
<1>4. cache' = cache /\ children' = children
  BY DEF AddFinalizer
<1>5. routes' = routes \/ (routes[r] = job.base /\ routes' = [routes EXCEPT ![r] = new])
  BY <1>1 DEF AddFinalizer, NotModified, TypeInv, TypeOK
<1>6. Evolves
  <2> HIDE DEF new
  <2>1. QED
    BY <1>1, <1>2, <1>5 DEF Evolves, TypeInv, TypeOK
<1>7. ChildrenFromJob
  BY <1>4 DEF ChildrenFromJob
<1>8. CASE ~(accepted /\ out = "ok")
  <2>1. job' = Nil
    BY <1>8 DEF AddFinalizer, ReturnRequeue
  <2>2. QED
    BY <1>3, <1>4, <1>6, <1>7, <2>1, FrameStep DEF JobKept
<1>9. CASE accepted /\ out = "ok"
  <2>1. /\ routes[r] = job.base /\ routes' = [routes EXCEPT ![r] = new]
        /\ job' = [job EXCEPT !.base = new] /\ spent' = spent
    BY <1>9 DEF AddFinalizer, NotModified, Applied, CallFault
  <2> HIDE DEF new, accepted
  <2>2. job'.key = r /\ job'.base = new /\ job' # Nil /\ routes'[r] = new
    BY <1>1, <1>2, <2>1, NilAssumption DEF Jobs, TypeInv, TypeOK
  <2>3. \A q \in Routes : q # r => routes'[q] = routes[q]
    BY <2>1 DEF TypeInv, TypeOK
  <2> HIDE DEF r
  <2>4. UidsKnown'
    BY <1>1, <1>2, <1>4, <2>1, <2>2, <2>3 DEF FinalizerInv, UidsKnown
  <2>5. UidsUnique'
    BY <1>1, <1>2, <1>4, <2>1, <2>2, <2>3 DEF FinalizerInv, UidsUnique
  <2>6. FinalizerKept'
    BY <1>1, <1>2, <1>4, <2>1, <2>2, <2>3 DEF FinalizerInv, FinalizerKept
  <2>7. FinalizerFirst'
    BY <1>1, <1>2, <1>4, <2>1, <2>2, <2>3 DEF FinalizerInv, FinalizerFirst, Live
  <2>8. QED
    BY <2>4, <2>5, <2>6, <2>7 DEF FinalizerInv
<1>10. QED
  BY <1>8, <1>9

\* The steps of Reconcile that write no Route and no child.
LEMMA EvaluationFinalizer ==
    ASSUME TypeInv, TypeInv', FinalizerInv,
           \/ CheckCertificate \/ CheckConflicts \/ CheckBackends \/ EvaluationFails
           \/ ChooseCanary \/ StartProbe \/ (\E bad \in BOOLEAN : FinishProbe(bad)) \/ SkipChild
    PROVE  FinalizerInv'
<1>1. job \in Jobs /\ job # Nil
  BY DEF TypeInv, TypeOK, JobInv, CheckCertificate, CheckConflicts, CheckBackends,
         EvaluationFails, ChooseCanary, StartProbe, FinishProbe, SkipChild
<1>2. UNCHANGED <<routes, cache, children>>
  BY DEF CheckCertificate, CheckConflicts, CheckBackends, EvaluationFails, ChooseCanary,
         StartProbe, FinishProbe, SkipChild, apiVars
<1>3. spent'["create"] >= spent["create"]
  <2>1. Spend("fault") \/ UNCHANGED spent
    BY DEF CheckCertificate, CheckConflicts, CheckBackends, EvaluationFails, ChooseCanary,
           StartProbe, FinishProbe, SkipChild
  <2>2. QED
    BY <2>1, SpendCreate DEF TypeInv, BudgetKinds
<1>4. JobKept
  <2>1. CASE EvaluationFails
    BY <2>1 DEF EvaluationFails, ReturnRequeue, JobKept
  <2>2. CASE CheckCertificate
    BY <1>1, <2>2 DEF CheckCertificate, Jobs, JobKept
  <2>3. CASE CheckConflicts \/ CheckBackends
    BY <1>1, <2>3 DEF CheckConflicts, CheckBackends, Jobs, JobKept
  <2>4. CASE ChooseCanary \/ StartProbe
    BY <1>1, <2>4 DEF ChooseCanary, StartProbe, Jobs, JobKept
  <2>5. CASE \E bad \in BOOLEAN : FinishProbe(bad)
    BY <1>1, <2>5 DEF FinishProbe, Jobs, JobKept
  <2>6. CASE SkipChild
    BY <1>1, <2>6 DEF SkipChild, Advance, Jobs, JobKept
  <2>7. QED
    BY <2>1, <2>2, <2>3, <2>4, <2>5, <2>6
<1>5. QED
  BY <1>2, <1>3, <1>4, IdleStep

\* The steps of Reconcile that write Routes or children.
LEMMA WriteFinalizer ==
    ASSUME TypeInv, TypeInv', FinalizerInv,
           \/ CleanupKind
           \/ \E out \in Outcomes : RemoveFinalizer(out) \/ PutChild(out) \/ WriteStatus(out)
           \/ \E n \in 0 .. 2, succeeded \in BOOLEAN : DeleteChildren(n, succeeded)
    PROVE  FinalizerInv'
<1>1. job \in Jobs /\ job # Nil /\ job.key \in Routes /\ job.base \in RouteObjects
  BY DEF TypeInv, TypeOK, JobInv, Jobs, CleanupKind, RemoveFinalizer, PutChild, WriteStatus,
         DeleteChildren
<1>2. CASE CleanupKind
  <2>1. routes' = routes /\ cache' = cache
    BY <1>2 DEF CleanupKind
  <2>2. \A id \in ChildIds : children'[id] # Nil => children'[id] = children[id]
    BY <1>2 DEF CleanupKind, SetChildren
  <2>3. spent'["create"] >= spent["create"]
    <3>1. Spend("fault") \/ UNCHANGED spent
      BY <1>2 DEF CleanupKind
    <3>2. QED
      BY <3>1, SpendCreate DEF TypeInv, BudgetKinds
  <2>4. JobKept
    BY <1>1, <1>2 DEF CleanupKind, Jobs, JobKept
  <2>5. QED
    BY <2>1, <2>2, <2>3, <2>4, FrameStep DEF Evolves, ChildrenFromJob
<1>3. ASSUME NEW out \in Outcomes, RemoveFinalizer(out) PROVE FinalizerInv'
  <2>1. cache' = cache /\ children' = children
    BY <1>3 DEF RemoveFinalizer
  <2>2. spent'["create"] >= spent["create"]
    BY <1>3, CallFaultCreate DEF RemoveFinalizer, TypeInv
  <2>3. job' = Nil
    BY <1>3 DEF RemoveFinalizer, Return, ReturnRequeue
  <2>4. Evolves
    <3>1. \/ routes' = routes
          \/ routes' = [routes EXCEPT ![job.key] = Nil]
          \/ /\ routes[job.key] = job.base
             /\ routes' = [routes EXCEPT ![job.key] = [job.base EXCEPT !.finalizer = FALSE]]
      BY <1>1, <1>3 DEF RemoveFinalizer, NotModified, TypeInv, TypeOK
    <3>2. job.base.deleting
      BY <1>1, <1>3 DEF RemoveFinalizer, TypeInv, JobInv
    <3> DEFINE new == [job.base EXCEPT !.finalizer = FALSE]
    <3>3. new.uid = job.base.uid /\ new.deleting
      BY <1>1, <3>2 DEF RouteObjects
    <3> HIDE DEF new
    <3>4. routes \in [Routes -> RouteObjects \cup {Nil}]
      BY DEF TypeInv, TypeOK
    <3>5. QED
      BY <1>1, <3>1, <3>3, <3>4, NilAssumption DEF Evolves, new
  <2>5. QED
    BY <2>1, <2>2, <2>3, <2>4, FrameStep DEF ChildrenFromJob, JobKept
<1>4. ASSUME NEW out \in Outcomes, PutChild(out) PROVE FinalizerInv'
  <2>1. routes' = routes /\ cache' = cache
    BY <1>4 DEF PutChild
  <2>2. spent'["create"] >= spent["create"]
    BY <1>4, CallFaultCreate DEF PutChild, TypeInv
  <2>3. JobKept
    BY <1>1, <1>4 DEF PutChild, Advance, Jobs, JobKept
  <2> DEFINE id == Operation.ids[1]
             new == [uid |-> job.base.uid, label |-> job.key.name, body |-> Operation.body]
  <2>4. children' = children \/ children' = [children EXCEPT ![id] = new]
    BY <1>4 DEF PutChild, SetChildren
  <2>5. job.base.finalizer
    BY <1>1, <1>4 DEF PutChild, TypeInv, JobInv, Working
  <2>6. new.uid = job.base.uid
    OBVIOUS
  <2>7. ChildrenFromJob
    <3> HIDE DEF id, new
    <3>1. QED
      BY <1>1, <2>4, <2>5, <2>6 DEF ChildrenFromJob, TypeInv, TypeOK
  <2>8. QED
    BY <2>1, <2>2, <2>3, <2>7, FrameStep DEF Evolves
<1>5. ASSUME NEW out \in Outcomes, WriteStatus(out) PROVE FinalizerInv'
  <2>1. cache' = cache /\ children' = children
    BY <1>5 DEF WriteStatus
  <2>2. spent'["create"] >= spent["create"]
    BY <1>5, CallFaultCreate DEF WriteStatus, TypeInv
  <2>3. job' = Nil
    BY <1>5 DEF WriteStatus, AfterStatus, Return, ReturnRequeue
  <2> DEFINE new == [job.base EXCEPT !.status = NewStatus(job)]
  <2>4. \/ routes' = routes
        \/ routes[job.key] = job.base /\ routes' = [routes EXCEPT ![job.key] = new]
    BY <1>1, <1>5 DEF WriteStatus, NotModified, TypeInv, TypeOK
  <2>5. /\ new.uid = job.base.uid /\ new.finalizer = job.base.finalizer
        /\ new.deleting = job.base.deleting
    BY <1>1 DEF RouteObjects
  <2>6. Evolves
    <3> HIDE DEF new
    <3>1. QED
      BY <1>1, <2>4, <2>5, NilAssumption DEF Evolves, TypeInv, TypeOK
  <2>7. QED
    BY <2>1, <2>2, <2>3, <2>6, FrameStep DEF ChildrenFromJob, JobKept
<1>6. ASSUME NEW n \in 0 .. 2, NEW succeeded \in BOOLEAN, DeleteChildren(n, succeeded)
      PROVE  FinalizerInv'
  <2>1. routes' = routes /\ cache' = cache
    BY <1>6 DEF DeleteChildren
  <2>2. \A id \in ChildIds : children'[id] # Nil => children'[id] = children[id]
    BY <1>6 DEF DeleteChildren, SetChildren
  <2>3. spent'["create"] >= spent["create"]
    <3>1. Spend("fault") \/ UNCHANGED spent
      BY <1>6 DEF DeleteChildren
    <3>2. QED
      BY <3>1, SpendCreate DEF TypeInv, BudgetKinds
  <2>4. JobKept
    BY <1>1, <1>6 DEF DeleteChildren, Advance, Jobs, JobKept
  <2>5. QED
    BY <2>1, <2>2, <2>3, <2>4, FrameStep DEF Evolves, ChildrenFromJob
<1>7. QED
  BY <1>2, <1>3, <1>4, <1>5, <1>6

\* The queue, the watches and restarts.
LEMMA ProcessFinalizer ==
    ASSUME TypeInv, TypeInv', FinalizerInv,
           (\E r \in Routes : RequeueDue(r)) \/ Resync \/ CacheSync \/ ChildSync \/ Crash
    PROVE  FinalizerInv'
<1>1. CASE (\E r \in Routes : RequeueDue(r)) \/ Resync \/ ChildSync
  <2>1. UNCHANGED <<routes, cache, children, job, spent>>
    BY <1>1 DEF RequeueDue, Resync, ChildSync, apiVars, workerVars
  <2>2. spent'["create"] >= spent["create"]
    BY <2>1 DEF TypeInv, TypeOK, BudgetKinds
  <2>3. QED
    BY <2>1, <2>2, IdleStep DEF JobKept
<1>2. CASE CacheSync \/ Crash
  <2>1. cache' = routes /\ routes' = routes /\ children' = children
    BY <1>2 DEF CacheSync, Crash, apiVars
  <2>2. job' = job \/ job' = Nil
    BY <1>2 DEF CacheSync, Crash
  <2>3. spent'["create"] = spent["create"]
    <3>1. spent' = spent \/ Spend("crash")
      BY <1>2 DEF CacheSync, Crash
    <3>2. QED
      BY <3>1 DEF Spend, TypeInv, TypeOK, BudgetKinds
  <2>4. UidsKnown'
    BY <2>1, <2>2, <2>3 DEF FinalizerInv, UidsKnown
  <2>5. UidsUnique'
    BY <2>1, <2>2 DEF FinalizerInv, UidsUnique
  <2>6. FinalizerKept'
    BY <2>1, <2>2 DEF FinalizerInv, FinalizerKept
  <2>7. FinalizerFirst'
    BY <2>1 DEF FinalizerInv, FinalizerFirst, Live
  <2>8. QED
    BY <2>4, <2>5, <2>6, <2>7 DEF FinalizerInv
<1>3. QED
  BY <1>1, <1>2

\* A new Route has a uid that nothing else in sight has.
LEMMA CreateFinalizer ==
    ASSUME TypeInv, TypeInv', FinalizerInv, NEW r \in Routes, NEW spec \in Specs,
           CreateRoute(r, spec)
    PROVE  FinalizerInv'
<1> DEFINE u == spent["create"]
<1>1. /\ routes'[r] # Nil /\ routes'[r].uid = u
      /\ \A q \in Routes : q # r => routes'[q] = routes[q]
      /\ UNCHANGED <<cache, children, job>>
  <2> DEFINE new == [uid |-> spent["create"], created |-> now, gen |-> 1, spec |-> Mutated(spec),
                     status |-> NoStatus, finalizer |-> FALSE, deleting |-> FALSE, hold |-> FALSE]
  <2>1. routes' = [routes EXCEPT ![r] = new] /\ UNCHANGED <<cache, children, job>>
    BY DEF CreateRoute, workerVars
  <2>2. new.uid = u
    OBVIOUS
  <2>3. new # Nil
    <3>1. \A s \in Specs : Mutated(s) \in AllSpecs
      BY MutatedType DEF AllSpecs
    <3>2. NoStatus \in Statuses
      BY DEF NoStatus, Statuses, Conditions, Phases
    <3>3. new \in RouteObjects
      BY <3>1, <3>2 DEF RouteObjects, BudgetKinds, TypeInv, TypeOK
    <3>4. QED
      BY <3>3, NilAssumption
  <2> HIDE DEF new, u
  <2>4. QED
    BY <2>1, <2>2, <2>3 DEF TypeInv, TypeOK
<1>2. u \in Nat /\ spent'["create"] = u + 1
  BY DEF CreateRoute, Spend, TypeInv, TypeOK, BudgetKinds
<1>3. /\ \A q \in Routes : routes[q] # Nil => routes[q].uid \in Nat /\ routes[q].uid < u
      /\ \A q \in Routes : cache[q] # Nil => cache[q].uid \in Nat /\ cache[q].uid < u
      /\ \A id \in ChildIds : children[id] # Nil => children[id].uid \in Nat /\ children[id].uid < u
      /\ job # Nil => job.base.uid \in Nat /\ job.base.uid < u
  BY DEF FinalizerInv, UidsKnown, TypeInv, TypeOK, RouteObjects, Objects, Jobs
<1> HIDE DEF u
<1>4. UidsKnown'
  BY <1>1, <1>2, <1>3 DEF UidsKnown
<1>5. UidsUnique'
  BY <1>1, <1>2, <1>3 DEF FinalizerInv, UidsUnique
<1>6. FinalizerKept'
  BY <1>1, <1>2, <1>3 DEF FinalizerInv, FinalizerKept
<1>7. FinalizerFirst'
  BY <1>1, <1>2, <1>3 DEF FinalizerInv, FinalizerFirst, Live
<1>8. QED
  BY <1>4, <1>5, <1>6, <1>7 DEF FinalizerInv

\* The other steps that write a Route.
LEMMA UserFinalizer ==
    ASSUME TypeInv, TypeInv', FinalizerInv, NEW r \in Routes,
           \/ \E spec \in Specs : EditRoute(r, spec)
           \/ \E foreground \in BOOLEAN : DeleteRoute(r, foreground)
           \/ ReleaseHold(r)
    PROVE  FinalizerInv'
<1>1. /\ UNCHANGED <<cache, children, job>>
      /\ routes[r] # Nil
  BY DEF EditRoute, DeleteRoute, ReleaseHold, workerVars
<1>2. routes \in [Routes -> RouteObjects \cup {Nil}] /\ routes[r] \in RouteObjects
  BY <1>1 DEF TypeInv, TypeOK
<1>3. spent'["create"] >= spent["create"]
  <2>1. Spend("edit") \/ Spend("delete") \/ UNCHANGED spent
    BY DEF EditRoute, DeleteRoute, ReleaseHold
  <2>2. QED
    BY <2>1, SpendCreate DEF TypeInv, BudgetKinds
<1>4. ASSUME NEW new, routes' = [routes EXCEPT ![r] = new],
             \/ new = Nil
             \/ /\ new.uid = routes[r].uid
                /\ new.finalizer = routes[r].finalizer
                /\ routes[r].deleting => new.deleting
      PROVE  Evolves
  BY <1>1, <1>2, <1>4 DEF Evolves
<1>5. Evolves
  <2>1. ASSUME NEW spec \in Specs, EditRoute(r, spec) PROVE Evolves
    <3> DEFINE new == [routes[r] EXCEPT !.spec = Mutated(spec), !.gen = routes[r].gen + 1]
    <3>1. routes' = [routes EXCEPT ![r] = new]
      BY <2>1 DEF EditRoute
    <3>2. /\ new.uid = routes[r].uid /\ new.finalizer = routes[r].finalizer
          /\ new.deleting = routes[r].deleting
      BY <1>2 DEF RouteObjects
    <3> HIDE DEF new
    <3>3. QED
      BY <1>4, <3>1, <3>2
  <2>2. ASSUME NEW foreground \in BOOLEAN, DeleteRoute(r, foreground) PROVE Evolves
    <3> DEFINE new == [routes[r] EXCEPT !.deleting = TRUE, !.hold = foreground,
                                        !.gen = routes[r].gen + 1]
    <3>1. routes' = [routes EXCEPT ![r] = new] \/ routes' = [routes EXCEPT ![r] = Nil]
      BY <2>2 DEF DeleteRoute
    <3>2. /\ new.uid = routes[r].uid /\ new.finalizer = routes[r].finalizer
          /\ new.deleting
      BY <1>2 DEF RouteObjects
    <3> HIDE DEF new
    <3>3. QED
      BY <1>4, <3>1, <3>2
  <2>3. CASE ReleaseHold(r)
    <3> DEFINE new == [routes[r] EXCEPT !.hold = FALSE]
    <3>1. routes' = [routes EXCEPT ![r] = new] \/ routes' = [routes EXCEPT ![r] = Nil]
      BY <2>3 DEF ReleaseHold
    <3>2. /\ new.uid = routes[r].uid /\ new.finalizer = routes[r].finalizer
          /\ new.deleting = routes[r].deleting
      BY <1>2 DEF RouteObjects
    <3> HIDE DEF new
    <3>3. QED
      BY <1>4, <3>1, <3>2
  <2>4. QED
    BY <2>1, <2>2, <2>3
<1>6. QED
  BY <1>1, <1>3, <1>5, FrameStep DEF ChildrenFromJob, JobKept

\* The rest of the cluster.
LEMMA ClusterFinalizer ==
    ASSUME TypeInv, TypeInv', FinalizerInv,
           \/ \E id \in ChildIds : GarbageCollect(id) \/ DeleteChild(id)
           \/ Cluster \/ Tick
    PROVE  FinalizerInv'
<1>1. routes' = routes /\ cache' = cache /\ job' = job
  BY DEF GarbageCollect, DeleteChild, Cluster, SetService, SetGateway, SetSecret, Tick, apiVars, workerVars
<1>2. spent'["create"] >= spent["create"]
  <2>1. Spend("meddle") \/ Spend("service") \/ Spend("gateway") \/ Spend("secret") \/ UNCHANGED spent
    BY DEF GarbageCollect, DeleteChild, Cluster, SetService, SetGateway, SetSecret, Tick
  <2>2. QED
    BY <2>1, SpendCreate DEF TypeInv, BudgetKinds
<1>3. \A id \in ChildIds : children'[id] # Nil => children'[id] = children[id]
  <2>1. ASSUME NEW id \in ChildIds, GarbageCollect(id) \/ DeleteChild(id)
        PROVE  \A x \in ChildIds : children'[x] # Nil => children'[x] = children[x]
    BY <2>1 DEF GarbageCollect, DeleteChild, SetChildren, TypeInv, TypeOK
  <2>2. CASE Cluster \/ Tick
    BY <2>2 DEF Cluster, SetService, SetGateway, SetSecret, Tick, apiVars
  <2>3. QED
    BY <2>1, <2>2
<1>4. QED
  BY <1>1, <1>2, <1>3, FrameStep DEF Evolves, ChildrenFromJob, JobKept

\* Every step keeps the invariant.
LEMMA StepFinalizer ==
    ASSUME TypeInv, TypeInv', FinalizerInv, [Next]_vars
    PROVE  FinalizerInv'
<1>1. ASSUME NEW r \in Routes, BeginAny(r) \/ RequeueDue(r) PROVE FinalizerInv'
  BY <1>1, BeginFinalizer, ProcessFinalizer
<1>2. CASE Worker
  BY <1>2, AddFinalizerFinalizer, EvaluationFinalizer, WriteFinalizer DEF Worker
<1>3. CASE Resync \/ CacheSync \/ ChildSync \/ Crash
  BY <1>3, ProcessFinalizer
<1>4. CASE Collector
  BY <1>4, UserFinalizer, ClusterFinalizer DEF Collector
<1>5. CASE User
  BY <1>5, CreateFinalizer, UserFinalizer, ClusterFinalizer DEF User
<1>6. CASE Cluster \/ Tick
  BY <1>6, ClusterFinalizer
<1>7. CASE UNCHANGED vars
  <2>1. UNCHANGED <<routes, cache, children, job, spent>>
    BY <1>7 DEF vars, apiVars, workerVars
  <2>2. spent'["create"] >= spent["create"]
    BY <2>1 DEF TypeInv, TypeOK, BudgetKinds
  <2>3. QED
    BY <2>1, <2>2, IdleStep DEF JobKept
<1>8. QED
  BY <1>1, <1>2, <1>3, <1>4, <1>5, <1>6, <1>7 DEF Next

\* A live Route has children only once its finalizer is stored, wherever the
\* process stops, however stale its caches are, whatever fails, and whether or
\* not the webhooks are installed: AddFinalizer comes before createOrUpdate, and
\* a Reconcile that trusts a finalizer it read from the cache is right to.
THEOREM FinalizerSafety == Spec => []FinalizerFirst
<1>1. Init => TypeInv /\ FinalizerInv
  <2> SUFFICES ASSUME Init PROVE TypeInv /\ FinalizerInv
    OBVIOUS
  <2>1. FinalizerInv
    BY DEF Init, FinalizerInv, UidsKnown, UidsUnique, FinalizerKept, FinalizerFirst
  <2>2. QED
    BY <2>1, InitTypes
<1>2. TypeInv /\ FinalizerInv /\ [Next]_vars => TypeInv' /\ FinalizerInv'
  BY StepTypes, StepFinalizer
<1>3. FinalizerInv => FinalizerFirst
  BY DEF FinalizerInv
<1>4. QED
  BY <1>1, <1>2, <1>3, PTL DEF Spec

=============================================================================

-------------------------- MODULE RouteQuietProofs --------------------------
(***************************************************************************)
(* What holds of the children of a Route whenever the controller has       *)
(* nothing left to do: an Active Route still has the children it asks for, *)
(* they do what its specification says, and its status claims no child     *)
(* that does not exist. And what a rollback leaves in the cluster.         *)
(*                                                                         *)
(* The first three are not inductive: they may be wrong while there is     *)
(* something to do.  The invariants say that they are right or that the    *)
(* Route is pending, and the lemmas that a Route is pending until a        *)
(* Reconcile has written the status that makes them right.                 *)
(***************************************************************************)
EXTENDS RouteStatusProofs, RouteChildrenProofs, FiniteSetTheorems

\* The children that a Reconcile of r may write or delete.
PlanNames(p) == UNION { Names(p[k]) : k \in DOMAIN p }
OwnNames(r) ==
    UNION { UNION { PlanNames(childPlan(r, s, c)) : c \in {s.canary, Nil} } : s \in AllSpecs }

\* No two Routes write children of one name.
NamesApart == \A r, q \in Routes : r # q => OwnNames(r) \cap OwnNames(q) = {}

\* Something will make the controller look at r.  Where no call fails, what it
\* has put off does not count.
Pending(r) ==
    \/ r \in queue
    \/ Budget["fault"] # 0 /\ r \in delayed
    \/ job # Nil /\ job.key = r
    \/ cache[r] # routes[r]

\* Reconcile works on the Route as it is, or the Route will be looked at again.
JobFresh ==
    job # Nil /\ Live(job.key) =>
        \/ routes[job.key] = job.base
        \/ job.key \in queue
        \/ cache[job.key] # routes[job.key]

\* A status is written only with the finalizer in place.
StatusGuarded ==
    /\ pc = "finalize" => ~job.base.finalizer
    /\ \A r \in Routes : Live(r) /\ ~routes[r].finalizer => routes[r].status = NoStatus

PendingInv == GensFollow /\ JobFresh /\ StatusGuarded

-----------------------------------------------------------------------------
(* Until when a Route is pending.                                          *)

\* The steps that write no Route and start no Reconcile.
Inner == Minor \/ CleanupKind \/ \E out \in Outcomes : PutChild(out)

\* A call fails only where calls may fail.
LEMMA FaultMeans ==
    ASSUME TypeInv
    PROVE  /\ Spend("fault") => Budget["fault"] # 0
           /\ \A accepted, out : CallFault(accepted, out) /\ out # "ok" => accepted /\ Budget["fault"] # 0
<1>1. Spend("fault") => Budget["fault"] # 0
  BY DEF Spend, TypeInv, TypeOK, BudgetKinds
<1>2. QED
  BY <1>1 DEF CallFault

\* The steps that write no Route keep every live Route pending.
LEMMA InnerSteps ==
    ASSUME TypeInv, TypeInv', Inner
    PROVE  /\ UNCHANGED <<routes, cache>>
           /\ job' # Nil => job # Nil /\ job'.key = job.key /\ job'.base = job.base
           /\ job # Nil => queue \subseteq queue'
           /\ \A r \in Routes : Live(r) /\ Pending(r) => Pending(r)'
<1>0. UNCHANGED <<routes, cache>>
  BY MinorSteps, PutShape DEF Inner, ChildrenGo, CleanupKind
<1>1. job' # Nil => job # Nil /\ job'.base = job.base
  BY ConditionsCarried DEF Inner
<1>2. job' # Nil => job'.key = job.key
  <2>1. CASE Minor \/ \E out \in Outcomes : PutChild(out)
    BY <2>1, MinorSteps, PutShape DEF ChildrenGo, JobStays
  <2>2. CASE CleanupKind
    BY <2>2 DEF CleanupKind, TypeInv, TypeOK, JobInv, Jobs
  <2>3. QED
    BY <2>1, <2>2 DEF Inner
<1> DEFINE Kept == \A r \in Routes : Live(r) /\ Pending(r) => Pending(r)'
<1>3. ASSUME NEW r \in Routes, BeginGone(r) \/ BeginReleased(r) PROVE job = Nil /\ Kept
  <2>1. /\ UNCHANGED <<delayed, job>> /\ queue' = queue \ {r}
        /\ cache[r] = Nil \/ cache[r].deleting
        /\ job = Nil
    BY <1>3 DEF BeginGone, BeginReleased, TypeInv, JobInv
  <2>2. Live(r) => cache[r] # routes[r]
    BY <2>1 DEF Live
  <2>3. QED
    BY <1>0, <2>1, <2>2 DEF Pending
<1>4. ASSUME NEW r \in Routes, BeginFails(r) PROVE job = Nil /\ Kept
  <2>1. /\ job = Nil /\ job' = job /\ queue' = queue \ {r} /\ delayed' = delayed \cup {r}
        /\ Budget["fault"] # 0
    BY <1>4, FaultMeans DEF BeginFails, TypeInv, JobInv
  <2>2. QED
    BY <1>0, <2>1 DEF Pending
<1>5. ASSUME NEW r \in Routes, RequeueDue(r) PROVE queue \subseteq queue' /\ Kept
  <2>1. job' = job /\ queue' = queue \cup {r} /\ delayed' = delayed \ {r}
    BY <1>5 DEF RequeueDue
  <2>2. QED
    BY <1>0, <2>1 DEF Pending
<1>6. ASSUME EvaluationFails PROVE queue \subseteq queue' /\ Kept
  <2>1. queue' = queue /\ delayed' = delayed \cup {job.key} /\ Budget["fault"] # 0
    BY <1>6, FaultMeans DEF EvaluationFails, ReturnRequeue
  <2>2. QED
    BY <1>0, <2>1 DEF Pending
<1>7. ASSUME queue \subseteq queue', delayed' = delayed, job # Nil => job' # Nil
      PROVE  queue \subseteq queue' /\ Kept
  BY <1>0, <1>2, <1>7 DEF Pending
<1>8. ASSUME \/ Resync \/ ChildSync
             \/ (\E id \in ChildIds : GarbageCollect(id) \/ DeleteChild(id))
             \/ Cluster \/ Tick
             \/ UNCHANGED vars
      PROVE  queue \subseteq queue' /\ Kept
  <2>1. UNCHANGED <<job, delayed>> /\ queue \subseteq queue'
    BY <1>8 DEF Resync, ChildSync, GarbageCollect, DeleteChild, Cluster, SetService, SetGateway,
                SetSecret, Tick, apiVars, workerVars, vars
  <2>2. QED
    BY <1>0, <1>1, <1>2, <1>7, <2>1
<1>9. ASSUME \/ CheckCertificate \/ CheckConflicts \/ CheckBackends \/ ChooseCanary \/ StartProbe
             \/ (\E bad \in BOOLEAN : FinishProbe(bad)) \/ SkipChild
             \/ (\E n \in 0 .. 2, succeeded \in BOOLEAN : DeleteChildren(n, succeeded))
             \/ CleanupKind \/ \E out \in Outcomes : PutChild(out)
      PROVE  queue \subseteq queue' /\ Kept
  <2>1. delayed' = delayed /\ queue \subseteq queue'
    BY <1>9 DEF CheckCertificate, CheckConflicts, CheckBackends, ChooseCanary, StartProbe, FinishProbe,
                SkipChild, DeleteChildren, CleanupKind, PutChild
  <2>2. pc' # "idle" /\ job' # Nil
    BY <1>9 DEF CheckCertificate, CheckConflicts, CheckBackends, ChooseCanary, StartProbe, FinishProbe,
                SkipChild, DeleteChildren, CleanupKind, PutChild, Advance, TypeInv, JobInv
  <2>3. QED
    BY <1>0, <1>1, <1>2, <1>7, <2>1, <2>2
<1> HIDE DEF Kept
<1>10. (job # Nil => queue \subseteq queue') /\ Kept
  BY <1>3, <1>4, <1>5, <1>6, <1>8, <1>9 DEF Inner, Minor
<1>11. QED
  BY <1>0, <1>1, <1>2, <1>10 DEF Kept

\* A Route that a user creates or edits is not the one in the cache.
LEMMA NewVersion ==
    ASSUME AllInv, GensFollow, NEW r \in Routes, NEW spec \in Specs,
           CreateRoute(r, spec) \/ EditRoute(r, spec)
    PROVE  /\ UNCHANGED <<cache, job, pc, children, queue, delayed>>
           /\ \A q \in Routes : q # r => routes'[q] = routes[q]
           /\ cache[r] # routes'[r]
           /\ routes'[r] # Nil
           /\ \/ routes[r] = Nil /\ routes'[r].status = NoStatus
              \/ /\ routes[r] # Nil /\ routes'[r].status = routes[r].status
                 /\ routes'[r].finalizer = routes[r].finalizer
                 /\ routes'[r].deleting = routes[r].deleting
<1> USE DEF AllInv
<1>1. CASE CreateRoute(r, spec)
  <2>1. PICK new \in RouteObjects :
          /\ routes' = [routes EXCEPT ![r] = new] /\ new.uid = spent["create"]
          /\ new.status = NoStatus
    BY <1>1, CreateShape
  <2>2. UNCHANGED <<cache, job, pc, children, queue, delayed>> /\ routes[r] = Nil
    BY <1>1 DEF CreateRoute, workerVars
  <2>3. /\ routes'[r] = new /\ new # Nil
        /\ \A q \in Routes : q # r => routes'[q] = routes[q]
    BY <2>1, NilAssumption DEF TypeInv, TypeOK
  <2>4. cache[r] # Nil => cache[r].uid # new.uid
    BY <2>1 DEF FinalizerInv, UidsKnown, TypeInv, TypeOK, RouteObjects, BudgetKinds
  <2>5. QED
    BY <2>1, <2>2, <2>3, <2>4
<1>2. CASE EditRoute(r, spec)
  <2>1. /\ UNCHANGED <<cache, job, pc, children, queue, delayed>>
        /\ routes[r] \in RouteObjects /\ routes[r] # Nil
    BY <1>2 DEF EditRoute, workerVars, TypeInv, TypeOK
  <2>2. routes' = [routes EXCEPT ![r] = [routes[r] EXCEPT !.spec = Mutated(spec), !.gen = routes[r].gen + 1]]
    BY <1>2, <2>1 DEF EditRoute, TypeInv, TypeOK, RouteObjects
  <2> DEFINE new == [routes[r] EXCEPT !.spec = Mutated(spec), !.gen = routes[r].gen + 1]
  <2>3. /\ new.gen = routes[r].gen + 1 /\ routes[r].gen \in Nat
        /\ new.uid = routes[r].uid /\ new.status = routes[r].status
        /\ new.finalizer = routes[r].finalizer /\ new.deleting = routes[r].deleting
    BY <2>1 DEF RouteObjects
  <2> HIDE DEF new
  <2>4. routes'[r] = new /\ \A q \in Routes : q # r => routes'[q] = routes[q]
    BY <2>2 DEF TypeInv, TypeOK, new
  <2>5. new # Nil
    <3>1. Mutated(spec) \in AllSpecs /\ routes[r].gen + 1 \in Nat
      BY <2>3, MutatedType DEF AllSpecs
    <3>2. new \in RouteObjects
      BY <2>1, <3>1 DEF RouteObjects, new
    <3>3. QED
      BY <3>2, NilAssumption
  <2>6. cache[r] # Nil => cache[r].gen \in Nat
    BY DEF TypeInv, TypeOK, RouteObjects
  <2>7. cache[r] # new
    BY <2>1, <2>3, <2>5, <2>6 DEF GensFollow
  <2>8. QED
    BY <2>1, <2>3, <2>4, <2>5, <2>7
<1>3. QED
  BY <1>1, <1>2

\* A Route that is deleted or released is not live any more.
LEMMA Withdrawn ==
    ASSUME AllInv, NEW r \in Routes,
           (\E foreground \in BOOLEAN : DeleteRoute(r, foreground)) \/ ReleaseHold(r)
    PROVE  /\ UNCHANGED <<cache, job, pc, children, queue, delayed>>
           /\ \A q \in Routes : q # r => routes'[q] = routes[q]
           /\ ~Live(r)'
<1> USE DEF AllInv
<1>1. UNCHANGED <<cache, job, pc, children, queue, delayed>>
  BY DEF DeleteRoute, ReleaseHold, workerVars
<1>2. PICK new \in RouteObjects \cup {Nil} : routes' = [routes EXCEPT ![r] = new]
  BY RewriteShape DEF Rewrites
<1>3. routes'[r] = new /\ \A q \in Routes : q # r => routes'[q] = routes[q]
  BY <1>2 DEF TypeInv, TypeOK
<1>4. routes[r] \in RouteObjects /\ routes[r] # Nil
  BY DEF DeleteRoute, ReleaseHold, TypeInv, TypeOK
<1>5. new # Nil => new.deleting
  <2>1. ASSUME NEW foreground \in BOOLEAN, DeleteRoute(r, foreground) PROVE new # Nil => new.deleting
    <3>1. new # Nil =>
            new = [routes[r] EXCEPT !.deleting = TRUE, !.hold = foreground, !.gen = routes[r].gen + 1]
      BY <1>3, <2>1 DEF DeleteRoute, TypeInv, TypeOK
    <3>2. QED
      BY <1>4, <3>1 DEF RouteObjects
  <2>2. ASSUME ReleaseHold(r) PROVE new # Nil => new.deleting
    <3>1. routes[r].deleting
      BY <1>4, <2>2 DEF ReleaseHold, GuardInv, HoldDeletes
    <3>2. new # Nil => new = [routes[r] EXCEPT !.hold = FALSE]
      BY <1>3, <1>4, <2>2 DEF ReleaseHold, TypeInv, TypeOK
    <3>3. QED
      BY <1>4, <3>1, <3>2 DEF RouteObjects
  <2>3. QED
    BY <2>1, <2>2
<1>6. QED
  BY <1>1, <1>3, <1>5 DEF Live

\* How the three last calls of a Reconcile leave its Route: it is pending, or the
\* call went through, or the webhook refuses the finalizer.
LEMMA StatusEnds ==
    ASSUME AllInv, JobFresh, NEW out \in Outcomes, WriteStatus(out), NEW r \in Routes, r = job.key, Live(r)'
    PROVE  \/ Pending(r)'
           \/ /\ routes[r] = job.base
              /\ routes'[r].status = NewStatus(job)
              /\ routes'[r].spec = job.base.spec
              /\ routes'[r].uid = job.base.uid
<1> USE DEF AllInv
<1>1. /\ job \in Jobs /\ job # Nil /\ job.base \in RouteObjects /\ cache' = cache /\ queue' = queue
  BY StatusShape, NilAssumption DEF WriteStatus
<1>2. CASE routes[r] # job.base
  <2>1. routes' = routes
    BY <1>2 DEF WriteStatus, NotModified, TypeInv, TypeOK
  <2>2. QED
    BY <1>1, <1>2, <2>1 DEF JobFresh, Live, Pending
<1>3. CASE routes[r] = job.base /\ out = "refused"
  <2>1. r \in delayed' /\ Budget["fault"] # 0
    BY <1>3, FaultMeans DEF WriteStatus, AfterStatus, ReturnRequeue
  <2>2. QED
    BY <2>1 DEF Pending
<1>4. CASE routes[r] = job.base /\ out # "refused"
  <2> DEFINE new == [job.base EXCEPT !.status = NewStatus(job)]
  <2>1. routes' = [routes EXCEPT ![r] = new]
    BY <1>4 DEF WriteStatus, NotModified, Applied
  <2>2. routes'[r] = new
    BY <2>1 DEF TypeInv, TypeOK
  <2>3. new.status = NewStatus(job) /\ new.spec = job.base.spec /\ new.uid = job.base.uid
    BY <1>1 DEF RouteObjects
  <2> HIDE DEF new
  <2>4. QED
    BY <1>4, <2>2, <2>3
<1>5. QED
  BY <1>2, <1>3, <1>4

\* A Reconcile that adds the finalizer leaves the Route pending, or as it was.
LEMMA AddEnds ==
    ASSUME AllInv, AllInv', JobFresh, StatusGuarded, NEW out \in Outcomes, AddFinalizer(out),
           NEW r \in Routes, r = job.key, Live(r)'
    PROVE  \/ Pending(r)'
           \/ routes'[r] = routes[r] /\ ~routes[r].finalizer
<1> USE DEF AllInv
<1> DEFINE accepted == NotModified(r) /\ Admitted(r, [job.base EXCEPT !.finalizer = TRUE, !.spec = Mutated(@)].spec)
<1>1. /\ job \in Jobs /\ job # Nil /\ cache' = cache /\ queue' = queue /\ pc = "finalize"
  BY AddShape, NilAssumption DEF AddFinalizer
<1>2. CASE out # "ok"
  <2>1. r \in delayed' /\ Budget["fault"] # 0
    BY <1>2, FaultMeans DEF AddFinalizer, ReturnRequeue
  <2>2. QED
    BY <2>1 DEF Pending
<1>3. CASE accepted /\ out = "ok"
  <2>1. pc' = "certificate" /\ \E new : job' = [job EXCEPT !.base = new]
    BY <1>3 DEF AddFinalizer
  <2>2. job' # Nil /\ job'.key = r
    BY <1>1, <2>1 DEF TypeInv, JobInv, Jobs
  <2>3. QED
    BY <2>2 DEF Pending
<1>4. CASE ~accepted
  <2>1. routes' = routes
    BY <1>4 DEF AddFinalizer, TypeInv, TypeOK
  <2>2. CASE routes[r] # job.base
    BY <1>1, <2>1, <2>2 DEF JobFresh, Live, Pending
  <2>3. CASE routes[r] = job.base
    BY <1>1, <2>1, <2>3 DEF StatusGuarded
  <2>4. QED
    BY <2>2, <2>3
<1>5. QED
  BY <1>2, <1>3, <1>4

\* A Reconcile that fails to let go of a Route leaves it pending.
LEMMA RemoveEnds ==
    ASSUME AllInv, JobFresh, NEW out \in Outcomes, RemoveFinalizer(out), NEW r \in Routes, r = job.key, Live(r)'
    PROVE  Pending(r)'
<1> USE DEF AllInv
<1>1. /\ job # Nil /\ job.base.deleting /\ cache' = cache /\ queue' = queue
  BY RemoveShape, NilAssumption DEF RemoveFinalizer, GuardInv, WorkerInv, Deleting
<1>2. CASE routes' = routes
  BY <1>1, <1>2 DEF JobFresh, Live, Pending
<1>3. CASE routes' # routes
  <2>1. PICK new \in RouteObjects \cup {Nil} :
          routes' = [routes EXCEPT ![r] = new] /\ (new # Nil => new.deleting = job.base.deleting)
    BY <1>3, RemoveShape
  <2>2. routes'[r] = new
    BY <2>1 DEF TypeInv, TypeOK
  <2>3. QED
    BY <1>1, <2>1, <2>2 DEF Live
<1>4. QED
  BY <1>2, <1>3

\* The steps that end a Reconcile touch no other Route, and no child.
LEMMA EndsOther ==
    ASSUME AllInv, NEW out \in Outcomes, WriteStatus(out) \/ AddFinalizer(out) \/ RemoveFinalizer(out)
    PROVE  /\ job # Nil /\ job.key \in Routes
           /\ UNCHANGED <<cache, queue, children>> /\ delayed \subseteq delayed'
           /\ \A q \in Routes : q # job.key => routes'[q] = routes[q]
<1> USE DEF AllInv
<1>1. job # Nil /\ job.key \in Routes /\ UNCHANGED <<cache, children>>
  BY StatusShape, AddShape, RemoveShape, NilAssumption
<1>2. queue' = queue /\ delayed \subseteq delayed'
  BY DEF WriteStatus, AddFinalizer, RemoveFinalizer, AfterStatus, Return, ReturnRequeue
<1>3. routes' = routes \/ \E new : routes' = [routes EXCEPT ![job.key] = new]
  BY StatusShape, AddShape, RemoveShape
<1>4. QED
  BY <1>1, <1>2, <1>3 DEF TypeInv, TypeOK

\* JobFresh is inductive.
LEMMA StepFresh ==
    ASSUME AllInv, AllInv', GensFollow, JobFresh, [Next]_vars
    PROVE  JobFresh'
<1> USE DEF AllInv
<1>1. CASE Inner
  BY <1>1, InnerSteps DEF JobFresh, Live
<1>2. ASSUME NEW r \in Routes, Begin(r) PROVE JobFresh'
  <2>1. job'.key = r /\ job'.base = cache[r] /\ UNCHANGED <<routes, cache>>
    BY <1>2 DEF Begin, NewJob, apiVars
  <2>2. QED
    BY <2>1 DEF JobFresh
<1>3. ASSUME NEW out \in Outcomes, WriteStatus(out) \/ RemoveFinalizer(out) PROVE JobFresh'
  BY <1>3, StatusShape, RemoveShape DEF JobFresh
<1>4. ASSUME NEW out \in Outcomes, AddFinalizer(out) PROVE JobFresh'
  <2>1. job \in Jobs /\ job.key \in Routes
    BY <1>4, AddShape
  <2>2. CASE job' = Nil
    BY <2>2 DEF JobFresh
  <2>3. CASE job' # Nil
    <3>1. PICK new \in RouteObjects :
            routes' = [routes EXCEPT ![job.key] = new] /\ job' = [job EXCEPT !.base = new]
      BY <1>4, <2>3, AddShape
    <3>2. job'.key = job.key /\ job'.base = new
      BY <2>1, <3>1 DEF Jobs
    <3>3. routes'[job.key] = new
      BY <2>1, <3>1 DEF TypeInv, TypeOK
    <3>4. QED
      BY <3>2, <3>3 DEF JobFresh
  <2>4. QED
    BY <2>2, <2>3
<1>5. CASE Crash
  BY <1>5 DEF Crash, JobFresh
<1>6. CASE CacheSync
  <2>1. /\ UNCHANGED <<routes, job>> /\ queue' = queue \cup {q \in Routes : cache[q] # routes[q]}
        /\ job # Nil => job.key \in Routes
    BY <1>6 DEF CacheSync, apiVars, TypeInv, TypeOK, Jobs
  <2>2. QED
    BY <2>1 DEF JobFresh, Live
<1>7. ASSUME NEW r \in Routes, NEW spec \in Specs, CreateRoute(r, spec) \/ EditRoute(r, spec) PROVE JobFresh'
  <2>1. /\ UNCHANGED <<cache, job, queue>> /\ cache[r] # routes'[r]
        /\ \A q \in Routes : q # r => routes'[q] = routes[q]
        /\ job # Nil => job.key \in Routes
    BY <1>7, NewVersion DEF TypeInv, TypeOK, Jobs
  <2>2. CASE job.key = r
    BY <2>1, <2>2 DEF JobFresh
  <2>3. CASE job.key # r
    BY <2>1, <2>3 DEF JobFresh, Live
  <2>4. QED
    BY <2>2, <2>3
<1>8. ASSUME NEW r \in Routes, (\E foreground \in BOOLEAN : DeleteRoute(r, foreground)) \/ ReleaseHold(r)
      PROVE  JobFresh'
  <2>1. /\ UNCHANGED <<cache, job, queue>> /\ ~Live(r)'
        /\ \A q \in Routes : q # r => routes'[q] = routes[q]
        /\ job # Nil => job.key \in Routes
    BY <1>8, Withdrawn DEF TypeInv, TypeOK, Jobs
  <2>2. CASE job.key = r
    BY <2>1, <2>2 DEF JobFresh, Live
  <2>3. CASE job.key # r
    BY <2>1, <2>3 DEF JobFresh, Live
  <2>4. QED
    BY <2>2, <2>3
<1>9. QED
  BY <1>1, <1>2, <1>3, <1>4, <1>5, <1>6, <1>7, <1>8, StepCases DEF Major, Rewrites, Inner

\* StatusGuarded is inductive.
LEMMA StepGuarded ==
    ASSUME AllInv, AllInv', GensFollow, StatusGuarded, [Next]_vars
    PROVE  StatusGuarded'
<1> USE DEF AllInv
<1>1. pc' = "finalize" => ~job'.base.finalizer
  <2>1. CASE UNCHANGED <<job, pc>>
    BY <2>1 DEF StatusGuarded
  <2>2. ASSUME NEW r \in Routes, Begin(r) PROVE pc' = "finalize" => ~job'.base.finalizer
    BY <2>2 DEF Begin, NewJob, FirstStep
  <2>3. CASE Minor
    BY <2>1, <2>3 DEF Minor, BeginGone, BeginFails, BeginReleased, RequeueDue, CheckCertificate, CheckConflicts,
         CheckBackends, EvaluationFails, ReturnRequeue, ChooseCanary, StartProbe, FinishProbe, DeleteChildren,
         SkipChild, Advance, Resync, ChildSync, GarbageCollect, DeleteChild, Cluster, SetService, SetGateway,
         SetSecret, Tick, workerVars, vars
  <2>4. CASE CleanupKind \/ Crash \/ CacheSync
    BY <2>1, <2>4 DEF CleanupKind, Crash, CacheSync
  <2>5. ASSUME NEW out \in Outcomes, RemoveFinalizer(out) \/ AddFinalizer(out) \/ PutChild(out) \/ WriteStatus(out)
        PROVE  pc' # "finalize"
    BY <2>5 DEF RemoveFinalizer, AddFinalizer, PutChild, WriteStatus, Advance, AfterStatus, Return, ReturnRequeue
  <2>6. CASE (\E r \in Routes, spec \in Specs : CreateRoute(r, spec)) \/ \E r \in Routes : Rewrites(r)
    BY <2>1, <2>6, CreateShape, RewriteShape
  <2>7. QED
    BY <2>2, <2>3, <2>4, <2>5, <2>6, StepCases DEF Major
<1> DEFINE Goal == \A r \in Routes : Live(r)' /\ ~routes'[r].finalizer => routes'[r].status = NoStatus
<1>2. ASSUME UNCHANGED routes PROVE Goal
  BY <1>2 DEF StatusGuarded, Live
<1>3. ASSUME NEW r \in Routes, \A q \in Routes : q # r => routes'[q] = routes[q],
             Live(r)' /\ ~routes'[r].finalizer => routes'[r].status = NoStatus
      PROVE  Goal
  BY <1>3 DEF StatusGuarded, Live
<1>4. ASSUME \/ Inner \/ (\E r \in Routes : Begin(r)) \/ CacheSync \/ Crash
      PROVE  Goal
  <2>1. UNCHANGED routes
    BY <1>4, InnerSteps DEF Begin, CacheSync, Crash, apiVars
  <2>2. QED
    BY <1>2, <2>1
<1>5. ASSUME NEW out \in Outcomes, WriteStatus(out) \/ AddFinalizer(out) \/ RemoveFinalizer(out) PROVE Goal
  <2>1. job # Nil /\ job.key \in Routes /\ \A q \in Routes : q # job.key => routes'[q] = routes[q]
    BY <1>5, EndsOther
  <2>2. CASE routes' # routes
    <3>1. PICK new :
            /\ routes' = [routes EXCEPT ![job.key] = new]
            /\ new = Nil \/ new.finalizer \/ new.deleting
      <4>1. pc \in Working => job.base.finalizer
        BY <2>1 DEF TypeInv, JobInv
      <4>2. pc = "unfinalize" => job.base.deleting
        BY <2>1 DEF TypeInv, JobInv
      <4>3. pc = "status" \/ AddFinalizer(out) \/ RemoveFinalizer(out)
        BY <1>5 DEF WriteStatus
      <4>4. QED
        BY <1>5, <2>2, <4>1, <4>2, <4>3, StatusShape, AddShape, RemoveShape DEF Working
    <3>2. routes'[job.key] = new
      BY <2>1, <3>1 DEF TypeInv, TypeOK
    <3>3. QED
      BY <1>3, <2>1, <3>1, <3>2 DEF Live
  <2>3. QED
    BY <1>2, <2>2
<1>6. ASSUME NEW r \in Routes, NEW spec \in Specs, CreateRoute(r, spec) \/ EditRoute(r, spec) PROVE Goal
  <2>1. Live(r)' /\ ~routes'[r].finalizer => routes'[r].status = NoStatus
    BY <1>6, NewVersion DEF StatusGuarded, Live
  <2>2. QED
    BY <1>3, <1>6, <2>1, NewVersion
<1>7. ASSUME NEW r \in Routes, (\E foreground \in BOOLEAN : DeleteRoute(r, foreground)) \/ ReleaseHold(r)
      PROVE  Goal
  BY <1>3, <1>7, Withdrawn
<1>8. Goal
  BY <1>4, <1>5, <1>6, <1>7, StepCases DEF Major, Rewrites, Inner
<1>9. QED
  BY <1>1, <1>8 DEF StatusGuarded

\* What ends the time in which r is pending: a Reconcile of r that writes its
\* status from the Route as it is and leaves, or the webhook refuses the finalizer.
Concludes(r) ==
    \/ routes'[r] = routes[r] /\ ~routes[r].finalizer
    \/ /\ pc = "status" /\ job # Nil /\ job.key = r
       /\ routes[r] = job.base
       /\ routes'[r].status = NewStatus(job)
       /\ routes'[r].spec = job.base.spec
       /\ routes'[r].uid = job.base.uid
       /\ children' = children

\* A Route is pending until a Reconcile concludes.
LEMMA PendingEnds ==
    ASSUME AllInv, AllInv', PendingInv, [Next]_vars, NEW r \in Routes, Live(r)', Pending(r), ~Pending(r)'
    PROVE  Concludes(r)
<1> USE DEF AllInv, PendingInv
<1>1. CASE Inner
  <2>1. Live(r)
    BY <1>1, InnerSteps DEF Live
  <2>2. QED
    BY <1>1, <2>1, InnerSteps
<1>2. ASSUME NEW q \in Routes, Begin(q) PROVE FALSE
  <2>1. /\ queue' = queue \ {q} /\ UNCHANGED <<routes, cache, delayed>> /\ job = Nil
        /\ job'.key = q /\ job' # Nil
    BY <1>2 DEF Begin, NewJob, FirstStep, apiVars, TypeInv, JobInv
  <2>2. QED
    BY <2>1 DEF Pending
<1>3. ASSUME NEW out \in Outcomes, WriteStatus(out) \/ AddFinalizer(out) \/ RemoveFinalizer(out)
      PROVE  Concludes(r)
  <2>1. /\ job # Nil /\ UNCHANGED <<cache, queue, children>> /\ delayed \subseteq delayed'
        /\ r # job.key => routes'[r] = routes[r]
    BY <1>3, EndsOther
  <2>2. r = job.key
    BY <2>1 DEF Pending
  <2>3. CASE WriteStatus(out)
    <3>1. pc = "status"
      BY <2>3 DEF WriteStatus
    <3>2. QED
      BY <2>1, <2>2, <2>3, <3>1, StatusEnds DEF Concludes
  <2>4. CASE AddFinalizer(out)
    BY <2>2, <2>4, AddEnds DEF Concludes
  <2>5. CASE RemoveFinalizer(out)
    BY <2>2, <2>5, RemoveEnds
  <2>6. QED
    BY <1>3, <2>3, <2>4, <2>5
<1>4. CASE CacheSync
  <2>1. /\ UNCHANGED <<routes, job, delayed>> /\ queue' = queue \cup {q \in Routes : cache[q] # routes[q]}
    BY <1>4 DEF CacheSync, apiVars
  <2>2. QED
    BY <2>1 DEF Pending
<1>5. CASE Crash
  <2>1. routes' = routes /\ queue' = {q \in Routes : routes[q] # Nil}
    BY <1>5 DEF Crash, apiVars
  <2>2. QED
    BY <2>1 DEF Pending, Live
<1>6. ASSUME NEW q \in Routes, NEW spec \in Specs, CreateRoute(q, spec) \/ EditRoute(q, spec) PROVE FALSE
  <2>1. /\ UNCHANGED <<cache, job, queue, delayed>> /\ cache[q] # routes'[q]
        /\ q # r => routes'[r] = routes[r]
    BY <1>6, NewVersion
  <2>2. QED
    BY <2>1 DEF Pending
<1>7. ASSUME NEW q \in Routes, (\E foreground \in BOOLEAN : DeleteRoute(q, foreground)) \/ ReleaseHold(q)
      PROVE  FALSE
  <2>1. /\ UNCHANGED <<cache, job, queue, delayed>> /\ ~Live(q)'
        /\ q # r => routes'[r] = routes[r]
    BY <1>7, Withdrawn
  <2>2. QED
    BY <2>1 DEF Pending
<1>8. QED
  BY <1>1, <1>2, <1>3, <1>4, <1>5, <1>6, <1>7, StepCases DEF Major, Rewrites, Inner

\* The children that an operation of a job is about are those of its Route.
LEMMA PlanOwn ==
    ASSUME TypeInv, job # Nil, NEW k \in DOMAIN Plan
    PROVE  Names(Plan[k]) \subseteq OwnNames(job.key)
<1>1. job.key \in Routes /\ job.base.spec \in AllSpecs /\ job.canary \in {job.base.spec.canary, Nil}
  BY DEF TypeInv, TypeOK, JobInv, Jobs, RouteObjects
<1>2. Names(Plan[k]) \subseteq PlanNames(Plan)
  BY DEF PlanNames
<1>3. PlanNames(Plan) \subseteq OwnNames(job.key)
  BY <1>1 DEF OwnNames, Plan
<1>4. QED
  BY <1>2, <1>3

\* Without anybody who deletes children, they change at the hands of an operation
\* of Reconcile, of the cleanup, or of the garbage collector.
LEMMA ChildrenChange ==
    ASSUME TypeInv, Budget["meddle"] = 0, [Next]_vars
    PROVE  \/ children' = children
           \/ CleanupKind
           \/ \E id \in ChildIds : GarbageCollect(id)
           \/ /\ pc = "children" /\ job.step \in DOMAIN Plan
              /\ \A id \in ChildIds \ Names(Operation) : children'[id] = children[id]
<1> DEFINE Goal ==
           \/ children' = children
           \/ CleanupKind
           \/ \E id \in ChildIds : GarbageCollect(id)
           \/ /\ pc = "children" /\ job.step \in DOMAIN Plan
              /\ \A id \in ChildIds \ Names(Operation) : children'[id] = children[id]
<1>0. children \in [ChildIds -> Objects \cup {Nil}] /\ (pc = "children" => job # Nil)
  BY DEF TypeInv, TypeOK, JobInv
<1>1. ~Spend("meddle")
  BY DEF Spend, TypeInv, TypeOK, BudgetKinds
<1>2. ASSUME NEW out \in Outcomes, PutChild(out) PROVE Goal
  <2>1. /\ pc = "children" /\ job.step \in DOMAIN Plan /\ Operation.op = "put"
        /\ children' = children \/ \E new : children' = [children EXCEPT ![Operation.ids[1]] = new]
    BY <1>2 DEF PutChild, SetChildren
  <2>2. Operation.ids[1] \in Names(Operation)
    BY <2>1, OperationPlaced DEF Names
  <2>3. QED
    BY <1>0, <2>1, <2>2
<1>3. ASSUME NEW n \in 0 .. 2, NEW succeeded \in BOOLEAN, DeleteChildren(n, succeeded) PROVE Goal
  <2>1. PICK o : o = Operation
    OBVIOUS
  <2>2. /\ pc = "children" /\ job.step \in DOMAIN Plan /\ n \in 0 .. Len(o.ids)
        /\ children' = [id \in ChildIds |-> IF \E i \in 1 .. n : o.ids[i] = id THEN Nil ELSE children[id]]
    BY <1>3, <2>1 DEF DeleteChildren, SetChildren
  <2>3. DOMAIN o.ids = 1 .. Len(o.ids)
    BY <1>0, <2>1, <2>2, PlanFacts DEF Operation, Writes
  <2>4. \A id \in ChildIds \ Names(o) : children'[id] = children[id]
    BY <2>2, <2>3 DEF Names
  <2>5. QED
    BY <2>1, <2>2, <2>4
<1>4. ASSUME Minor PROVE Goal
  BY <1>1, <1>3, <1>4 DEF Minor, BeginGone, BeginFails, BeginReleased, RequeueDue, CheckCertificate,
     CheckConflicts, CheckBackends, EvaluationFails, ChooseCanary, StartProbe, FinishProbe,
     SkipChild, Resync, ChildSync, DeleteChild, Cluster, SetService, SetGateway,
     SetSecret, Tick, apiVars, vars
<1>5. ASSUME Major PROVE Goal
  BY <1>2, <1>5, RemoveShape, AddShape, StatusShape, CreateShape, RewriteShape
     DEF Major, Begin, CacheSync, Crash, apiVars
<1>6. QED
  BY <1>4, <1>5, StepCases

\* Nobody takes a child from a live Route that is not pending, or writes one of its
\* children: other Routes have other names, the cleanup and the garbage collector
\* leave a live Route alone.
LEMMA CalmKept ==
    ASSUME Budget["meddle"] = 0, NamesDistinct, NamesApart, AllInv, AllInv', PendingInv,
           RoutesKnown, ChildrenNamed, [Next]_vars,
           NEW r \in Routes, Live(r)', ~Pending(r), ~Pending(r)'
    PROVE  /\ routes'[r] = routes[r]
           /\ \A id \in ChildIds : id \in OwnNames(r) =>
                \/ children'[id] = children[id]
                \/ children'[id] = Nil /\ children[id] # Nil /\ children[id].uid # routes[r].uid
<1> USE DEF AllInv, PendingInv
<1>1. routes' = routes \/ cache' = cache
  <2>1. CASE Inner \/ (\E q \in Routes : Begin(q)) \/ CacheSync \/ Crash
    BY <2>1, InnerSteps DEF Begin, CacheSync, Crash, apiVars
  <2>2. ASSUME NEW out \in Outcomes, WriteStatus(out) \/ AddFinalizer(out) \/ RemoveFinalizer(out)
        PROVE  cache' = cache
    BY <2>2, EndsOther
  <2>3. CASE (\E q \in Routes, spec \in Specs : CreateRoute(q, spec)) \/ \E q \in Routes : Rewrites(q)
    BY <2>3, CreateShape, RewriteShape
  <2>4. QED
    BY <2>1, <2>2, <2>3, StepCases DEF Major, Inner
<1>2. routes'[r] = routes[r]
  BY <1>1 DEF Pending
<1>3. Live(r) /\ routes[r] # Nil /\ ~routes[r].hold
  BY <1>2 DEF Live, GuardInv, HoldDeletes
<1>4. job # Nil => job.key # r
  BY DEF Pending
<1> SUFFICES ASSUME NEW id \in ChildIds, id \in OwnNames(r), children'[id] # children[id]
             PROVE  children'[id] = Nil /\ children[id] # Nil /\ children[id].uid # routes[r].uid
  BY <1>2
<1>5. CASE CleanupKind
  <2>1. pc = "cleanup" /\ children'[id] = Nil /\ children[id] # Nil
    BY <1>5 DEF CleanupKind, SetChildren
  <2>2. QED
    BY <1>3, <2>1, StepSpares
<1>6. ASSUME NEW x \in ChildIds, GarbageCollect(x)
      PROVE  children'[id] = Nil /\ children[id] # Nil /\ children[id].uid # routes[r].uid
  <2>1. children' = [children EXCEPT ![x] = Nil] /\ children[x] # Nil /\ children[x].uid # routes[r].uid
    BY <1>3, <1>6 DEF GarbageCollect, SetChildren
  <2>2. id = x /\ children'[x] = Nil
    BY <2>1 DEF TypeInv, TypeOK
  <2>3. QED
    BY <2>1, <2>2
<1>7. CASE /\ pc = "children" /\ job.step \in DOMAIN Plan
           /\ \A i \in ChildIds \ Names(Operation) : children'[i] = children[i]
  <2>1. job # Nil /\ job.key \in Routes
    BY <1>7 DEF TypeInv, TypeOK, JobInv, Jobs
  <2>2. id \in OwnNames(job.key)
    BY <1>7, <2>1, PlanOwn DEF Operation
  <2>3. QED
    BY <1>4, <2>1, <2>2 DEF NamesApart
<1>8. QED
  BY <1>5, <1>6, <1>7, ChildrenChange

-----------------------------------------------------------------------------
(* Active stays true.                                                      *)

\* Without a policy there is no choice: the canary is that of the specification.
CanaryChosen ==
    job # Nil /\ pc \in {"children", "status"} /\ job.verdict = "healthy" /\ ~HasPolicy(job.base.spec)
        => job.canary = job.base.spec.canary

\* An Active Route has the children it asks for, or is pending.
ActiveDue ==
    \A r \in Routes :
        Live(r) /\ routes[r].status.phase = "Active" /\ ~HasPolicy(routes[r].spec)
            => InSync(r, routes[r].spec.canary) \/ Pending(r)

\* The steps in which Reconcile comes to its children.
LEMMA StepChosen ==
    ASSUME AllInv, AllInv', CanaryChosen, [Next]_vars
    PROVE  CanaryChosen'
<1> USE DEF AllInv
<1>0. job # Nil => job \in Jobs
  BY DEF TypeInv, TypeOK
<1>1. CASE job' = Nil \/ pc' \notin {"children", "status"}
  BY <1>1 DEF CanaryChosen
<1>2. CASE UNCHANGED <<job, pc>>
  BY <1>2 DEF CanaryChosen
<1>3. CASE CheckConflicts \/ CheckBackends
  <2>1. job # Nil
    BY <1>3 DEF CheckConflicts, CheckBackends, TypeInv, JobInv
  <2>2. pc' = "status" => job'.verdict # "healthy"
    BY <1>0, <1>3, <2>1 DEF CheckConflicts, CheckBackends, Jobs
  <2>3. pc' # "children"
    BY <1>3 DEF CheckConflicts, CheckBackends
  <2>4. QED
    BY <2>2, <2>3 DEF CanaryChosen
<1>4. CASE ChooseCanary
  <2>1. job # Nil
    BY <1>4 DEF ChooseCanary, TypeInv, JobInv
  <2>2. job'.base = job.base /\ (~HasPolicy(job.base.spec) => job'.canary = job.base.spec.canary)
    BY <1>0, <1>4, <2>1 DEF ChooseCanary, Jobs
  <2>3. QED
    BY <2>2 DEF CanaryChosen
<1>5. CASE \E bad \in BOOLEAN : FinishProbe(bad)
  <2>1. job # Nil /\ HasPolicy(job.base.spec)
    BY <1>5 DEF FinishProbe, TypeInv, JobInv
  <2>2. job'.base = job.base
    BY <1>0, <1>5, <2>1 DEF FinishProbe, Jobs
  <2>3. QED
    BY <2>1, <2>2 DEF CanaryChosen
<1>6. CASE \/ SkipChild
           \/ (\E n \in 0 .. 2, succeeded \in BOOLEAN : DeleteChildren(n, succeeded))
           \/ \E out \in Outcomes : PutChild(out)
  <2>1. pc = "children" /\ \E succeeded \in BOOLEAN : Advance(succeeded)
    BY <1>6 DEF SkipChild, DeleteChildren, PutChild
  <2>2. job # Nil /\ job'.base = job.base /\ job'.canary = job.canary /\ job'.verdict = job.verdict
    BY <2>1, AdvanceShape
  <2>3. QED
    BY <2>1, <2>2 DEF CanaryChosen
<1>7. CASE Minor
  <2>1. CASE \/ (\E r \in Routes : BeginGone(r) \/ BeginFails(r) \/ BeginReleased(r) \/ RequeueDue(r))
             \/ Resync \/ ChildSync
             \/ (\E id \in ChildIds : GarbageCollect(id) \/ DeleteChild(id))
             \/ Cluster \/ Tick \/ UNCHANGED vars
    <3>1. UNCHANGED <<job, pc>>
      BY <2>1 DEF BeginGone, BeginFails, BeginReleased, RequeueDue, Resync, ChildSync, GarbageCollect,
         DeleteChild, Cluster, SetService, SetGateway, SetSecret, Tick, workerVars, vars
    <3>2. QED
      BY <1>2, <3>1
  <2>2. CASE CheckCertificate \/ EvaluationFails \/ StartProbe
    <3>1. pc' \notin {"children", "status"}
      BY <2>2 DEF CheckCertificate, EvaluationFails, ReturnRequeue, StartProbe
    <3>2. QED
      BY <1>1, <3>1
  <2>3. QED
    BY <1>3, <1>4, <1>5, <1>6, <1>7, <2>1, <2>2 DEF Minor
<1>8. CASE (\E r \in Routes : Begin(r)) \/ CleanupKind \/ Crash
           \/ \E out \in Outcomes : RemoveFinalizer(out) \/ AddFinalizer(out) \/ WriteStatus(out)
  <2>1. job' = Nil \/ pc' \notin {"children", "status"}
    BY <1>8, RemoveShape, AddShape, StatusShape DEF Begin, FirstStep, CleanupKind, Crash
  <2>2. QED
    BY <1>1, <2>1
<1>9. CASE CacheSync \/ (\E r \in Routes, spec \in Specs : CreateRoute(r, spec)) \/ \E r \in Routes : Rewrites(r)
  BY <1>2, <1>9, CreateShape, RewriteShape DEF CacheSync
<1>10. QED
  BY <1>6, <1>7, <1>8, <1>9, StepCases DEF Major

\* What an operation has done stays done while nobody takes a child of its Route.
LEMMA DoneKept ==
    ASSUME NEW o, NEW uid, Writes(o), Done(o, uid),
           \A id \in Names(o) :
             \/ children'[id] = children[id]
             \/ children'[id] = Nil /\ children[id] # Nil /\ children[id].uid # uid
    PROVE  Done(o, uid)'
<1>1. CASE o.op = "put"
  <2>1. o.ids[1] \in Names(o) /\ Names(o) \subseteq {o.ids[1]}
    BY <1>1 DEF Writes, Names
  <2>2. children[o.ids[1]].uid = uid
    BY <1>1 DEF Done
  <2>3. QED
    BY <2>1, <2>2, DoneStays
<1>2. CASE o.op = "delete"
  <2>1. \A id \in Names(o) : children[id] = Nil
    BY <1>2 DEF Done, Names
  <2>2. QED
    BY <2>1, DoneStays
<1>3. QED
  BY <1>1, <1>2 DEF Done

\* The plan of a Route, as it is in the API server.
LEMMA RoutePlan ==
    ASSUME NEW r \in Routes, NEW s \in AllSpecs, NEW c \in {s.canary, Nil}, NEW p, p = childPlan(r, s, c)
    PROVE  \A k \in DOMAIN p : /\ Writes(p[k])
                               /\ Names(p[k]) \subseteq ChildIds
                               /\ Names(p[k]) \subseteq OwnNames(r)
<1>1. AllWrite(p) /\ DOMAIN p = 1 .. Len(p)
  BY PlanSpread
<1>2. \A k \in DOMAIN p : p[k] \in Operations
  BY OperationType
<1>3. \A k \in DOMAIN p : Names(p[k]) \subseteq ChildIds
  BY <1>2 DEF ChildIds, Names
<1>4. PlanNames(p) \subseteq OwnNames(r)
  BY DEF OwnNames
<1>5. \A k \in DOMAIN p : Names(p[k]) \subseteq PlanNames(p)
  BY DEF PlanNames
<1>6. QED
  BY <1>1, <1>3, <1>4, <1>5 DEF AllWrite

\* The status that says Active is written when all the children are there.
LEMMA ActiveWritten ==
    ASSUME AllInv, AllInv', WorkDone, CanaryChosen, NEW r \in Routes, Live(r)',
           pc = "status", job # Nil, job.key = r, routes[r] = job.base,
           routes'[r].status = NewStatus(job), routes'[r].spec = job.base.spec,
           routes'[r].uid = job.base.uid, children' = children,
           routes'[r].status.phase = "Active", ~HasPolicy(routes'[r].spec)
    PROVE  InSync(r, routes[r].spec.canary)'
<1> USE DEF AllInv
<1>1. /\ job \in Jobs /\ ~job.base.deleting
      /\ job.base.spec \in AllSpecs
  BY DEF TypeInv, TypeOK, JobInv, GuardInv, WorkerInv, Deleting, Jobs, RouteObjects
<1>2. job.verdict = "healthy" /\ ~job.failed
  <2>1. Phase(job) = "Active"
    BY DEF NewStatus
  <2>2. QED
    BY <1>1, <2>1 DEF Phase, Jobs, Verdicts
<1>3. PICK p, uid, s : s = job.base.spec /\ p = childPlan(r, s, s.canary) /\ uid = job.base.uid
  OBVIOUS
<1>4. Plan = p
  BY <1>2, <1>3 DEF CanaryChosen, Plan
<1>5. \A k \in DOMAIN p : Done(p[k], uid)
  BY <1>1, <1>2, <1>3, <1>4 DEF WorkDone
<1>6. \A k \in DOMAIN p : Writes(p[k])
  BY <1>1, <1>3, RoutePlan
<1>7. \A k \in DOMAIN p : Done(p[k], uid)'
  BY <1>5, <1>6, DoneStays
<1>8. routes'[r].spec = s /\ routes'[r].uid = uid
  BY <1>3
<1>9. QED
  BY <1>3, <1>7, <1>8 DEF InSync

\* A Route that was never reconciled claims nothing.
LEMMA NothingClaimed == NoStatus.phase = "" /\ NoStatus.managed = 0
<1>1. PICK c : NoStatus = [phase |-> "", managed |-> 0, conditions |-> c]
  BY DEF NoStatus
<1>2. QED
  BY <1>1

\* ActiveDue is inductive.
LEMMA StepActiveDue ==
    ASSUME Budget["meddle"] = 0, NamesDistinct, NamesApart, AllInv, AllInv', PendingInv,
           RoutesKnown, ChildrenNamed, WorkDone, CanaryChosen, ActiveDue, [Next]_vars
    PROVE  ActiveDue'
<1> USE DEF AllInv
<1> SUFFICES ASSUME NEW r \in Routes, Live(r)', routes'[r].status.phase = "Active",
                    ~HasPolicy(routes'[r].spec), ~Pending(r)'
             PROVE  InSync(r, routes[r].spec.canary)'
  BY DEF ActiveDue
<1>1. CASE Pending(r)
  <2>1. Concludes(r)
    BY <1>1, PendingEnds
  <2>2. CASE routes'[r] = routes[r] /\ ~routes[r].finalizer
    <3>1. Live(r)
      BY <2>2 DEF Live
    <3>2. routes[r].status = NoStatus
      BY <2>2, <3>1 DEF PendingInv, StatusGuarded
    <3>3. routes[r].status.phase = ""
      BY <3>2, NothingClaimed
    <3>4. QED
      BY <2>2, <3>3
  <2>3. QED
    BY <2>1, <2>2, ActiveWritten DEF Concludes
<1>2. CASE ~Pending(r)
  <2>1. /\ routes'[r] = routes[r]
        /\ \A id \in ChildIds : id \in OwnNames(r) =>
             \/ children'[id] = children[id]
             \/ children'[id] = Nil /\ children[id] # Nil /\ children[id].uid # routes[r].uid
    BY <1>2, CalmKept
  <2>2. Live(r) /\ routes[r] # Nil
    BY <2>1 DEF Live
  <2>3. PICK p, uid, s : s = routes[r].spec /\ p = childPlan(r, s, s.canary) /\ uid = routes[r].uid
    OBVIOUS
  <2>4. \A k \in DOMAIN p : Done(p[k], uid)
    BY <1>2, <2>1, <2>2, <2>3 DEF ActiveDue, InSync
  <2>5. s \in AllSpecs
    BY <2>2, <2>3 DEF TypeInv, TypeOK, RouteObjects
  <2>6. \A k \in DOMAIN p : /\ Writes(p[k])
                            /\ Names(p[k]) \subseteq ChildIds
                            /\ Names(p[k]) \subseteq OwnNames(r)
    BY <2>3, <2>5, RoutePlan
  <2>7. ASSUME NEW k \in DOMAIN p PROVE Done(p[k], uid)'
    <3>1. \A id \in Names(p[k]) :
             \/ children'[id] = children[id]
             \/ children'[id] = Nil /\ children[id] # Nil /\ children[id].uid # uid
      BY <2>1, <2>3, <2>6
    <3>2. QED
      BY <2>4, <2>6, <3>1, DoneKept
  <2>8. routes'[r].spec = s /\ routes'[r].uid = uid
    BY <2>1, <2>3
  <2>9. QED
    BY <2>3, <2>7, <2>8 DEF InSync
<1>3. QED
  BY <1>1, <1>2

\* Whenever the controller has nothing left to do, an Active Route without a canary
\* policy has the children its specification asks for: no event that would
\* make it look again is ever lost, and no other Route, no cleanup and no garbage
\* collection takes them.  It takes that nobody deletes children by hand, that no
\* two children get one name, and that a failed call is not still being put off.
THEOREM ActiveStays ==
    Budget["meddle"] = 0 /\ IndicesDiffer /\ NamesDistinct /\ NamesApart
        => (Spec => [](Budget["fault"] = 0 \/ delayed = {} => ActiveStaysTrue))
<1> SUFFICES ASSUME Budget["meddle"] = 0, IndicesDiffer, NamesDistinct, NamesApart
             PROVE  Spec => [](Budget["fault"] = 0 \/ delayed = {} => ActiveStaysTrue)
  OBVIOUS
<1> DEFINE Inv == PendingInv /\ RoutesKnown /\ ChildrenNamed /\ WorkDone /\ CanaryChosen /\ ActiveDue
<1>1. Init => Inv
  <2>1. Init => GensFollow /\ RoutesKnown
    BY DEF Init, GensFollow, RoutesKnown
  <2>2. Init => ChildrenNamed
    BY DEF Init, ChildrenNamed
  <2>3. Init => JobFresh /\ StatusGuarded /\ WorkDone /\ CanaryChosen /\ ActiveDue
    BY DEF Init, JobFresh, StatusGuarded, WorkDone, CanaryChosen, ActiveDue, Live
  <2>4. QED
    BY <2>1, <2>2, <2>3 DEF PendingInv
<1>2. AllInv /\ AllInv' /\ Inv /\ [Next]_vars => Inv'
  <2> SUFFICES ASSUME AllInv, AllInv', Inv, [Next]_vars PROVE Inv'
    OBVIOUS
  <2>1. PendingInv'
    BY StepGens, StepFresh, StepGuarded DEF PendingInv, AllInv
  <2>2. RoutesKnown' /\ ChildrenNamed'
    BY StepKnown, StepNamed DEF AllInv
  <2>3. WorkDone' /\ CanaryChosen'
    BY StepWork, StepChosen
  <2>4. ActiveDue'
    BY StepActiveDue
  <2>5. QED
    BY <2>1, <2>2, <2>3, <2>4
<1>3. AllInv /\ Inv => (Budget["fault"] = 0 \/ delayed = {} => ActiveStaysTrue)
  BY DEF AllInv, TypeInv, JobInv, ActiveDue, ActiveStaysTrue, Quiet, Pending
<1>4. QED
  <2> HIDE DEF Inv
  <2>1. QED
    BY <1>1, <1>2, <1>3, Invariance, PTL DEF Spec

-----------------------------------------------------------------------------
(* The managed children are there.                                         *)

\* The children that exist, and those of them that belong to a Route.
Existing == {id \in ChildIds : children[id] # Nil}
Mine(uid) == {id \in ChildIds : children[id] # Nil /\ children[id].uid = uid}

\* There are finitely many children, and each bears a name of the Route it belongs to.
ChildrenOwned ==
    /\ IsFiniteSet(Existing)
    /\ \A id \in ChildIds, r \in Routes :
         children[id] # Nil /\ routes[r] # Nil /\ routes[r].uid = children[id].uid
             => id \in OwnNames(r)

\* The children that the operations before the next one have written.
Written(p, uid, step) ==
    {id \in Mine(uid) : \E k \in DOMAIN p : k < step /\ id \in Names(p[k])}

\* Every operation that was counted has left a child of its own.
CountBacked ==
    job # Nil =>
        /\ pc \in Before => job.managed = 0
        /\ /\ pc \in {"children", "status"} /\ job.verdict = "healthy"
           /\ ~routes[job.key].deleting
           => job.managed <= Cardinality(Written(Plan, job.base.uid, job.step))

\* A status claims the children that there are, or the Route is pending.
ManagedDue ==
    \A r \in Routes :
        Live(r) => routes[r].status.managed <= Cardinality(Mine(routes[r].uid)) \/ Pending(r)

\* Children appear only one by one, at the hands of Reconcile.
LEMMA ChildWritten ==
    ASSUME TypeInv, TypeInv', [Next]_vars
    PROVE  \/ \A id \in ChildIds : children'[id] # Nil => children'[id] = children[id]
           \/ /\ job # Nil /\ pc = "children" /\ job.step \in DOMAIN Plan
              /\ \E x \in Names(Operation) : \A id \in ChildIds \ {x} : children'[id] = children[id]
<1> DEFINE Goal ==
           \/ \A id \in ChildIds : children'[id] # Nil => children'[id] = children[id]
           \/ /\ job # Nil /\ pc = "children" /\ job.step \in DOMAIN Plan
              /\ \E x \in Names(Operation) : \A id \in ChildIds \ {x} : children'[id] = children[id]
<1>1. ASSUME Minor PROVE Goal
  BY <1>1, MinorSteps DEF ChildrenGo
<1>2. ASSUME NEW out \in Outcomes, PutChild(out) PROVE Goal
  <2>1. /\ pc = "children" /\ job.step \in DOMAIN Plan /\ Operation.op = "put"
        /\ children' = children \/ \E new : children' = [children EXCEPT ![Operation.ids[1]] = new]
    BY <1>2 DEF PutChild, SetChildren
  <2>2. Operation.ids[1] \in Names(Operation)
    BY <2>1, OperationPlaced DEF Names
  <2>3. job # Nil /\ children \in [ChildIds -> Objects \cup {Nil}]
    BY <2>1 DEF TypeInv, TypeOK, JobInv
  <2>4. QED
    BY <2>1, <2>2, <2>3
<1>3. ASSUME CleanupKind PROVE Goal
  BY <1>3 DEF CleanupKind, SetChildren
<1>4. ASSUME Major PROVE Goal
  BY <1>2, <1>3, <1>4, RemoveShape, AddShape, StatusShape, CreateShape, RewriteShape
     DEF Major, Begin, CacheSync, Crash, apiVars
<1>5. QED
  BY <1>1, <1>4, StepCases

\* ChildrenOwned is inductive.
LEMMA StepOwned ==
    ASSUME AllInv, AllInv', ChildrenOwned, [Next]_vars
    PROVE  ChildrenOwned'
<1> USE DEF AllInv
<1>1. IsFiniteSet(Existing)'
  <2>1. CASE \A id \in ChildIds : children'[id] # Nil => children'[id] = children[id]
    <3>1. Existing' \subseteq Existing
      BY <2>1 DEF Existing
    <3>2. QED
      BY <3>1, FS_Subset DEF ChildrenOwned
  <2>2. ASSUME NEW x, \A id \in ChildIds \ {x} : children'[id] = children[id] PROVE IsFiniteSet(Existing)'
    <3>1. Existing' \subseteq Existing \cup {x}
      BY <2>2 DEF Existing
    <3>2. IsFiniteSet(Existing \cup {x})
      BY FS_AddElement DEF ChildrenOwned
    <3>3. QED
      BY <3>1, <3>2, FS_Subset
  <2>3. QED
    BY <2>1, <2>2, ChildWritten
<1>2. ASSUME NEW id \in ChildIds, NEW r \in Routes,
             children'[id] # Nil, routes'[r] # Nil, routes'[r].uid = children'[id].uid
      PROVE  id \in OwnNames(r)
  <2>1. /\ \/ routes[r] # Nil /\ routes'[r].uid = routes[r].uid
           \/ routes'[r].uid = spent["create"]
        /\ \/ children'[id] = children[id]
           \/ job # Nil /\ pc = "children" /\ children'[id].uid = job.base.uid
    BY <1>2, StepShape
  <2>2. /\ children[id] # Nil => children[id].uid # spent["create"]
        /\ job # Nil => job.base.uid # spent["create"] /\ job.key \in Routes
    BY DEF FinalizerInv, UidsKnown, TypeInv, TypeOK, Objects, Jobs, RouteObjects, BudgetKinds
  <2>3. routes[r] # Nil /\ routes[r].uid = children'[id].uid
    BY <1>2, <2>1, <2>2
  <2>4. CASE children'[id] = children[id]
    BY <1>2, <2>3, <2>4 DEF ChildrenOwned
  <2>5. CASE children'[id] # children[id]
    <3>1. /\ job # Nil /\ job.step \in DOMAIN Plan /\ id \in Names(Operation)
      BY <1>2, <2>5, ChildWritten
    <3>2. job.key = r
      BY <2>1, <2>3, <2>5 DEF FinalizerInv, UidsUnique
    <3>3. QED
      BY <3>1, <3>2, PlanOwn DEF Operation
  <2>6. QED
    BY <2>4, <2>5
<1>3. QED
  BY <1>1, <1>2 DEF ChildrenOwned

\* The ways in which Reconcile gets on: it returns, or takes a deletion further; it
\* waits while others move; it is not at its children yet; it carries out an operation.
Waits ==
    /\ job' = job /\ pc' = pc
    /\ children' = children \/ \E id \in ChildIds : GarbageCollect(id) \/ DeleteChild(id)
Evaluates ==
    /\ job' # Nil
    /\ \/ job'.step = 1 /\ job'.managed = 0
       \/ job # Nil /\ pc \in Before /\ job'.step = job.step /\ job'.managed = job.managed
    /\ pc' = "status" => job'.verdict # "healthy"
Operates ==
    \/ \E out \in Outcomes : PutChild(out)
    \/ \E n \in 0 .. 2, succeeded \in BOOLEAN : DeleteChildren(n, succeeded)
    \/ SkipChild

\* What a step may be for the Reconcile that goes on after it.
LEMMA WorkCases ==
    ASSUME AllInv, AllInv', [Next]_vars
    PROVE  job' = Nil \/ pc' \in Deleting \/ Waits \/ Evaluates \/ Operates
<1> USE DEF AllInv
<1> DEFINE Goal == job' = Nil \/ pc' \in Deleting \/ Waits \/ Evaluates \/ Operates
<1>1. ASSUME CheckCertificate \/ CheckConflicts \/ CheckBackends \/ ChooseCanary \/ StartProbe
             \/ \E bad \in BOOLEAN : FinishProbe(bad)
      PROVE  Goal
  <2>1. job # Nil /\ job \in Jobs /\ pc \in Before
    BY <1>1 DEF CheckCertificate, CheckConflicts, CheckBackends, ChooseCanary, StartProbe, FinishProbe,
           TypeInv, TypeOK, JobInv, Before
  <2>2. CASE CheckCertificate
    BY <2>1, <2>2 DEF CheckCertificate, Jobs, Evaluates
  <2>3. CASE CheckConflicts
    BY <2>1, <2>3 DEF CheckConflicts, Jobs, Evaluates
  <2>4. CASE CheckBackends
    BY <2>1, <2>4 DEF CheckBackends, Jobs, Evaluates
  <2>5. CASE ChooseCanary \/ StartProbe
    BY <2>1, <2>5 DEF ChooseCanary, StartProbe, Jobs, Evaluates
  <2>6. CASE \E bad \in BOOLEAN : FinishProbe(bad)
    BY <2>1, <2>6 DEF FinishProbe, Jobs, Evaluates
  <2>7. QED
    BY <1>1, <2>2, <2>3, <2>4, <2>5, <2>6
<1>2. ASSUME Minor PROVE Goal
  <2>1. \/ job' = Nil \/ Waits \/ Operates
        \/ CheckCertificate \/ CheckConflicts \/ CheckBackends \/ ChooseCanary \/ StartProbe
        \/ (\E bad \in BOOLEAN : FinishProbe(bad))
    BY <1>2 DEF Minor, BeginGone, BeginFails, BeginReleased, RequeueDue, EvaluationFails,
       ReturnRequeue, Resync, ChildSync, GarbageCollect, DeleteChild, Cluster, SetService, SetGateway,
       SetSecret, Tick, apiVars, workerVars, vars, Waits, Operates
  <2>2. QED
    BY <1>1, <2>1
<1>3. ASSUME NEW r \in Routes, Begin(r) PROVE Goal
  <2>1. job' = NewJob(r) /\ pc' # "status" /\ job' # Nil
    BY <1>3 DEF Begin, FirstStep, TypeInv, JobInv
  <2>2. QED
    BY <2>1 DEF NewJob, Evaluates
<1>4. ASSUME NEW out \in Outcomes, AddFinalizer(out) PROVE Goal
  <2>1. job \in Jobs /\ job # Nil /\ pc = "finalize"
    BY <1>4, AddShape, NilAssumption DEF AddFinalizer
  <2>2. job' = Nil \/ \E new : job' = [job EXCEPT !.base = new] /\ pc' = "certificate"
    BY <1>4 DEF AddFinalizer, ReturnRequeue
  <2>3. job' = Nil \/ (job'.step = job.step /\ job'.managed = job.managed /\ pc' = "certificate")
    BY <2>1, <2>2 DEF Jobs
  <2>4. QED
    BY <2>1, <2>3 DEF Evaluates, Before
<1>5. ASSUME CleanupKind \/ Crash \/ CacheSync
             \/ (\E r \in Routes, spec \in Specs : CreateRoute(r, spec)) \/ (\E r \in Routes : Rewrites(r))
             \/ \E out \in Outcomes : WriteStatus(out) \/ RemoveFinalizer(out)
      PROVE  Goal
  BY <1>5, StatusShape, RemoveShape, CreateShape, RewriteShape
     DEF CleanupKind, Deleting, Crash, CacheSync, apiVars, Waits
<1>6. QED
  BY <1>2, <1>3, <1>4, <1>5, StepCases DEF Major, Operates

\* While Reconcile works for a Route that nobody deletes, nobody takes its children
\* either.
LEMMA WaitKeeps ==
    ASSUME Budget["meddle"] = 0, AllInv, AllInv', [Next]_vars, Waits, job # Nil, pc \in {"children", "status"},
           ~routes'[job.key].deleting
    PROVE  /\ ~routes[job.key].deleting
           /\ \A id \in ChildIds :
                \/ children'[id] = children[id]
                \/ children'[id] = Nil /\ children[id] # Nil /\ children[id].uid # job.base.uid
<1> USE DEF AllInv
<1>1. job \in Jobs /\ job.key \in Routes /\ job.base.finalizer /\ ~job.base.deleting
  BY DEF TypeInv, TypeOK, JobInv, Jobs, Working, GuardInv, WorkerInv, Deleting
<1>2. routes[job.key] # Nil /\ routes[job.key].uid = job.base.uid
  BY <1>1 DEF GuardInv, WorkGuarded, Held
<1>3. routes'[job.key] # Nil
  BY <1>1 DEF GuardInv, WorkGuarded, Held, Waits
<1>4. ~routes[job.key].deleting
  <2>1. RouteFollows(job.key)
    BY <1>1, <1>3, RouteStep
  <2>2. QED
    BY <1>2, <2>1 DEF RouteFollows
<1>5. ~routes[job.key].hold
  BY <1>1, <1>2, <1>4 DEF GuardInv, HoldDeletes
<1>6. ASSUME NEW x \in ChildIds, GarbageCollect(x), NEW id \in ChildIds
      PROVE  \/ children'[id] = children[id]
             \/ children'[id] = Nil /\ children[id] # Nil /\ children[id].uid # job.base.uid
  <2>1. children' = [children EXCEPT ![x] = Nil] /\ children[x] # Nil /\ children[x].uid # job.base.uid
    BY <1>1, <1>2, <1>5, <1>6 DEF GarbageCollect, SetChildren
  <2>2. children \in [ChildIds -> Objects \cup {Nil}]
    BY DEF TypeInv, TypeOK
  <2>3. QED
    BY <2>1, <2>2
<1>7. ~Spend("meddle")
  BY DEF Spend, TypeInv, TypeOK, BudgetKinds
<1>8. QED
  BY <1>4, <1>6, <1>7 DEF Waits, DeleteChild

\* What an operation does to the children, and to the count of them.
LEMMA OperationShape ==
    ASSUME TypeInv, TypeInv', Operates, NEW o, o = Operation, NEW uid, uid = job.base.uid
    PROVE  /\ pc = "children" /\ job # Nil /\ job.step \in DOMAIN Plan /\ UNCHANGED routes
           /\ \E succeeded \in BOOLEAN : Advance(succeeded) /\ (succeeded => Done(o, uid)')
           /\ \A id \in ChildIds \ Names(o) : children'[id] = children[id]
           /\ \/ job'.managed = job.managed
              \/ /\ job'.managed = job.managed + 1
                 /\ \E x \in Names(o) : x \in Mine(uid)'
<1>0. children \in [ChildIds -> Objects \cup {Nil}]
  BY DEF TypeInv, TypeOK
<1>1. pc = "children" /\ job.step \in DOMAIN Plan /\ UNCHANGED routes
  BY DEF Operates, PutChild, DeleteChildren, SkipChild, apiVars
<1>2. job # Nil /\ job \in Jobs
  BY <1>1 DEF TypeInv, TypeOK, JobInv
<1>3. Writes(o) /\ Names(o) \subseteq ChildIds
  BY <1>1, <1>2, PlanFacts DEF Operation
<1>4. ASSUME NEW ok \in BOOLEAN, Advance(ok)
      PROVE  job'.managed = IF ok /\ o.op = "put" THEN job.managed + 1 ELSE job.managed
  <2>1. PICK m, f : /\ f = (job.failed \/ ~ok)
                    /\ m = IF ok /\ o.op = "put" THEN job.managed + 1 ELSE job.managed
    OBVIOUS
  <2>2. job' = [job EXCEPT !.step = job.step + 1, !.managed = m, !.failed = f]
    BY <1>4, <2>1 DEF Advance
  <2>3. QED
    BY <1>2, <2>1, <2>2 DEF Jobs
<1> DEFINE Goal == /\ \E succeeded \in BOOLEAN : Advance(succeeded) /\ (succeeded => Done(o, uid)')
                   /\ \A id \in ChildIds \ Names(o) : children'[id] = children[id]
                   /\ \/ job'.managed = job.managed
                      \/ /\ job'.managed = job.managed + 1
                         /\ \E x \in Names(o) : x \in Mine(uid)'
<1>5. ASSUME NEW out \in Outcomes, PutChild(out) PROVE Goal
  <2> DEFINE x == o.ids[1]
             new == [uid |-> uid, label |-> job.key.name, body |-> o.body]
             ok == children[x] = childCache[x] /\ out = "ok"
  <2>1. /\ o.op = "put" /\ Advance(ok)
        /\ children' = children \/ children' = [children EXCEPT ![x] = new]
        /\ ok => children' = [children EXCEPT ![x] = new]
    BY <1>5 DEF PutChild, SetChildren, Applied
  <2>2. x \in Names(o) /\ x \in ChildIds
    BY <1>3, <2>1 DEF Writes, Names
  <2>3. new \in Objects /\ new # Nil /\ new.uid = uid /\ new.body = o.body
    BY <1>1, <1>2, ChildType, NilAssumption
  <2> HIDE DEF x, new
  <2>4. /\ ok => x \in Mine(uid)'
        /\ ok => Done(o, uid)'
    BY <1>0, <2>1, <2>2, <2>3 DEF Mine, Done, x
  <2>5. \A id \in ChildIds \ Names(o) : children'[id] = children[id]
    BY <1>0, <2>1, <2>2
  <2>6. ok \in BOOLEAN
    OBVIOUS
  <2> HIDE DEF ok
  <2>7. job'.managed = IF ok THEN job.managed + 1 ELSE job.managed
    BY <1>4, <2>1, <2>6
  <2>8. QED
    BY <2>1, <2>2, <2>4, <2>5, <2>6, <2>7
<1>6. ASSUME NEW n \in 0 .. 2, NEW succeeded \in BOOLEAN, DeleteChildren(n, succeeded) PROVE Goal
  <2>1. /\ o.op = "delete" /\ Advance(succeeded) /\ n \in 0 .. Len(o.ids)
        /\ succeeded => n = Len(o.ids)
        /\ children' = [id \in ChildIds |-> IF \E i \in 1 .. n : o.ids[i] = id THEN Nil ELSE children[id]]
    BY <1>6 DEF DeleteChildren, SetChildren
  <2>2. DOMAIN o.ids = 1 .. Len(o.ids)
    BY <1>3 DEF Writes
  <2>3. \A id \in ChildIds \ Names(o) : children'[id] = children[id]
    BY <2>1, <2>2 DEF Names
  <2>4. job'.managed = job.managed
    BY <1>4, <2>1
  <2>5. succeeded => Done(o, uid)'
    BY <1>3, <2>1, <2>2 DEF Done, Names
  <2>6. QED
    BY <2>1, <2>3, <2>4, <2>5
<1>7. ASSUME SkipChild PROVE Goal
  <2>1. Advance(FALSE) /\ children' = children
    BY <1>7 DEF SkipChild, apiVars
  <2>2. QED
    BY <1>4, <2>1
<1>8. QED
  BY <1>1, <1>2, <1>5, <1>6, <1>7 DEF Operates

\* A part of the children is finite, and a larger part counts no less.
LEMMA PartsCounted ==
    ASSUME ChildrenOwned'
    PROVE  /\ \A T \in SUBSET Existing' : IsFiniteSet(T) /\ Cardinality(T) \in Nat
           /\ \A T \in SUBSET Existing' : \A S \in SUBSET T : Cardinality(S) <= Cardinality(T)
           /\ \A uid : Mine(uid)' \subseteq Existing'
<1>1. IsFiniteSet(Existing')
  BY DEF ChildrenOwned
<1>2. \A T \in SUBSET Existing' : IsFiniteSet(T)
  BY <1>1, FS_Subset
<1>3. \A T \in SUBSET Existing' : Cardinality(T) \in Nat
  BY <1>2, FS_CardinalityType
<1>4. \A T \in SUBSET Existing' : \A S \in SUBSET T : Cardinality(S) <= Cardinality(T)
  BY <1>2, FS_Subset
<1>5. \A uid : Mine(uid)' \subseteq Existing'
  BY DEF Mine, Existing
<1>6. QED
  BY <1>2, <1>3, <1>4, <1>5

\* An operation that was counted has one child more to show.
LEMMA OperatesCount ==
    ASSUME IndicesDiffer, AllInv, AllInv', ChildrenOwned', CountBacked, Operates
    PROVE  CountBacked'
<1> USE DEF AllInv
<1>1. PICK o, uid, p, n : o = Operation /\ uid = job.base.uid /\ p = Plan /\ n = job.step
  OBVIOUS
<1>2. /\ pc = "children" /\ job # Nil /\ n \in DOMAIN p /\ UNCHANGED routes
      /\ \A id \in ChildIds \ Names(o) : children'[id] = children[id]
      /\ \/ job'.managed = job.managed
         \/ /\ job'.managed = job.managed + 1
            /\ \E x \in Names(o) : x \in Mine(uid)'
  BY <1>1, OperationShape
<1>3. /\ job' # Nil /\ job'.key = job.key /\ job'.base = job.base /\ job'.verdict = job.verdict
      /\ n \in Nat /\ job'.step = n + 1 /\ Plan' = p
      /\ pc' \in {"children", "status"}
  BY <1>1, OperationShape, AdvanceShape
<1>4. /\ DOMAIN p = 1 .. Len(p) /\ Len(p) \in Nat /\ o = p[n]
      /\ \A k \in DOMAIN p : Names(p[k]) \subseteq ChildIds
      /\ \A j, k \in DOMAIN p : j # k => Names(p[j]) \cap Names(p[k]) = {}
  BY <1>1, <1>2, PlanFacts DEF Operation
<1> SUFFICES ASSUME job.verdict = "healthy", ~routes[job.key].deleting
             PROVE  job'.managed <= Cardinality(Written(p, uid, n + 1)')
  BY <1>1, <1>2, <1>3 DEF CountBacked, Before
<1>5. job.managed <= Cardinality(Written(p, uid, n)) /\ job.managed \in Nat
  BY <1>1, <1>2 DEF CountBacked, TypeInv, TypeOK, Jobs
<1>6. Written(p, uid, n) \cap Names(o) = {}
  BY <1>2, <1>3, <1>4 DEF Written
<1>7. Written(p, uid, n) \subseteq Written(p, uid, n + 1)'
  <2> SUFFICES ASSUME NEW id \in Written(p, uid, n) PROVE id \in Written(p, uid, n + 1)'
    OBVIOUS
  <2>1. PICK k \in DOMAIN p : k < n /\ id \in Names(p[k])
    BY DEF Written
  <2>2. id \in ChildIds /\ children'[id] = children[id]
    BY <1>2, <1>6 DEF Written, Mine
  <2>3. id \in Mine(uid)'
    BY <2>2 DEF Written, Mine
  <2>4. k < n + 1
    BY <1>3, <1>4, <2>1
  <2>5. QED
    BY <2>1, <2>3, <2>4 DEF Written
<1>8. Written(p, uid, n + 1)' \subseteq Existing'
  BY DEF Written, Mine, Existing
<1>9. PICK W, V : W = Written(p, uid, n) /\ V = Written(p, uid, n + 1)'
  OBVIOUS
<1>10. /\ IsFiniteSet(V) /\ Cardinality(V) \in Nat
       /\ \A S \in SUBSET V : Cardinality(S) <= Cardinality(V) /\ IsFiniteSet(S) /\ Cardinality(S) \in Nat
  BY <1>8, <1>9, PartsCounted
<1>11. CASE job'.managed = job.managed
  BY <1>5, <1>7, <1>9, <1>10, <1>11
<1>12. ASSUME NEW x \in Names(o), x \in Mine(uid)', job'.managed = job.managed + 1
       PROVE  job'.managed <= Cardinality(V)
  <2>1. x \in V
    <3>1. n < n + 1
      BY <1>3
    <3>2. QED
      BY <1>2, <1>4, <1>9, <1>12, <3>1 DEF Written
  <2>2. x \notin W /\ W \cup {x} \in SUBSET V
    BY <1>6, <1>7, <1>9, <1>12, <2>1
  <2>3. Cardinality(W \cup {x}) = Cardinality(W) + 1
    BY <1>10, <2>2, FS_AddElement
  <2>4. QED
    BY <1>5, <1>9, <1>10, <1>12, <2>2, <2>3
<1>13. QED
  BY <1>2, <1>9, <1>11, <1>12

\* CountBacked is inductive.
LEMMA StepCount ==
    ASSUME Budget["meddle"] = 0, IndicesDiffer, AllInv, AllInv', ChildrenOwned', WorkDone, CountBacked,
           [Next]_vars
    PROVE  CountBacked'
<1> USE DEF AllInv
<1>0. \A p, uid, n : Written(p, uid, n)' \in SUBSET Existing'
  BY DEF Written, Mine, Existing
<1>1. CASE job' = Nil
  BY <1>1 DEF CountBacked
<1>2. CASE pc' \in Deleting
  BY <1>2 DEF CountBacked, Deleting, Before
<1>3. CASE Waits
  <2>1. PICK uid, p : uid = job.base.uid /\ p = Plan
    OBVIOUS
  <2>2. job' = job /\ pc' = pc /\ Plan' = p
    BY <1>3, <2>1 DEF Waits, Plan
  <2>3. SUFFICES ASSUME job # Nil, pc \in {"children", "status"}, job.verdict = "healthy",
                        ~routes'[job.key].deleting
                 PROVE  job.managed <= Cardinality(Written(p, uid, job.step)')
    BY <2>1, <2>2 DEF CountBacked
  <2>4. /\ ~routes[job.key].deleting
        /\ \A id \in ChildIds :
             \/ children'[id] = children[id]
             \/ children'[id] = Nil /\ children[id] # Nil /\ children[id].uid # uid
    BY <1>3, <2>1, <2>3, WaitKeeps
  <2>5. Written(p, uid, job.step) \subseteq Written(p, uid, job.step)'
    BY <2>2, <2>4 DEF Written, Mine
  <2>6. job.managed <= Cardinality(Written(p, uid, job.step)) /\ job.managed \in Nat
    BY <2>1, <2>3, <2>4 DEF CountBacked, TypeInv, TypeOK, Jobs
  <2>7. PICK W, V : W = Written(p, uid, job.step) /\ V = Written(p, uid, job.step)'
    OBVIOUS
  <2>8. V \in SUBSET Existing' /\ W \in SUBSET V
    BY <1>0, <2>5, <2>7
  <2>9. W \in SUBSET Existing'
    BY <2>8
  <2>10. Cardinality(W) <= Cardinality(V) /\ Cardinality(W) \in Nat /\ Cardinality(V) \in Nat
    BY <2>8, <2>9, PartsCounted
  <2>11. QED
    BY <2>6, <2>7, <2>10
<1>4. CASE Evaluates
  <2>1. job'.managed = 0
    BY <1>4 DEF Evaluates, CountBacked
  <2>2. Cardinality(Written(Plan, job.base.uid, job.step)') \in Nat
    BY <1>0, PartsCounted
  <2>3. QED
    BY <2>1, <2>2 DEF CountBacked
<1>5. CASE Operates
  BY <1>5, OperatesCount
<1>6. QED
  BY <1>1, <1>2, <1>3, <1>4, <1>5, WorkCases

\* ManagedDue is inductive.
LEMMA StepManaged ==
    ASSUME Budget["meddle"] = 0, NamesDistinct, NamesApart, AllInv, AllInv', PendingInv,
           RoutesKnown, ChildrenNamed, ChildrenOwned, ChildrenOwned', CountBacked, ManagedDue, [Next]_vars
    PROVE  ManagedDue'
<1> USE DEF AllInv
<1> SUFFICES ASSUME NEW r \in Routes, Live(r)', ~Pending(r)'
             PROVE  routes'[r].status.managed <= Cardinality(Mine(routes[r].uid)')
  BY DEF ManagedDue
<1>0. PICK uid, V : uid = routes'[r].uid /\ V = Mine(routes[r].uid)'
  OBVIOUS
<1>1. /\ V \in SUBSET Existing' /\ V = {id \in ChildIds : children'[id] # Nil /\ children'[id].uid = uid}
      /\ Cardinality(V) \in Nat /\ \A S \in SUBSET V : Cardinality(S) <= Cardinality(V)
      /\ \A S \in SUBSET V : Cardinality(S) \in Nat
  <2>1. V = {id \in ChildIds : children'[id] # Nil /\ children'[id].uid = uid}
    BY <1>0 DEF Mine
  <2>2. V \in SUBSET Existing'
    BY <2>1 DEF Existing
  <2>3. \A S \in SUBSET V : S \in SUBSET Existing'
    BY <2>2
  <2>4. QED
    BY <2>1, <2>2, <2>3, PartsCounted
<1>2. CASE Pending(r)
  <2>1. Concludes(r)
    BY <1>2, PendingEnds
  <2>2. CASE routes'[r] = routes[r] /\ ~routes[r].finalizer
    <3>1. Live(r)
      BY <2>2 DEF Live
    <3>2. routes[r].status = NoStatus
      BY <2>2, <3>1 DEF PendingInv, StatusGuarded
    <3>3. routes[r].status.managed = 0
      BY <3>2, NothingClaimed
    <3>4. QED
      BY <1>0, <1>1, <2>2, <3>3
  <2>3. ASSUME pc = "status", job # Nil, job.key = r, routes[r] = job.base,
               routes'[r].status = NewStatus(job), uid = job.base.uid, children' = children
        PROVE  routes'[r].status.managed <= Cardinality(V)
    <3>1. job \in Jobs /\ ~job.base.deleting
      BY <2>3 DEF TypeInv, TypeOK, GuardInv, WorkerInv, Deleting
    <3>2. routes'[r].status.managed = IF job.verdict = "healthy" THEN job.managed ELSE 0
      BY <2>3 DEF NewStatus
    <3>3. CASE job.verdict = "healthy"
      <4>1. PICK W : W = Written(Plan, job.base.uid, job.step)
        OBVIOUS
      <4>2. job.managed <= Cardinality(W) /\ job.managed \in Nat
        BY <2>3, <3>1, <3>3, <4>1 DEF CountBacked, Jobs
      <4>3. W \in SUBSET V
        BY <1>1, <2>3, <4>1 DEF Written, Mine
      <4>4. QED
        BY <1>1, <3>2, <3>3, <4>2, <4>3
    <3>4. CASE job.verdict # "healthy"
      BY <1>1, <3>2, <3>4
    <3>5. QED
      BY <3>3, <3>4
  <2>4. QED
    BY <1>0, <2>1, <2>2, <2>3 DEF Concludes
<1>3. CASE ~Pending(r)
  <2>1. /\ routes'[r] = routes[r]
        /\ \A id \in ChildIds : id \in OwnNames(r) =>
             \/ children'[id] = children[id]
             \/ children'[id] = Nil /\ children[id] # Nil /\ children[id].uid # routes[r].uid
    BY <1>3, CalmKept
  <2>2. Live(r) /\ routes[r] # Nil /\ routes[r] \in RouteObjects
    BY <2>1 DEF Live, TypeInv, TypeOK
  <2>3. PICK W : W = Mine(routes[r].uid)
    OBVIOUS
  <2>4. routes[r].status.managed <= Cardinality(W) /\ routes[r].status.managed \in Nat
    BY <1>3, <2>2, <2>3 DEF ManagedDue, RouteObjects, Statuses
  <2>5. W \in SUBSET V
    BY <1>0, <1>1, <2>1, <2>2, <2>3 DEF Mine, ChildrenOwned
  <2>6. QED
    BY <1>0, <1>1, <2>1, <2>4, <2>5
<1>4. QED
  BY <1>2, <1>3

\* Whenever the controller has nothing left to do, the number of managed resources
\* in the status of a live Route claims no child that does not exist: the count is
\* that of successful writes, which name different children, and no child goes before
\* the count is written again.  The assumptions are those of ActiveStays.
THEOREM ManagedStays ==
    Budget["meddle"] = 0 /\ IndicesDiffer /\ NamesDistinct /\ NamesApart
        => (Spec => [](Budget["fault"] = 0 \/ delayed = {} => ManagedIsBacked))
<1> SUFFICES ASSUME Budget["meddle"] = 0, IndicesDiffer, NamesDistinct, NamesApart
             PROVE  Spec => [](Budget["fault"] = 0 \/ delayed = {} => ManagedIsBacked)
  OBVIOUS
<1> DEFINE Inv == /\ PendingInv /\ RoutesKnown /\ ChildrenNamed /\ WorkDone
                  /\ ChildrenOwned /\ CountBacked /\ ManagedDue
<1>1. Init => Inv
  <2>1. Init => GensFollow /\ RoutesKnown /\ ChildrenNamed
    BY DEF Init, GensFollow, RoutesKnown, ChildrenNamed
  <2>2. Init => JobFresh /\ StatusGuarded /\ WorkDone /\ CountBacked /\ ManagedDue
    BY DEF Init, JobFresh, StatusGuarded, WorkDone, CountBacked, ManagedDue, Live
  <2>3. Init => Existing = {}
    BY DEF Init, Existing
  <2>4. Init => ChildrenOwned
    BY <2>3, FS_EmptySet DEF Init, ChildrenOwned
  <2>5. QED
    BY <2>1, <2>2, <2>4 DEF PendingInv
<1>2. AllInv /\ AllInv' /\ Inv /\ [Next]_vars => Inv'
  <2> SUFFICES ASSUME AllInv, AllInv', Inv, [Next]_vars PROVE Inv'
    OBVIOUS
  <2>1. PendingInv'
    BY StepGens, StepFresh, StepGuarded DEF PendingInv, AllInv
  <2>2. RoutesKnown' /\ ChildrenNamed' /\ WorkDone'
    BY StepKnown, StepNamed, StepWork DEF AllInv
  <2>3. ChildrenOwned'
    BY StepOwned
  <2>4. CountBacked'
    BY <2>3, StepCount
  <2>5. ManagedDue'
    BY <2>3, StepManaged
  <2>6. QED
    BY <2>1, <2>2, <2>3, <2>4, <2>5
<1>3. AllInv /\ Inv => (Budget["fault"] = 0 \/ delayed = {} => ManagedIsBacked)
  <2> SUFFICES ASSUME AllInv, Inv, Budget["fault"] = 0 \/ delayed = {}, Quiet, NEW r \in Routes, Live(r)
               PROVE  routes[r].status.managed <= Cardinality(Mine(routes[r].uid))
    BY DEF ManagedIsBacked, Mine
  <2>1. ~Pending(r)
    BY DEF AllInv, TypeInv, JobInv, Quiet, Pending
  <2>2. QED
    BY <2>1 DEF ManagedDue
<1>4. QED
  <2> HIDE DEF Inv
  <2>1. QED
    BY <1>1, <1>2, <1>3, Invariance, PTL DEF Spec

-----------------------------------------------------------------------------
(* What a rollback leaves in the cluster.                                  *)

\* Everything that a list of operations does about VirtualServices is o.
OnlyVirtual(p, o) ==
    \A k \in 1 .. Len(p) : \A id \in Names(p[k]) : id.kind = "VirtualService" => p[k] = o
Includes(p, o) == \E k \in 1 .. Len(p) : p[k] = o

\* What one part of a plan includes, the whole does.
LEMMA IncludesConcatenated ==
    ASSUME NEW s, NEW t, NEW o, Includes(s, o) \/ Includes(t, o)
    PROVE  Includes(s \o t, o)
<1> DEFINE u == s \o t
<1>1. /\ Len(s) \in Nat /\ Len(t) \in Nat
      /\ Len(u) = Len(s) + Len(t)
      /\ \A k \in 1 .. Len(u) : IF k <= Len(s) THEN u[k] = s[k] ELSE u[k] = t[k - Len(s)]
  OBVIOUS
<1> HIDE DEF u
<1>2. ASSUME NEW k \in 1 .. Len(s), s[k] = o PROVE Includes(u, o)
  BY <1>1, <1>2 DEF Includes
<1>3. ASSUME NEW k \in 1 .. Len(t), t[k] = o PROVE Includes(u, o)
  <2>1. k + Len(s) \in 1 .. Len(u) /\ ~(k + Len(s) <= Len(s)) /\ k + Len(s) - Len(s) = k
    BY <1>1
  <2>2. u[k + Len(s)] = t[k]
    BY <1>1, <2>1
  <2>3. QED
    BY <1>3, <2>1, <2>2 DEF Includes
<1>4. QED
  BY <1>2, <1>3 DEF u, Includes

\* If both parts of a plan have one VirtualService at most, the whole does.
LEMMA VirtualConcatenated ==
    ASSUME NEW s, NEW t, NEW o, OnlyVirtual(s, o), OnlyVirtual(t, o)
    PROVE  OnlyVirtual(s \o t, o)
<1> DEFINE u == s \o t
<1>1. /\ Len(s) \in Nat /\ Len(t) \in Nat
      /\ Len(u) = Len(s) + Len(t)
      /\ \A k \in 1 .. Len(u) : IF k <= Len(s) THEN u[k] = s[k] ELSE u[k] = t[k - Len(s)]
  OBVIOUS
<1> HIDE DEF u
<1>2. \A k \in 1 .. Len(u) :
        \/ k \in 1 .. Len(s) /\ u[k] = s[k]
        \/ k - Len(s) \in 1 .. Len(t) /\ u[k] = t[k - Len(s)]
  BY <1>1
<1>3. OnlyVirtual(u, o)
  BY <1>2 DEF OnlyVirtual
<1>4. QED
  BY <1>3 DEF u

\* The operations of a plan, step by step of Reconcile.
LEMMA PlanIncludes ==
    ASSUME NEW r \in Routes, NEW spec \in AllSpecs, NEW canary, NEW p, p = childPlan(r, spec, canary)
    PROVE  /\ \A i \in DOMAIN spec.rules : Includes(p, reconcileHTTPRoute(r, spec, i, canary))
           /\ spec.ssl # "off" =>
                \A i \in DOMAIN uniqueHostsFromRules(spec.rules) :
                  Includes(p, reconcileRedirectHTTPRoute(r, spec, i, uniqueHostsFromRules(spec.rules)[i]))
           /\ ~(spec.timeout = "" /\ spec.cors = Nil /\ spec.retries = Nil /\ canary = Nil) =>
                Includes(p, reconcileVirtualService(r, spec, canary))
           /\ \A i \in 1 .. Len(httpsBackends(spec, canary)) :
                Includes(p, reconcileDestinationRule(r, spec, i, httpsBackends(spec, canary)[i]))
           /\ spec.maxBody # "" => \A i \in DOMAIN spec.rules : Includes(p, reconcileEnvoyFilter(r, spec, i))
           /\ spec.auth # Nil => /\ Includes(p, reconcileRequestAuthentication(r, spec))
                                 /\ Includes(p, reconcileAuthorizationPolicy(r, spec))
           /\ spec.rate # Nil => Includes(p, reconcileRateLimitEnvoyFilter(r, spec))
<1> DEFINE rules == spec.rules
           hosts == uniqueHostsFromRules(rules)
           tls == httpsBackends(spec, canary)
           p1 == [i \in DOMAIN rules |-> reconcileHTTPRoute(r, spec, i, canary)]
           p2 == IF spec.ssl = "off" THEN <<>>
                 ELSE [i \in DOMAIN hosts |-> reconcileRedirectHTTPRoute(r, spec, i, hosts[i])]
           p3 == IF spec.timeout = "" /\ spec.cors = Nil /\ spec.retries = Nil /\ canary = Nil THEN <<>>
                 ELSE <<reconcileVirtualService(r, spec, canary)>>
           p4 == [i \in 1 .. Len(tls) |-> reconcileDestinationRule(r, spec, i, tls[i])]
           p5 == IF spec.maxBody = "" THEN <<>>
                 ELSE [i \in DOMAIN rules |-> reconcileEnvoyFilter(r, spec, i)]
           p6 == IF spec.auth = Nil THEN <<deleteAuthResources(r, spec)>>
                 ELSE <<reconcileRequestAuthentication(r, spec), reconcileAuthorizationPolicy(r, spec)>>
           p7 == IF spec.rate = Nil THEN <<deleteRateLimitEnvoyFilter(r, spec)>>
                 ELSE <<reconcileRateLimitEnvoyFilter(r, spec)>>
<1>1. p = p1 \o p2 \o p3 \o p4 \o p5 \o p6 \o p7
  BY DEF childPlan
<1>2. DOMAIN rules = 1 .. Len(rules) /\ Len(rules) \in Nat
  BY MutatedType DEF RouteSpecs
<1>3. \A i \in DOMAIN rules : Includes(p1, reconcileHTTPRoute(r, spec, i, canary))
  BY <1>2 DEF Includes
<1>4. spec.ssl # "off" => \A i \in DOMAIN hosts : Includes(p2, reconcileRedirectHTTPRoute(r, spec, i, hosts[i]))
  <2>1. PICK h \in Nat : DOMAIN hosts = 1 .. h
    BY <1>2, HostsListed
  <2> HIDE DEF hosts
  <2> DEFINE redirects == [i \in 1 .. h |-> reconcileRedirectHTTPRoute(r, spec, i, hosts[i])]
  <2>2. \A i \in 1 .. h : Includes(redirects, reconcileRedirectHTTPRoute(r, spec, i, hosts[i]))
    BY DEF Includes
  <2>3. spec.ssl # "off" => p2 = redirects
    BY <2>1
  <2> HIDE DEF p2, redirects
  <2>4. QED
    BY <2>1, <2>2, <2>3
<1>5. ~(spec.timeout = "" /\ spec.cors = Nil /\ spec.retries = Nil /\ canary = Nil) =>
        Includes(p3, reconcileVirtualService(r, spec, canary))
  <2>1. \A x : Includes(<<x>>, x)
    BY DEF Includes
  <2>2. QED
    BY <2>1
<1>6. \A i \in 1 .. Len(tls) : Includes(p4, reconcileDestinationRule(r, spec, i, tls[i]))
  <2> HIDE DEF tls
  <2>1. QED
    BY DEF Includes
<1>7. spec.maxBody # "" => \A i \in DOMAIN rules : Includes(p5, reconcileEnvoyFilter(r, spec, i))
  <2> DEFINE filters == [i \in 1 .. Len(rules) |-> reconcileEnvoyFilter(r, spec, i)]
  <2>1. \A i \in 1 .. Len(rules) : Includes(filters, reconcileEnvoyFilter(r, spec, i))
    BY <1>2 DEF Includes
  <2>2. spec.maxBody # "" => p5 = filters
    BY <1>2
  <2> HIDE DEF p5, filters
  <2>3. QED
    BY <1>2, <2>1, <2>2
<1>8. \A x, y : Includes(<<x>>, x) /\ Includes(<<x, y>>, x) /\ Includes(<<x, y>>, y)
  <2> TAKE x, y
  <2>1. Includes(<<x>>, x)
    BY DEF Includes
  <2>2. /\ 1 \in 1 .. Len(<<x, y>>) /\ <<x, y>>[1] = x
        /\ 2 \in 1 .. Len(<<x, y>>) /\ <<x, y>>[2] = y
    OBVIOUS
  <2>3. QED
    BY <2>1, <2>2 DEF Includes
<1>9. spec.auth # Nil => /\ Includes(p6, reconcileRequestAuthentication(r, spec))
                        /\ Includes(p6, reconcileAuthorizationPolicy(r, spec))
  BY <1>8
<1>10. spec.rate # Nil => Includes(p7, reconcileRateLimitEnvoyFilter(r, spec))
  BY <1>8
<1> DEFINE q2 == p1 \o p2
           q3 == q2 \o p3
           q4 == q3 \o p4
           q5 == q4 \o p5
           q6 == q5 \o p6
           q7 == q6 \o p7
<1>11. p = q7
  BY <1>1
<1> HIDE DEF p1, p2, p3, p4, p5, p6, p7, tls, hosts, rules
<1>12. \A x : Includes(p1, x) \/ Includes(p2, x) => Includes(q2, x)
  BY IncludesConcatenated
<1> HIDE DEF q2
<1>13. \A x : Includes(q2, x) \/ Includes(p3, x) => Includes(q3, x)
  BY IncludesConcatenated
<1> HIDE DEF q3
<1>14. \A x : Includes(q3, x) \/ Includes(p4, x) => Includes(q4, x)
  BY IncludesConcatenated
<1> HIDE DEF q4
<1>15. \A x : Includes(q4, x) \/ Includes(p5, x) => Includes(q5, x)
  BY IncludesConcatenated
<1> HIDE DEF q5
<1>16. \A x : Includes(q5, x) \/ Includes(p6, x) => Includes(q6, x)
  BY IncludesConcatenated
<1> HIDE DEF q6
<1>17. \A x : Includes(q6, x) \/ Includes(p7, x) => Includes(q7, x)
  BY IncludesConcatenated
<1> HIDE DEF q7
<1>18. \A x : \/ Includes(p1, x) \/ Includes(p2, x) \/ Includes(p3, x) \/ Includes(p4, x)
             \/ Includes(p5, x) \/ Includes(p6, x) \/ Includes(p7, x)
               => Includes(p, x)
  BY <1>11, <1>12, <1>13, <1>14, <1>15, <1>16, <1>17
<1>19. \A i \in DOMAIN rules : Includes(p, reconcileHTTPRoute(r, spec, i, canary))
  BY <1>3, <1>18
<1>20. spec.ssl # "off" => \A i \in DOMAIN hosts : Includes(p, reconcileRedirectHTTPRoute(r, spec, i, hosts[i]))
  BY <1>4, <1>18
<1>21. \A i \in 1 .. Len(tls) : Includes(p, reconcileDestinationRule(r, spec, i, tls[i]))
  BY <1>6, <1>18
<1>22. spec.maxBody # "" => \A i \in DOMAIN rules : Includes(p, reconcileEnvoyFilter(r, spec, i))
  BY <1>7, <1>18
<1>23. QED
  BY <1>5, <1>9, <1>10, <1>18, <1>19, <1>20, <1>21, <1>22, Zenon DEF rules, hosts, tls

\* The only operation of a plan on a VirtualService is reconcileVirtualService, for
\* the effective canary.
LEMMA VirtualPlanned ==
    ASSUME NEW r \in Routes, NEW spec \in AllSpecs, NEW canary
    PROVE  OnlyVirtual(childPlan(r, spec, canary), reconcileVirtualService(r, spec, canary))
<1> DEFINE rules == spec.rules
           hosts == uniqueHostsFromRules(rules)
           tls == httpsBackends(spec, canary)
           p1 == [i \in DOMAIN rules |-> reconcileHTTPRoute(r, spec, i, canary)]
           p2 == IF spec.ssl = "off" THEN <<>>
                 ELSE [i \in DOMAIN hosts |-> reconcileRedirectHTTPRoute(r, spec, i, hosts[i])]
           p3 == IF spec.timeout = "" /\ spec.cors = Nil /\ spec.retries = Nil /\ canary = Nil THEN <<>>
                 ELSE <<reconcileVirtualService(r, spec, canary)>>
           p4 == [i \in 1 .. Len(tls) |-> reconcileDestinationRule(r, spec, i, tls[i])]
           p5 == IF spec.maxBody = "" THEN <<>>
                 ELSE [i \in DOMAIN rules |-> reconcileEnvoyFilter(r, spec, i)]
           p6 == IF spec.auth = Nil THEN <<deleteAuthResources(r, spec)>>
                 ELSE <<reconcileRequestAuthentication(r, spec), reconcileAuthorizationPolicy(r, spec)>>
           p7 == IF spec.rate = Nil THEN <<deleteRateLimitEnvoyFilter(r, spec)>>
                 ELSE <<reconcileRateLimitEnvoyFilter(r, spec)>>
           o == reconcileVirtualService(r, spec, canary)
           Other(x) == \A id \in Names(x) : id.kind # "VirtualService"
<1>1. childPlan(r, spec, canary) = p1 \o p2 \o p3 \o p4 \o p5 \o p6 \o p7
  BY DEF childPlan
<1>2. DOMAIN rules = 1 .. Len(rules) /\ Len(rules) \in Nat
  BY MutatedType DEF RouteSpecs
<1>3. /\ \A kind, ns, name, body : kind # "VirtualService" => Other(Put(Child(kind, ns, name), body))
      /\ Other(Failure)
  BY DEF Names, Put, Child, Failure
<1>4. /\ \A i : Other(reconcileHTTPRoute(r, spec, i, canary))
      /\ \A i, host : Other(reconcileRedirectHTTPRoute(r, spec, i, host))
      /\ \A i, backend : Other(reconcileDestinationRule(r, spec, i, backend))
      /\ \A i : Other(reconcileEnvoyFilter(r, spec, i))
      /\ Other(reconcileRequestAuthentication(r, spec))
      /\ Other(reconcileAuthorizationPolicy(r, spec))
      /\ Other(reconcileRateLimitEnvoyFilter(r, spec))
  <2> HIDE DEF Other
  <2>1. QED
    BY <1>3 DEF reconcileHTTPRoute, reconcileRedirectHTTPRoute, reconcileDestinationRule, reconcileEnvoyFilter,
       reconcileRequestAuthentication, reconcileAuthorizationPolicy, reconcileRateLimitEnvoyFilter,
       requestAuthentication, authorizationPolicy, rateLimitEnvoyFilter
<1>5. Other(deleteAuthResources(r, spec)) /\ Other(deleteRateLimitEnvoyFilter(r, spec))
  BY DEF Names, Delete, Child, deleteAuthResources, deleteRateLimitEnvoyFilter,
         requestAuthentication, authorizationPolicy, rateLimitEnvoyFilter
<1>6. OnlyVirtual(<<>>, o)
  BY DEF OnlyVirtual
<1> HIDE DEF o
<1>7. OnlyVirtual(p1, o)
  BY <1>2, <1>4 DEF OnlyVirtual
<1>8. OnlyVirtual(p2, o)
  <2>1. PICK h \in Nat : DOMAIN hosts = 1 .. h
    BY <1>2, HostsListed
  <2> HIDE DEF hosts
  <2> DEFINE redirects == [i \in 1 .. h |-> reconcileRedirectHTTPRoute(r, spec, i, hosts[i])]
  <2>2. OnlyVirtual(redirects, o)
    BY <1>4 DEF OnlyVirtual
  <2>3. p2 = <<>> \/ p2 = redirects
    BY <2>1
  <2> HIDE DEF p2, redirects
  <2>4. QED
    BY <1>6, <2>2, <2>3
<1>9. OnlyVirtual(p3, o)
  <2>1. OnlyVirtual(<<o>>, o)
    BY DEF OnlyVirtual
  <2>2. p3 = <<>> \/ p3 = <<o>>
    BY DEF o
  <2> HIDE DEF p3
  <2>3. QED
    BY <1>6, <2>1, <2>2
<1>10. OnlyVirtual(p4, o)
  <2> HIDE DEF tls
  <2>1. QED
    BY <1>4 DEF OnlyVirtual
<1>11. OnlyVirtual(p5, o)
  <2> DEFINE filters == [i \in 1 .. Len(rules) |-> reconcileEnvoyFilter(r, spec, i)]
  <2>1. OnlyVirtual(filters, o)
    BY <1>2, <1>4 DEF OnlyVirtual
  <2>2. p5 = <<>> \/ p5 = filters
    BY <1>2
  <2> HIDE DEF p5, filters
  <2>3. QED
    BY <1>6, <2>1, <2>2
<1>12. OnlyVirtual(p6, o)
  <2>1. \/ p6 = <<deleteAuthResources(r, spec)>>
        \/ p6 = <<reconcileRequestAuthentication(r, spec), reconcileAuthorizationPolicy(r, spec)>>
    OBVIOUS
  <2> HIDE DEF p6
  <2>2. QED
    BY <1>4, <1>5, <2>1 DEF OnlyVirtual
<1>13. OnlyVirtual(p7, o)
  <2>1. \E x : p7 = <<x>> /\ Other(x)
    BY <1>4, <1>5
  <2> HIDE DEF p7
  <2>2. QED
    BY <2>1 DEF OnlyVirtual
<1> DEFINE q2 == p1 \o p2
           q3 == q2 \o p3
           q4 == q3 \o p4
           q5 == q4 \o p5
           q6 == q5 \o p6
           q7 == q6 \o p7
<1> HIDE DEF p1, p2, p3, p4, p5, p6, p7
<1>14. OnlyVirtual(q2, o)
  BY <1>7, <1>8, VirtualConcatenated
<1> HIDE DEF q2
<1>15. OnlyVirtual(q3, o)
  BY <1>9, <1>14, VirtualConcatenated
<1> HIDE DEF q3
<1>16. OnlyVirtual(q4, o)
  BY <1>10, <1>15, VirtualConcatenated
<1> HIDE DEF q4
<1>17. OnlyVirtual(q5, o)
  BY <1>11, <1>16, VirtualConcatenated
<1> HIDE DEF q5
<1>18. OnlyVirtual(q6, o)
  BY <1>12, <1>17, VirtualConcatenated
<1> HIDE DEF q6
<1>19. OnlyVirtual(q7, o)
  BY <1>13, <1>18, VirtualConcatenated
<1>20. QED
  BY <1>1, <1>19 DEF o, q2, q3, q4, q5, q6, q7

\* The child of o, if it is there for this Route, is as o writes it.
AsWritten(o, uid) ==
    LET c == children[o.ids[1]] IN c # Nil /\ c.uid = uid => c.body = o.body

\* A child that this Reconcile has written without an error may be deleted meanwhile,
\* but has not been changed.
WritesKept ==
    job # Nil =>
        /\ pc \in Before => job.step = 1
        /\ pc = "status" /\ job.verdict = "healthy" => \A k \in DOMAIN Plan : k < job.step
        /\ pc \in {"children", "status"} /\ job.verdict = "healthy" /\ ~job.failed =>
             \A k \in DOMAIN Plan :
               k < job.step /\ Plan[k].op = "put" => AsWritten(Plan[k], job.base.uid)

\* The operation on the VirtualService writes one child.
LEMMA VirtualWrites ==
    ASSUME NEW r, NEW spec, NEW canary, NEW o, o = reconcileVirtualService(r, spec, canary)
    PROVE  /\ o.op = "put" /\ o.ids[1] = Child("VirtualService", r.ns, r.name)
           /\ o.ids[1].kind = "VirtualService"
           /\ \A id : id \in Names(o) <=> id = o.ids[1]
<1>1. PICK id, body : id = Child("VirtualService", r.ns, r.name) /\ o = Put(id, body)
  BY DEF reconcileVirtualService
<1>2. o.op = "put" /\ o.ids = <<id>>
  BY <1>1 DEF Put
<1>3. o.ids[1] = id /\ Names(o) = {id}
  BY <1>2 DEF Names
<1>4. id.kind = "VirtualService"
  BY <1>1 DEF Child
<1>5. QED
  BY <1>1, <1>2, <1>3, <1>4

\* A VirtualService has one HTTP route for each rule.
LEMMA VirtualBody ==
    ASSUME NEW r, NEW spec, NEW canary
    PROVE  reconcileVirtualService(r, spec, canary).body.http
             = [i \in DOMAIN spec.rules |-> virtualHTTPRoute(spec, i, canary)]
BY DEF reconcileVirtualService, Put

\* WritesKept is inductive.
LEMMA StepKept ==
    ASSUME IndicesDiffer, AllInv, AllInv', WritesKept, [Next]_vars
    PROVE  WritesKept'
<1> USE DEF AllInv
<1>1. CASE job' = Nil
  BY <1>1 DEF WritesKept
<1>2. CASE pc' \in Deleting
  BY <1>2 DEF WritesKept, Deleting, Before
<1>3. CASE Waits
  <2>1. PICK uid, p : uid = job.base.uid /\ p = Plan
    OBVIOUS
  <2>2. job' = job /\ pc' = pc /\ Plan' = p
    BY <1>3, <2>1 DEF Waits, Plan
  <2>3. \A id \in ChildIds : children'[id] = children[id] \/ children'[id] = Nil
    BY <1>3 DEF Waits, GarbageCollect, DeleteChild, SetChildren, TypeInv, TypeOK
  <2>4. ASSUME job # Nil, NEW k \in DOMAIN p, p[k].op = "put", AsWritten(p[k], uid) PROVE AsWritten(p[k], uid)'
    <3>1. p[k].ids[1] \in ChildIds
      BY <2>1, <2>4, PlanFacts DEF Names, Writes
    <3>2. QED
      BY <2>3, <2>4, <3>1 DEF AsWritten
  <2>5. QED
    BY <2>1, <2>2, <2>4 DEF WritesKept
<1>4. CASE Evaluates
  <2>1. job' # Nil /\ job'.step = 1 /\ (pc' = "status" => job'.verdict # "healthy")
    BY <1>4 DEF Evaluates, WritesKept
  <2>2. \A k \in DOMAIN Plan' : ~(k < 1)
    <3>1. job'.key \in Routes /\ job'.base.spec \in AllSpecs
      BY <2>1 DEF TypeInv, TypeOK, Jobs, RouteObjects
    <3>2. PICK p, n : n \in Nat /\ p = childPlan(job'.key, job'.base.spec, job'.canary) /\ DOMAIN p = 1 .. n
      BY <3>1, PlanSpread
    <3>3. Plan' = p
      BY <3>2 DEF Plan
    <3>4. QED
      BY <3>2, <3>3
  <2>3. QED
    BY <2>1, <2>2 DEF WritesKept
<1>5. CASE Operates
  <2>1. PICK uid, p, n, x : uid = job.base.uid /\ p = Plan /\ n = job.step /\ x = Operation
    OBVIOUS
  <2>2. PICK succeeded \in BOOLEAN : Advance(succeeded) /\ (succeeded => Done(x, uid)')
    BY <1>5, <2>1, OperationShape
  <2>3. /\ pc = "children" /\ job # Nil /\ n \in DOMAIN p
        /\ \A id \in ChildIds \ Names(x) : children'[id] = children[id]
    BY <1>5, <2>1, OperationShape
  <2>4. /\ job' # Nil /\ job'.key = job.key /\ job'.base = job.base /\ job'.canary = job.canary
        /\ job'.verdict = job.verdict /\ n \in Nat /\ job'.step = n + 1
        /\ job'.failed = (job.failed \/ ~succeeded)
        /\ Plan' = p
        /\ pc' = IF n + 1 \in DOMAIN p THEN "children" ELSE "status"
    BY <2>1, <2>2, <2>3, AdvanceShape
  <2>5. /\ DOMAIN p = 1 .. Len(p) /\ Len(p) \in Nat /\ x = p[n]
        /\ \A k \in DOMAIN p : Writes(p[k]) /\ Names(p[k]) \subseteq ChildIds
        /\ \A j, k \in DOMAIN p : j # k => Names(p[j]) \cap Names(p[k]) = {}
    BY <2>1, <2>3, PlanFacts DEF Operation
  <2>6. pc' = "status" => \A k \in DOMAIN p : k < n + 1
    BY <2>3, <2>4, <2>5
  <2>7. ASSUME job.verdict = "healthy", ~job.failed, succeeded,
               NEW k \in DOMAIN p, k < n + 1, p[k].op = "put"
        PROVE  AsWritten(p[k], uid)'
    <3>1. CASE k = n
      BY <2>2, <2>5, <2>7, <3>1 DEF Done, AsWritten
    <3>2. CASE k # n
      <4>1. k < n
        BY <2>4, <2>5, <2>7, <3>2
      <4>2. AsWritten(p[k], uid)
        BY <2>1, <2>3, <2>7, <4>1 DEF WritesKept
      <4>3. p[k].ids[1] \in Names(p[k])
        BY <2>5, <2>7 DEF Names, Writes
      <4>4. p[k].ids[1] \in ChildIds \ Names(x)
        BY <2>3, <2>5, <3>2, <4>3
      <4>5. children'[p[k].ids[1]] = children[p[k].ids[1]]
        BY <2>3, <4>4
      <4>6. QED
        BY <4>2, <4>5 DEF AsWritten
    <3>3. QED
      BY <3>1, <3>2
  <2>8. pc' \in {"children", "status"} /\ ~job'.failed => succeeded /\ ~job.failed
    BY <2>4
  <2>9. QED
    BY <2>1, <2>4, <2>6, <2>7, <2>8 DEF WritesKept, Before
<1>6. QED
  BY <1>1, <1>2, <1>3, <1>4, <1>5, WorkCases

\* A Route with a rollback policy has a VirtualService for some other reason than its
\* canary, and its canary backend is not also the backend of one of its rules.
PoliciesDistinct ==
    \A s \in AllSpecs : HasPolicy(s) =>
        /\ ~(s.timeout = "" /\ s.cors = Nil /\ s.retries = Nil)
        /\ \A i \in DOMAIN s.rules : s.rules[i].backend # s.canary.backend

\* The VirtualServices of a Route all have the one name.
LEMMA VirtualNamed ==
    ASSUME NEW r \in Routes, NEW id \in OwnNames(r), id.kind = "VirtualService"
    PROVE  id = Child("VirtualService", r.ns, r.name)
<1>1. PICK s \in AllSpecs : \E c \in {s.canary, Nil} : id \in PlanNames(childPlan(r, s, c))
  BY DEF OwnNames
<1>2. PICK c \in {s.canary, Nil} : id \in PlanNames(childPlan(r, s, c))
  BY <1>1
<1>3. PICK p, o : p = childPlan(r, s, c) /\ o = reconcileVirtualService(r, s, c)
  OBVIOUS
<1>4. PICK k \in DOMAIN p : id \in Names(p[k])
  BY <1>2, <1>3 DEF PlanNames
<1>5. DOMAIN p = 1 .. Len(p) /\ OnlyVirtual(p, o)
  BY <1>3, PlanSpread, VirtualPlanned
<1>6. p[k] = o
  BY <1>4, <1>5 DEF OnlyVirtual
<1>7. \A x \in Names(o) : x = Child("VirtualService", r.ns, r.name)
  BY <1>3, VirtualWrites
<1>8. QED
  BY <1>4, <1>6, <1>7

\* What the plan of a rolled back Route writes is in the cluster when the status is
\* about to be written, unless somebody has deleted it.
LEMMA PlanStored ==
    ASSUME AllInv, WritesKept, pc = "status", job.verdict = "healthy", ~job.failed, job.canary = Nil,
           NEW o, o.op = "put", Includes(childPlan(job.key, job.base.spec, Nil), o)
    PROVE  AsWritten(o, job.base.uid)
<1> USE DEF AllInv
<1>1. job # Nil /\ job.key \in Routes /\ job.base.spec \in AllSpecs
  BY DEF TypeInv, TypeOK, JobInv, Jobs, RouteObjects, Working
<1>2. PICK p : p = Plan /\ p = childPlan(job.key, job.base.spec, Nil)
  BY DEF Plan
<1>3. PICK k \in DOMAIN p : p[k] = o
  <2>1. DOMAIN p = 1 .. Len(p)
    BY <1>1, <1>2, PlanSpread
  <2>2. QED
    BY <1>2, <2>1 DEF Includes
<1>4. QED
  BY <1>1, <1>2, <1>3 DEF WritesKept

\* What the children of a Route are when a rollback is in force and its status is
\* about to be written.
LEMMA RolledBack ==
    ASSUME PoliciesDistinct, AllInv, ChildrenOwned, WritesKept
    PROVE  RollbackIsStableOnly
<1> USE DEF AllInv
<1> SUFFICES ASSUME pc = "status", job.verdict = "healthy", ~job.failed, HasPolicy(job.base.spec),
                    job.canary = Nil, NEW id \in ChildIds, children[id] # Nil,
                    children[id].uid = job.base.uid
             PROVE  /\ id.kind = "VirtualService" =>
                         \A i \in DOMAIN children[id].body.http :
                           \A d \in ToSet(children[id].body.http[i].to) :
                             d.to # job.base.spec.canary.backend
                    /\ id \in RuleRoutes(job.key, job.base.spec) =>
                         \A d \in ToSet(children[id].body.to) : d.to # job.base.spec.canary.backend
  BY DEF RollbackIsStableOnly
<1>1. PICK r, s, p : r = job.key /\ s = job.base.spec /\ p = childPlan(r, s, Nil)
  OBVIOUS
<1>2. job # Nil /\ job \in Jobs /\ r \in Routes /\ s \in AllSpecs /\ job.base.finalizer /\ ~job.base.deleting
  BY <1>1 DEF TypeInv, TypeOK, JobInv, Jobs, RouteObjects, Working, GuardInv, WorkerInv, Deleting
<1>3. routes[r] # Nil /\ routes[r].uid = job.base.uid
  BY <1>1, <1>2 DEF GuardInv, WorkGuarded, Held
<1>4. ASSUME id.kind = "VirtualService", NEW i \in DOMAIN children[id].body.http,
             NEW d \in ToSet(children[id].body.http[i].to)
      PROVE  d.to # s.canary.backend
  <2>1. id = Child("VirtualService", r.ns, r.name)
    <3>1. id \in OwnNames(r)
      BY <1>2, <1>3 DEF ChildrenOwned
    <3>2. QED
      BY <1>2, <1>4, <3>1, VirtualNamed
  <2>2. PICK o : o = reconcileVirtualService(r, s, Nil)
    OBVIOUS
  <2>3. Includes(p, o)
    BY <1>1, <1>2, <2>2, PlanIncludes DEF PoliciesDistinct
  <2>4. /\ o.op = "put" /\ o.ids[1] = id
        /\ o.body.http = [j \in DOMAIN s.rules |-> virtualHTTPRoute(s, j, Nil)]
    BY <2>1, <2>2, VirtualWrites, VirtualBody
  <2>5. AsWritten(o, job.base.uid)
    BY <1>1, <2>3, <2>4, PlanStored
  <2>6. children[id].body = o.body
    BY <2>4, <2>5 DEF AsWritten
  <2>7. i \in DOMAIN s.rules /\ children[id].body.http[i] = virtualHTTPRoute(s, i, Nil)
    BY <1>4, <2>4, <2>6
  <2>8. virtualHTTPRoute(s, i, Nil).to = << [to |-> s.rules[i].backend, weight |-> 0] >>
    BY DEF virtualHTTPRoute, buildIstioRouteDestinations
  <2>9. d.to = s.rules[i].backend
    BY <1>4, <2>7, <2>8 DEF ToSet
  <2>10. QED
    BY <1>1, <1>2, <2>7, <2>9 DEF PoliciesDistinct
<1>5. ASSUME id \in RuleRoutes(r, s), NEW d \in ToSet(children[id].body.to)
      PROVE  d.to # s.canary.backend
  <2>1. PICK i \in DOMAIN s.rules : id = Child("HTTPRoute", r.ns, r.name \o <<Index(i)>>)
    BY <1>5 DEF RuleRoutes
  <2>2. PICK o, body : o = reconcileHTTPRoute(r, s, i, Nil) /\ o = Put(id, body)
                       /\ body.to = backendRefs(s.rules[i].backend, Nil)
    BY <2>1 DEF reconcileHTTPRoute
  <2>3. Includes(p, o)
    BY <1>1, <1>2, <2>2, PlanIncludes
  <2>4. o.op = "put" /\ o.ids[1] = id /\ o.body = body
    BY <2>2 DEF Put
  <2>5. AsWritten(o, job.base.uid)
    BY <1>1, <2>3, <2>4, PlanStored
  <2>6. children[id].body = body
    BY <2>4, <2>5 DEF AsWritten
  <2>7. body.to = << [to |-> s.rules[i].backend, weight |-> Nil] >>
    BY <2>2 DEF backendRefs
  <2>8. d.to = s.rules[i].backend
    BY <1>5, <2>6, <2>7 DEF ToSet
  <2>9. QED
    BY <1>1, <1>2, <2>8 DEF PoliciesDistinct
<1>6. QED
  BY <1>1, <1>4, <1>5

\* While a rollback is in force, neither the VirtualService of the Route nor the
\* HTTPRoute of any of its rules sends anything to its canary once the children have
\* been written without an error: whatever an earlier Reconcile had written, whatever
\* fails, and whoever deletes children meanwhile.  It takes that something else than
\* the canary asks for a VirtualService, without which an earlier one stays as it was.
THEOREM RollbackSafety ==
    PoliciesDistinct /\ IndicesDiffer => (Spec => []RollbackIsStableOnly)
<1> SUFFICES ASSUME PoliciesDistinct, IndicesDiffer PROVE Spec => []RollbackIsStableOnly
  OBVIOUS
<1> DEFINE Inv == ChildrenOwned /\ WritesKept
<1>1. Init => Inv
  <2>1. Init => Existing = {}
    BY DEF Init, Existing
  <2>2. QED
    BY <2>1, FS_EmptySet DEF Init, ChildrenOwned, WritesKept
<1>2. AllInv /\ AllInv' /\ Inv /\ [Next]_vars => Inv'
  BY StepOwned, StepKept
<1>3. AllInv /\ Inv => RollbackIsStableOnly
  BY RolledBack
<1>4. QED
  <2> HIDE DEF Inv
  <2>1. QED
    BY <1>1, <1>2, <1>3, Invariance, PTL DEF Spec

-----------------------------------------------------------------------------
(* What the children of an Active Route do.                                *)

\* A child that the plan of a Route asks for is there and says what it should.
LEMMA PutStored ==
    ASSUME TypeInv, NEW r \in Routes, routes[r] # Nil, NEW s, s = routes[r].spec, InSync(r, s.canary),
           NEW kind, NEW ns, NEW name, NEW body,
           Includes(childPlan(r, s, s.canary), Put(Child(kind, ns, name), body))
    PROVE  body \in OwnBodies(r, kind)
<1>1. PICK p, id, o, uid : /\ p = childPlan(r, s, s.canary) /\ id = Child(kind, ns, name)
                           /\ o = Put(id, body) /\ uid = routes[r].uid
  OBVIOUS
<1>2. PICK k \in 1 .. Len(p) : p[k] = o
  BY <1>1 DEF Includes
<1>3. s \in AllSpecs
  BY DEF TypeInv, TypeOK, RouteObjects
<1>4. k \in DOMAIN p
  BY <1>1, <1>2, <1>3, PlanSpread
<1>5. Done(o, uid)
  BY <1>1, <1>2, <1>4 DEF InSync
<1>6. o.op = "put" /\ o.ids = <<id>> /\ o.body = body
  BY <1>1 DEF Put
<1>7. id.kind = kind
  BY <1>1 DEF Child
<1>8. children[id] # Nil /\ children[id].uid = uid /\ children[id].body = body
  BY <1>5, <1>6 DEF Done
<1>9. id \in ChildIds
  <2>1. Names(o) \subseteq ChildIds
    BY <1>1, <1>2, <1>3, <1>4, RoutePlan
  <2>2. 1 \in DOMAIN o.ids /\ o.ids[1] = id
    BY <1>6
  <2>3. QED
    BY <2>1, <2>2 DEF Names
<1>10. QED
  BY <1>1, <1>7, <1>8, <1>9 DEF OwnBodies

\* An operation that cannot be carried out is not in the plan of such a Route.
LEMMA NoFailure ==
    ASSUME TypeInv, NEW r \in Routes, routes[r] # Nil, NEW s, s = routes[r].spec, InSync(r, s.canary)
    PROVE  ~Includes(childPlan(r, s, s.canary), Failure)
<1> SUFFICES ASSUME Includes(childPlan(r, s, s.canary), Failure) PROVE FALSE
  OBVIOUS
<1>1. PICK p : p = childPlan(r, s, s.canary)
  OBVIOUS
<1>2. PICK k \in 1 .. Len(p) : p[k] = Failure
  BY <1>1 DEF Includes
<1>3. s \in AllSpecs
  BY DEF TypeInv, TypeOK, RouteObjects
<1>4. k \in DOMAIN p
  BY <1>1, <1>2, <1>3, PlanSpread
<1>5. Done(Failure, routes[r].uid)
  BY <1>1, <1>2, <1>4 DEF InSync
<1>6. Failure.op = "fail"
  BY DEF Failure
<1>7. QED
  BY <1>5, <1>6 DEF Done

\* The targets of a rule have the shares that its specification gives them, in an
\* HTTPRoute as in a VirtualService.
LEMMA SharesRight ==
    ASSUME NEW spec, NEW rule
    PROVE  /\ Shares(backendRefs(rule.backend, spec.canary)) = Split(spec, rule)
           /\ Shares(buildIstioRouteDestinations(rule.backend, spec.canary)) = Split(spec, rule)
<1>1. PICK b, c : b = rule.backend /\ c = spec.canary
  OBVIOUS
<1>2. CASE c = Nil
  <2>1. ASSUME NEW w PROVE Shares(<< [to |-> b, weight |-> w] >>) = {<<b, 100>>}
    <3> DEFINE to == << [to |-> b, weight |-> w] >>
    <3>1. DOMAIN to = {1} /\ Len(to) = 1 /\ to[1].to = b
      OBVIOUS
    <3> HIDE DEF to
    <3>2. Shares(to) = {<<b, 100>>}
      BY <3>1 DEF Shares
    <3>3. QED
      BY <3>2 DEF to
  <2>2. /\ backendRefs(b, c) = << [to |-> b, weight |-> Nil] >>
        /\ buildIstioRouteDestinations(b, c) = << [to |-> b, weight |-> 0] >>
        /\ Split(spec, rule) = {<<b, 100>>}
    BY <1>1, <1>2 DEF backendRefs, buildIstioRouteDestinations, Split
  <2>3. QED
    BY <1>1, <2>1, <2>2
<1>3. CASE c # Nil
  <2>1. PICK x, w, v : x = c.backend /\ w = 100 - c.weight /\ v = c.weight
    OBVIOUS
  <2> DEFINE to == << [to |-> b, weight |-> w], [to |-> x, weight |-> v] >>
  <2>2. /\ DOMAIN to = {1, 2} /\ Len(to) = 2
        /\ to[1].to = b /\ to[1].weight = w /\ to[2].to = x /\ to[2].weight = v
    OBVIOUS
  <2> HIDE DEF to
  <2>3. Shares(to) = {<<b, w>>, <<x, v>>}
    BY <2>2 DEF Shares
  <2>4. backendRefs(b, c) = to /\ buildIstioRouteDestinations(b, c) = to
    BY <1>3, <2>1 DEF backendRefs, buildIstioRouteDestinations, to
  <2>5. Split(spec, rule) = {<<b, w>>, <<x, v>>}
    BY <1>1, <1>3, <2>1 DEF Split
  <2>6. QED
    BY <1>1, <2>3, <2>4, <2>5
<1>4. QED
  BY <1>2, <1>3

\* A list made from the sorted keys of a map has the pairs of the map.
LEMMA PairsListed ==
    ASSUME NEW m \in HeaderMaps
    PROVE  ToSet([k \in DOMAIN sortedMapKeys(m) |->
                    [name |-> sortedMapKeys(m)[k], value |-> m[sortedMapKeys(m)[k]]]]) = Pairs(m)
<1>1. PICK keys, names : keys = sortedMapKeys(m) /\ names = mapKeys(m)
  OBVIOUS
<1>2. \A x : x \in names <=> \E k \in DOMAIN keys : keys[k] = x
  BY <1>1, KeysListed
<1> DEFINE list == [k \in DOMAIN keys |-> [name |-> keys[k], value |-> m[keys[k]]]]
<1>3. DOMAIN list = DOMAIN keys /\ \A k \in DOMAIN keys : list[k] = [name |-> keys[k], value |-> m[keys[k]]]
  OBVIOUS
<1> HIDE DEF list
<1>4. \A x : x \in ToSet(list) <=> \E k \in DOMAIN keys : x = [name |-> keys[k], value |-> m[keys[k]]]
  BY <1>3 DEF ToSet
<1>5. \A x : x \in Pairs(m) <=> \E n \in names : x = [name |-> n, value |-> m[n]]
  BY <1>1 DEF Pairs
<1>6. \A x : x \in ToSet(list) <=> x \in Pairs(m)
  BY <1>2, <1>4, <1>5
<1>7. ToSet(list) = Pairs(m)
  <2>1. ToSet(list) \subseteq Pairs(m) /\ Pairs(m) \subseteq ToSet(list)
    BY <1>6
  <2>2. QED
    BY <2>1
<1>8. QED
  BY <1>1, <1>7 DEF list

\* Each part of the headers that asks for something has its filter.
LEMMA FiltersPresent ==
    ASSUME NEW headers, headers # Nil, NEW type, NEW ops, hasHeaderOperations(ops),
           \/ type = "RequestHeaderModifier" /\ ops = headers.request
           \/ type = "ResponseHeaderModifier" /\ ops = headers.response
    PROVE  [type |-> type, modifier |-> buildGatewayHTTPHeaderFilter(ops)]
             \in ToSet(buildGatewayHTTPHeaderFilters(headers))
<1>1. PICK f : f = [type |-> type, modifier |-> buildGatewayHTTPHeaderFilter(ops)]
  OBVIOUS
<1> DEFINE part(t, o) == IF ~hasHeaderOperations(o) THEN <<>>
                         ELSE << [type |-> t, modifier |-> buildGatewayHTTPHeaderFilter(o)] >>
<1>2. PICK p, q : /\ p = part("RequestHeaderModifier", headers.request)
                  /\ q = part("ResponseHeaderModifier", headers.response)
  OBVIOUS
<1>3. buildGatewayHTTPHeaderFilters(headers) = p \o q
  BY <1>2 DEF buildGatewayHTTPHeaderFilters
<1>4. p = <<f>> \/ q = <<f>>
  BY <1>1, <1>2
<1>5. Includes(p, f) \/ Includes(q, f)
  BY <1>4 DEF Includes
<1>6. Includes(p \o q, f)
  BY <1>5, IncludesConcatenated
<1>7. f \in ToSet(p \o q)
  <2>1. PICK k \in 1 .. Len(p \o q) : (p \o q)[k] = f
    BY <1>6 DEF Includes
  <2>2. DOMAIN (p \o q) = 1 .. Len(p \o q)
    BY <1>2, <1>4
  <2>3. QED
    BY <2>1, <2>2 DEF ToSet
<1>8. QED
  BY <1>1, <1>3, <1>7

\* The builders ask whether there are header operations as a user does.
LEMMA AskedMeans ==
    ASSUME NEW ops
    PROVE  Asked(ops) <=> hasHeaderOperations(ops)
<1>1. \A m : Pairs(m) = {} <=> mapKeys(m) = {}
  BY DEF Pairs
<1>2. QED
  BY <1>1 DEF Asked, hasHeaderOperations

\* The filters of an HTTPRoute carry out the header operations of its rule.
LEMMA HeadersModified ==
    ASSUME NEW filters, NEW type, NEW ops \in HeaderOperations,
           hasHeaderOperations(ops) =>
             [type |-> type, modifier |-> buildGatewayHTTPHeaderFilter(ops)] \in ToSet(filters)
    PROVE  Modified(filters, type, ops)
<1>1. CASE ~hasHeaderOperations(ops)
  BY <1>1, AskedMeans DEF Modified
<1>2. CASE hasHeaderOperations(ops)
  <2> DEFINE list(m) == [k \in DOMAIN sortedMapKeys(m) |->
                           [name |-> sortedMapKeys(m)[k], value |-> m[sortedMapKeys(m)[k]]]]
  <2>1. PICK a, b : a = list(ops.set) /\ b = list(ops.add)
    OBVIOUS
  <2>2. ToSet(a) = Pairs(ops.set) /\ ToSet(b) = Pairs(ops.add)
    <3>1. ops.set \in HeaderMaps /\ ops.add \in HeaderMaps
      BY <1>2 DEF HeaderOperations, hasHeaderOperations
    <3>2. QED
      BY <2>1, <3>1, PairsListed
  <2>3. buildGatewayHTTPHeaderFilter(ops) = [set |-> a, add |-> b, remove |-> ops.remove]
    BY <1>2, <2>1 DEF buildGatewayHTTPHeaderFilter
  <2>4. PICK f : f = [type |-> type, modifier |-> [set |-> a, add |-> b, remove |-> ops.remove]]
    OBVIOUS
  <2>5. f \in ToSet(filters) /\ f.type = type /\ f.modifier.set = a /\ f.modifier.add = b
        /\ f.modifier.remove = ops.remove
    BY <1>2, <2>3, <2>4
  <2>6. QED
    BY <2>2, <2>5 DEF Modified
<1>3. QED
  BY <1>1, <1>2

\* A Route whose children are in place.
InPlace(r, s) ==
    /\ r \in Routes /\ routes[r] # Nil /\ s = routes[r].spec
    /\ InSync(r, s.canary)

\* A rule has its type, and its host is on the list of hosts.
LEMMA RuleListed ==
    ASSUME NEW s \in AllSpecs, NEW i \in DOMAIN s.rules, NEW rule, rule = s.rules[i]
    PROVE  /\ rule \in RouteRules
           /\ \E h \in Nat : DOMAIN uniqueHostsFromRules(s.rules) = 1 .. h
           /\ \E k \in DOMAIN uniqueHostsFromRules(s.rules) : uniqueHostsFromRules(s.rules)[k] = rule.host
           /\ DOMAIN s.rules = 1 .. Len(s.rules) /\ Len(s.rules) \in Nat
<1>1. s.rules \in Seq(RouteRules)
  BY MutatedType DEF RouteSpecs
<1>2. DOMAIN s.rules = 1 .. Len(s.rules) /\ Len(s.rules) \in Nat /\ rule \in RouteRules
  BY <1>1
<1>3. QED
  BY <1>2, HostsListed

\* Children in sync route a rule with its weights and headers.
LEMMA ServesRouted ==
    ASSUME TypeInv, NEW r, NEW s, InPlace(r, s), NEW i \in DOMAIN s.rules, NEW rule, rule = s.rules[i]
    PROVE  RuleRouted(r, s, rule)
<1> USE DEF InPlace
<1>1. s \in AllSpecs
  BY DEF TypeInv, TypeOK, RouteObjects
<1>2. PICK b, id : /\ b = [gateway |-> gatewayRef(s), section |-> "https", host |-> rule.host,
                           path |-> IF rule.path = <<>> THEN <<"/">> ELSE rule.path,
                           filters |-> buildGatewayHTTPHeaderFilters(rule.headers),
                           to |-> backendRefs(rule.backend, s.canary)]
                   /\ id = r.name \o <<Index(i)>>
  OBVIOUS
<1>3. reconcileHTTPRoute(r, s, i, s.canary) = Put(Child("HTTPRoute", r.ns, id), b)
  BY <1>2 DEF reconcileHTTPRoute
<1>4. b \in OwnBodies(r, "HTTPRoute")
  <2>1. Includes(childPlan(r, s, s.canary), reconcileHTTPRoute(r, s, i, s.canary))
    BY <1>1, PlanIncludes
  <2>2. QED
    BY <1>3, <2>1, PutStored
<1>5. /\ b.gateway = gatewayRef(s)
      /\ b.section = "https" /\ b.host = rule.host /\ b.path = PathOf(rule)
      /\ b.to = backendRefs(rule.backend, s.canary)
      /\ b.filters = buildGatewayHTTPHeaderFilters(rule.headers)
  BY <1>2 DEF PathOf
<1>6. Shares(b.to) = Split(s, rule)
  BY <1>5, SharesRight
<1>7. ASSUME rule.headers # Nil, NEW type, NEW ops,
             <<type, ops>> \in { <<"RequestHeaderModifier", rule.headers.request>>,
                                 <<"ResponseHeaderModifier", rule.headers.response>> }
      PROVE  Modified(b.filters, type, ops)
  <2>1. rule.headers.request \in HeaderOperations /\ rule.headers.response \in HeaderOperations
    BY <1>1, <1>7, RuleListed DEF RouteRules, RouteHeaders
  <2>2. \/ type = "RequestHeaderModifier" /\ ops = rule.headers.request
        \/ type = "ResponseHeaderModifier" /\ ops = rule.headers.response
    BY <1>7
  <2>3. hasHeaderOperations(ops) =>
          [type |-> type, modifier |-> buildGatewayHTTPHeaderFilter(ops)] \in ToSet(b.filters)
    BY <1>5, <1>7, <2>2, FiltersPresent
  <2>4. QED
    BY <2>1, <2>2, <2>3, HeadersModified
<1>8. rule.headers # Nil =>
        /\ Modified(b.filters, "RequestHeaderModifier", rule.headers.request)
        /\ Modified(b.filters, "ResponseHeaderModifier", rule.headers.response)
  BY <1>7
<1>9. QED
  BY <1>4, <1>5, <1>6, <1>8 DEF RuleRouted

\* They redirect its host to HTTPS.
LEMMA ServesRedirected ==
    ASSUME TypeInv, NEW r, NEW s, InPlace(r, s), NEW i \in DOMAIN s.rules, NEW rule, rule = s.rules[i]
    PROVE  RuleRedirected(r, s, rule)
<1> USE DEF InPlace
<1>1. s \in AllSpecs
  BY DEF TypeInv, TypeOK, RouteObjects
<1> SUFFICES ASSUME s.ssl # "off"
             PROVE  \E b \in OwnBodies(r, "HTTPRoute") :
                       b.gateway = gatewayRef(s) /\ b.section = "http" /\ b.host = rule.host
  BY DEF RuleRedirected
<1>2. PICK hosts : hosts = uniqueHostsFromRules(s.rules)
  OBVIOUS
<1>3. PICK k \in DOMAIN hosts : hosts[k] = rule.host
  BY <1>1, <1>2, RuleListed
<1>4. PICK b, id : /\ b = [gateway |-> gatewayRef(s), section |-> "http", host |-> rule.host]
                   /\ id = r.name \o <<"redirect", Index(k)>>
  OBVIOUS
<1>5. reconcileRedirectHTTPRoute(r, s, k, hosts[k]) = Put(Child("HTTPRoute", r.ns, id), b)
  BY <1>3, <1>4 DEF reconcileRedirectHTTPRoute
<1>6. Includes(childPlan(r, s, s.canary), reconcileRedirectHTTPRoute(r, s, k, hosts[k]))
  BY <1>1, <1>2, PlanIncludes
<1>7. b \in OwnBodies(r, "HTTPRoute")
  BY <1>5, <1>6, PutStored
<1>8. b.gateway = gatewayRef(s) /\ b.section = "http" /\ b.host = rule.host
  BY <1>4
<1>9. QED
  BY <1>7, <1>8

\* The VirtualService carries the header operations of a rule.
LEMMA HeadersCarried ==
    ASSUME NEW headers, headers # Nil, NEW out, out = buildIstioHeaders(headers)
    PROVE  /\ Asked(headers.request) => out.request = headers.request
           /\ Asked(headers.response) => out.response = headers.response
<1>1. PICK q, p : q = headers.request /\ p = headers.response
  OBVIOUS
<1>2. PICK request, response : /\ request = buildIstioHeaderOperations(q)
                               /\ response = buildIstioHeaderOperations(p)
  OBVIOUS
<1>3. /\ Asked(q) => q # Nil /\ request = q
      /\ Asked(p) => p # Nil /\ response = p
  BY <1>2, AskedMeans DEF Asked, buildIstioHeaderOperations
<1>4. \/ request = Nil /\ response = Nil
      \/ out = [request |-> request, response |-> response]
  BY <1>1, <1>2 DEF buildIstioHeaders
<1>5. QED
  BY <1>1, <1>3, <1>4

\* The conversions of the timeout, of CORS and of the retries.
LEMMA TuningConverted ==
    ASSUME NEW s \in AllSpecs
    PROVE  /\ durationOrUnset(s.timeout) = Duration(s.timeout)
           /\ corsPolicy(s.cors) =
                IF s.cors = Nil THEN Nil
                ELSE [origins |-> s.cors.origins, methods |-> s.cors.methods,
                      headers |-> s.cors.headers, maxAge |-> Duration(s.cors.maxAge)]
           /\ buildIstioHTTPRetry(s.retries) =
                IF s.retries = Nil THEN Nil
                ELSE [attempts |-> s.retries.attempts, retryOn |-> s.retries.retryOn,
                      perTryTimeout |-> Duration(s.retries.perTryTimeout)]
<1>1. \A d : durationOrUnset(d) = Duration(d)
  BY DEF durationOrUnset, parseDuration, Duration
<1>2. s.cors \in RouteCORS \cup {Nil}
  BY MutatedType DEF RouteSpecs
<1>3. ASSUME s.cors # Nil
      PROVE  corsPolicy(s.cors) = [origins |-> s.cors.origins, methods |-> s.cors.methods,
                                   headers |-> s.cors.headers, maxAge |-> Duration(s.cors.maxAge)]
  <2>1. PICK c, d : c = s.cors /\ d = Duration(c.maxAge)
    OBVIOUS
  <2>2. corsPolicy(c) = [c EXCEPT !.maxAge = d]
    BY <1>1, <1>3, <2>1 DEF corsPolicy
  <2>3. c \in RouteCORS
    BY <1>2, <1>3, <2>1
  <2>4. [c EXCEPT !.maxAge = d] = [origins |-> c.origins, methods |-> c.methods,
                                   headers |-> c.headers, maxAge |-> d]
    BY <2>3 DEF RouteCORS
  <2>5. QED
    BY <2>1, <2>2, <2>4
<1>4. s.cors = Nil => corsPolicy(s.cors) = Nil
  BY DEF corsPolicy
<1>5. buildIstioHTTPRetry(s.retries) =
        IF s.retries = Nil THEN Nil
        ELSE [attempts |-> s.retries.attempts, retryOn |-> s.retries.retryOn,
              perTryTimeout |-> Duration(s.retries.perTryTimeout)]
  BY <1>1 DEF buildIstioHTTPRetry
<1>6. QED
  BY <1>1, <1>3, <1>4, <1>5

\* They tune it in the VirtualService.
LEMMA ServesTuned ==
    ASSUME TypeInv, NEW r, NEW s, InPlace(r, s), NEW i \in DOMAIN s.rules, NEW rule, rule = s.rules[i]
    PROVE  RuleTuned(r, s, rule)
<1> USE DEF InPlace
<1>1. s \in AllSpecs
  BY DEF TypeInv, TypeOK, RouteObjects
<1>2. PICK http, hosts : /\ http = [j \in DOMAIN s.rules |-> virtualHTTPRoute(s, j, s.canary)]
                         /\ hosts = uniqueHostsFromRules(s.rules)
  OBVIOUS
<1>3. PICK b : b = [gateway |-> gatewayRef(s), hosts |-> hosts, http |-> http]
  OBVIOUS
<1>4. reconcileVirtualService(r, s, s.canary) = Put(Child("VirtualService", r.ns, r.name), b)
  BY <1>2, <1>3 DEF reconcileVirtualService
<1>5. ASSUME s.timeout # "" \/ s.cors # Nil \/ s.retries # Nil \/ s.canary # Nil
      PROVE  b \in OwnBodies(r, "VirtualService")
  <2>1. Includes(childPlan(r, s, s.canary), reconcileVirtualService(r, s, s.canary))
    BY <1>1, <1>5, PlanIncludes
  <2>2. QED
    BY <1>4, <2>1, PutStored
<1>6. b.gateway = gatewayRef(s) /\ b.hosts = hosts /\ b.http = http
  BY <1>3
<1>7. rule.host \in ToSet(b.hosts)
  BY <1>1, <1>2, <1>6, RuleListed DEF ToSet
<1>8. PICK h : h = virtualHTTPRoute(s, i, s.canary)
  OBVIOUS
<1>9. h \in ToSet(b.http)
  BY <1>2, <1>6, <1>8 DEF ToSet
<1>10. /\ h.host = rule.host /\ h.path = PathOf(rule)
       /\ h.to = buildIstioRouteDestinations(rule.backend, s.canary)
       /\ h.timeout = durationOrUnset(s.timeout) /\ h.cors = corsPolicy(s.cors)
       /\ h.retries = buildIstioHTTPRetry(s.retries)
       /\ h.headers = buildIstioHeaders(rule.headers)
  BY <1>8 DEF virtualHTTPRoute, PathOf
<1>11. Shares(h.to) = Split(s, rule)
  BY <1>10, SharesRight
<1>12. rule.headers # Nil =>
         /\ Asked(rule.headers.request) => h.headers.request = rule.headers.request
         /\ Asked(rule.headers.response) => h.headers.response = rule.headers.response
  BY <1>10, HeadersCarried
<1>13. /\ h.timeout = Duration(s.timeout)
       /\ h.cors = IF s.cors = Nil THEN Nil
                   ELSE [origins |-> s.cors.origins, methods |-> s.cors.methods,
                         headers |-> s.cors.headers, maxAge |-> Duration(s.cors.maxAge)]
       /\ h.retries = IF s.retries = Nil THEN Nil
                      ELSE [attempts |-> s.retries.attempts, retryOn |-> s.retries.retryOn,
                            perTryTimeout |-> Duration(s.retries.perTryTimeout)]
  BY <1>1, <1>10, TuningConverted
<1>14. QED
  BY <1>5, <1>6, <1>7, <1>9, <1>10, <1>11, <1>12, <1>13, Zenon DEF RuleTuned

\* They reach its HTTPS backends with TLS.
LEMMA ServesEncrypted ==
    ASSUME TypeInv, NEW r, NEW s, InPlace(r, s), NEW i \in DOMAIN s.rules, NEW rule, rule = s.rules[i]
    PROVE  RuleEncrypted(r, s, rule)
<1> USE DEF InPlace
<1>1. s \in AllSpecs
  BY DEF TypeInv, TypeOK, RouteObjects
<1> SUFFICES ASSUME NEW pair \in Split(s, rule), pair[1].protocol = "HTTPS"
             PROVE  \E b \in OwnBodies(r, "DestinationRule") :
                       b.service = pair[1].service /\ b.ns = r.ns /\ b.port = pair[1].port
  BY DEF RuleEncrypted
<1>2. PICK tls, backend : tls = httpsBackends(s, s.canary) /\ backend = pair[1]
  OBVIOUS
<1>3. \E k \in DOMAIN routeRuleBackends(rule, s.canary) : routeRuleBackends(rule, s.canary)[k] = backend
  <2>1. CASE s.canary = Nil
    <3>1. backend = rule.backend
      BY <1>2, <2>1 DEF Split
    <3>2. routeRuleBackends(rule, s.canary) = <<rule.backend>>
      BY <2>1 DEF routeRuleBackends
    <3>3. QED
      BY <3>1, <3>2
  <2>2. CASE s.canary # Nil
    <3>1. PICK x, y : x = rule.backend /\ y = s.canary.backend
      OBVIOUS
    <3>2. backend = x \/ backend = y
      BY <1>2, <2>2, <3>1 DEF Split
    <3>3. routeRuleBackends(rule, s.canary) = <<x, y>>
      BY <2>2, <3>1 DEF routeRuleBackends
    <3>4. 1 \in DOMAIN <<x, y>> /\ 2 \in DOMAIN <<x, y>> /\ <<x, y>>[1] = x /\ <<x, y>>[2] = y
      OBVIOUS
    <3>5. QED
      BY <3>2, <3>3, <3>4
  <2>3. QED
    BY <2>1, <2>2
<1>4. PICK k \in 1 .. Len(tls) : tls[k] = backend
  <2>1. PICK j \in DOMAIN routeRuleBackends(rule, s.canary) : routeRuleBackends(rule, s.canary)[j] = backend
    BY <1>3
  <2>2. routeRuleBackends(rule, s.canary)[j].protocol = "HTTPS"
    BY <1>2, <2>1
  <2>3. s \in RouteSpecs
    BY <1>1, MutatedType
  <2>4. PICK canary : canary = s.canary
    OBVIOUS
  <2>5. /\ j \in DOMAIN routeRuleBackends(s.rules[i], canary)
        /\ routeRuleBackends(s.rules[i], canary)[j].protocol = "HTTPS"
    BY <2>1, <2>2, <2>4
  <2>6. routeRuleBackends(s.rules[i], canary)[j] \in ToSet(httpsBackends(s, canary))
    BY <2>3, <2>5, BackendsListed
  <2>7. DOMAIN httpsBackends(s, canary) = 1 .. Len(httpsBackends(s, canary))
    BY <2>3, <2>5, BackendsListed
  <2>8. backend \in ToSet(tls) /\ DOMAIN tls = 1 .. Len(tls)
    BY <1>2, <2>1, <2>4, <2>6, <2>7
  <2>9. QED
    BY <2>8 DEF ToSet
<1>5. PICK b, id : /\ b = [service |-> backend.service, ns |-> r.ns, port |-> backend.port]
                   /\ id = r.name \o <<"tls", Index(k)>>
  OBVIOUS
<1>6. reconcileDestinationRule(r, s, k, tls[k]) = Put(Child("DestinationRule", gatewayRef(s).ns, id), b)
  BY <1>4, <1>5 DEF reconcileDestinationRule
<1>7. Includes(childPlan(r, s, s.canary), reconcileDestinationRule(r, s, k, tls[k]))
  BY <1>1, <1>2, <1>4, PlanIncludes
<1>8. b \in OwnBodies(r, "DestinationRule")
  BY <1>6, <1>7, PutStored
<1>9. b.service = backend.service /\ b.ns = r.ns /\ b.port = backend.port
  BY <1>5
<1>10. QED
  BY <1>2, <1>8, <1>9

\* They limit the size and the rate of its requests.
LEMMA ServesLimited ==
    ASSUME TypeInv, NEW r, NEW s, InPlace(r, s), NEW i \in DOMAIN s.rules, NEW rule, rule = s.rules[i]
    PROVE  RuleLimited(r, s, rule)
<1> USE DEF InPlace
<1>1. s \in AllSpecs
  BY DEF TypeInv, TypeOK, RouteObjects
<1>2. ASSUME s.maxBody # "" PROVE Patched(r, s, rule.host, "buffer", <<s.maxBody>>)
  <2>1. Includes(childPlan(r, s, s.canary), reconcileEnvoyFilter(r, s, i))
    BY <1>1, <1>2, PlanIncludes
  <2>2. PICK x : x = [vhost |-> rule.host, filter |-> "buffer", config |-> <<s.maxBody>>]
    OBVIOUS
  <2>3. PICK b, id : /\ b = [selector |-> gatewayRef(s).name, patches |-> <<x>>]
                     /\ id = r.name \o <<"body", "size", Index(i)>>
    OBVIOUS
  <2>4. \/ reconcileEnvoyFilter(r, s, i) = Failure
        \/ reconcileEnvoyFilter(r, s, i) = Put(Child("EnvoyFilter", gatewayRef(s).ns, id), b)
    BY <2>2, <2>3 DEF reconcileEnvoyFilter
  <2>5. reconcileEnvoyFilter(r, s, i) # Failure
    BY <2>1, NoFailure
  <2>6. b \in OwnBodies(r, "EnvoyFilter")
    BY <2>1, <2>4, <2>5, PutStored
  <2>7. b.selector = gatewayRef(s).name /\ b.patches = <<x>> /\ x \in ToSet(<<x>>)
    BY <2>3 DEF ToSet
  <2>8. x.vhost = rule.host /\ x.filter = "buffer" /\ x.config = <<s.maxBody>>
    BY <2>2
  <2>9. QED
    BY <2>6, <2>7, <2>8 DEF Patched
<1>3. ASSUME s.rate # Nil
      PROVE  /\ Patched(r, s, <<>>, "local_ratelimit", <<>>)
             /\ \E fill \in FillIntervals :
                  /\ fill[1] = s.rate.unit
                  /\ Patched(r, s, rule.host, "local_ratelimit", <<Burst(s.rate), s.rate.requests, fill[2]>>)
  <2>1. Includes(childPlan(r, s, s.canary), reconcileRateLimitEnvoyFilter(r, s))
    BY <1>1, <1>3, PlanIncludes
  <2>2. PICK hosts : hosts = uniqueHostsFromRules(s.rules)
    OBVIOUS
  <2>3. PICK list, all : /\ list = [k \in DOMAIN hosts |-> buildRateLimitRoutePatch(s.rate, hosts[k])]
                         /\ all = <<buildRateLimitHTTPFilterPatch>> \o list
    OBVIOUS
  <2>4. PICK b, id : /\ b = [selector |-> gatewayRef(s).name, patches |-> all]
                     /\ id = r.name \o <<"rate", "limit">>
    OBVIOUS
  <2>5. \/ reconcileRateLimitEnvoyFilter(r, s) = Failure
        \/ reconcileRateLimitEnvoyFilter(r, s) = Put(Child("EnvoyFilter", gatewayRef(s).ns, id), b)
    BY <2>2, <2>3, <2>4 DEF reconcileRateLimitEnvoyFilter, rateLimitEnvoyFilter
  <2>6. reconcileRateLimitEnvoyFilter(r, s) # Failure
    BY <2>1, NoFailure
  <2>7. b \in OwnBodies(r, "EnvoyFilter")
    BY <2>1, <2>5, <2>6, PutStored
  <2>8. PICK k \in DOMAIN hosts : hosts[k] = rule.host
    BY <1>1, <2>2, RuleListed
  <2>9. PICK x : x = buildRateLimitRoutePatch(s.rate, rule.host)
    OBVIOUS
  <2>10. x \in ToSet(all) /\ buildRateLimitHTTPFilterPatch \in ToSet(all)
    <3>1. PICK h \in Nat : DOMAIN hosts = 1 .. h
      BY <1>1, <2>2, RuleListed
    <3>2. Len(list) = h /\ k \in 1 .. Len(list) /\ list[k] = x
      BY <2>3, <2>8, <2>9, <3>1
    <3>3. Includes(list, x)
      BY <3>2 DEF Includes
    <3>4. Includes(all, x)
      BY <2>3, <3>3, IncludesConcatenated
    <3>5. DOMAIN all = 1 .. Len(all)
      BY <2>3
    <3>6. Includes(all, buildRateLimitHTTPFilterPatch)
      <4>1. Includes(<<buildRateLimitHTTPFilterPatch>>, buildRateLimitHTTPFilterPatch)
        BY DEF Includes
      <4>2. QED
        BY <2>3, <4>1, IncludesConcatenated
    <3>7. QED
      BY <3>4, <3>5, <3>6 DEF Includes, ToSet
  <2>11. PICK fill \in FillIntervals : fill[1] = s.rate.unit /\ fill[2] = rateLimitFillInterval(s.rate.unit)
    <3>1. rateLimitFillInterval(s.rate.unit) # Nil
      BY <2>6 DEF reconcileRateLimitEnvoyFilter
    <3>2. s.rate.unit \in {"Second", "Minute", "Hour"}
      BY <3>1 DEF rateLimitFillInterval
    <3>3. <<s.rate.unit, rateLimitFillInterval(s.rate.unit)>> \in FillIntervals
      BY <3>2 DEF rateLimitFillInterval, FillIntervals
    <3>4. QED
      BY <3>3
  <2>12. x.vhost = rule.host /\ x.filter = "local_ratelimit"
    BY <2>9 DEF buildRateLimitRoutePatch
  <2>13. x.config = <<Burst(s.rate), s.rate.requests, fill[2]>>
    BY <2>9, <2>11 DEF buildRateLimitRoutePatch, Burst
  <2>14. b.patches = all /\ b.selector = gatewayRef(s).name
    BY <2>4
  <2>15. /\ buildRateLimitHTTPFilterPatch.vhost = <<>> /\ buildRateLimitHTTPFilterPatch.config = <<>>
         /\ buildRateLimitHTTPFilterPatch.filter = "local_ratelimit"
    BY DEF buildRateLimitHTTPFilterPatch
  <2>16. Patched(r, s, <<>>, "local_ratelimit", <<>>)
    BY <2>7, <2>10, <2>14, <2>15 DEF Patched
  <2>17. Patched(r, s, rule.host, "local_ratelimit", <<Burst(s.rate), s.rate.requests, fill[2]>>)
    BY <2>7, <2>10, <2>12, <2>13, <2>14 DEF Patched
  <2>18. QED
    BY <2>11, <2>16, <2>17
<1>4. QED
  BY <1>2, <1>3 DEF RuleLimited

\* One part more at the end of a sequence.
LEMMA OneMore ==
    ASSUME NEW S, NEW t \in Seq(S), NEW x \in S
    PROVE  /\ t \o <<x>> \in Seq(S) /\ Len(t \o <<x>>) = Len(t) + 1
           /\ (t \o <<x>>)[Len(t) + 1] = x /\ \A k \in 1 .. Len(t) : (t \o <<x>>)[k] = t[k]
<1>1. PICK p : p = <<x>>
  OBVIOUS
<1>2. p \in Seq(S) /\ Len(p) = 1 /\ p[1] = x
  BY <1>1
<1>3. \A q \in Seq(S) : t \o q \in Seq(S) /\ Len(t \o q) = Len(t) + Len(q)
  OBVIOUS
<1>4. \A q \in Seq(S) : /\ \A k \in 1 .. Len(t) : (t \o q)[k] = t[k]
                        /\ 1 <= Len(q) => (t \o q)[Len(t) + 1] = q[1]
  OBVIOUS
<1>5. t \o p \in Seq(S) /\ Len(t \o p) = Len(t) + Len(p)
  BY <1>2, <1>3, Zenon
<1>6. (\A k \in 1 .. Len(t) : (t \o p)[k] = t[k]) /\ (1 <= Len(p) => (t \o p)[Len(t) + 1] = p[1])
  BY <1>2, <1>4, Zenon
<1>7. 1 <= Len(p)
  BY <1>2
<1>8. Len(t \o p) = Len(t) + 1
  BY <1>2, <1>5, Zenon
<1>9. (t \o p)[Len(t) + 1] = x
  BY <1>2, <1>6, <1>7, Zenon
<1>10. QED
  BY <1>1, <1>5, <1>6, <1>8, <1>9, Zenon

\* Two sequences of one part, one after the other.
LEMMA JoinTwo ==
    ASSUME NEW x, NEW y
    PROVE  <<x>> \o <<y>> = <<x, y>>
<1>1. PICK p, v, S : p = <<x>> /\ v = <<x, y>> /\ S = {x, y}
  OBVIOUS
<1>2. /\ p \in Seq(S) /\ Len(p) = 1 /\ p[1] = x
      /\ v \in Seq(S) /\ Len(v) = 2 /\ v[1] = x /\ v[2] = y
  BY <1>1
<1>3. PICK u : u = p \o <<y>>
  OBVIOUS
<1>4. u \in Seq(S) /\ Len(u) = 2 /\ u[1] = x /\ u[2] = y
  <2>1. y \in S
    BY <1>1
  <2>2. QED
    BY <1>2, <1>3, <2>1, OneMore
<1>5. u = v
  BY <1>2, <1>4
<1>6. QED
  BY <1>1, <1>3, <1>5

\* A sequence that ends with x is what is before, and x.
LEMMA LastPart ==
    ASSUME NEW A, NEW path \in Seq(A), path # <<>>, NEW x, path[Len(path)] = x
    PROVE  SubSeq(path, 1, Len(path) - 1) \o <<x>> = path
<1>1. PICK n, S : n \in Nat /\ n + 1 = Len(path) /\ S = {path[k] : k \in 1 .. Len(path)}
  <2>1. Len(path) \in Nat /\ Len(path) # 0
    OBVIOUS
  <2>2. Len(path) - 1 \in Nat /\ (Len(path) - 1) + 1 = Len(path)
    BY <2>1
  <2>3. QED
    BY <2>2
<1>2. path \in Seq(S) /\ x \in S
  <2>1. \A k \in 1 .. Len(path) : path[k] \in S
    BY <1>1
  <2>2. Len(path) \in 1 .. Len(path)
    BY <1>1
  <2>3. path \in Seq(S)
    BY <2>1
  <2>4. QED
    BY <2>1, <2>2, <2>3
<1>3. PICK t : t = SubSeq(path, 1, n)
  OBVIOUS
<1>4. t \in Seq(S) /\ Len(t) = n /\ \A k \in 1 .. n : t[k] = path[k]
  BY <1>1, <1>2, <1>3
<1>5. PICK u : u = t \o <<x>>
  OBVIOUS
<1>6. u \in Seq(S) /\ Len(u) = n + 1 /\ u[n + 1] = x /\ \A k \in 1 .. n : u[k] = t[k]
  BY <1>2, <1>4, <1>5, OneMore
<1>7. \A k \in 1 .. Len(path) : u[k] = path[k]
  <2>1. \A k \in 1 .. n : u[k] = path[k]
    BY <1>4, <1>6
  <2>2. u[n + 1] = path[n + 1]
    BY <1>1, <1>6
  <2>3. QED
    BY <1>1, <2>1, <2>2
<1>8. u = path
  BY <1>1, <1>2, <1>6, <1>7
<1>9. Len(path) - 1 = n
  BY <1>1
<1>10. QED
  BY <1>3, <1>5, <1>8, <1>9

\* The pattern of a policy has one star, at its end.
LEMMA PatternStarred ==
    ASSUME NEW rule \in RouteRules
    PROVE  authzPathPattern(rule.path) = WithoutStar(PathOf(rule)) \o <<"*">>
<1>1. PICK path \in Seq(STRING) : path = rule.path
  BY DEF RouteRules
<1>2. CASE path = <<>> \/ path = <<"/">>
  <2>1. PathOf(rule) = <<"/">>
    BY <1>1, <1>2 DEF PathOf
  <2>2. Len(<<"/">>) = 1 /\ <<"/">>[1] = "/"
    OBVIOUS
  <2>3. WithoutStar(<<"/">>) = <<"/">>
    BY <2>2 DEF WithoutStar
  <2>4. <<"/">> \o <<"*">> = <<"/", "*">>
    BY JoinTwo
  <2>5. authzPathPattern(path) = <<"/", "*">>
    BY <1>2 DEF authzPathPattern
  <2>6. QED
    BY <1>1, <2>1, <2>3, <2>4, <2>5
<1>3. CASE path # <<>> /\ path # <<"/">>
  <2>1. PathOf(rule) = path
    BY <1>1, <1>3 DEF PathOf
  <2>2. CASE path[Len(path)] = "*"
    <3>1. authzPathPattern(path) = path
      BY <1>3, <2>2 DEF authzPathPattern
    <3>2. WithoutStar(path) = SubSeq(path, 1, Len(path) - 1)
      BY <2>2 DEF WithoutStar
    <3>3. SubSeq(path, 1, Len(path) - 1) \o <<"*">> = path
      BY <1>3, <2>2, LastPart
    <3>4. QED
      BY <1>1, <2>1, <3>1, <3>2, <3>3
  <2>3. CASE path[Len(path)] # "*"
    BY <1>1, <1>3, <2>1, <2>3 DEF authzPathPattern, WithoutStar
  <2>4. QED
    BY <2>2, <2>3
<1>4. QED
  BY <1>2, <1>3

\* They let through only what the issuer vouches for.
LEMMA ServesProtected ==
    ASSUME TypeInv, NEW r, NEW s, InPlace(r, s), NEW i \in DOMAIN s.rules, NEW rule, rule = s.rules[i]
    PROVE  RuleProtected(r, s, rule)
<1> USE DEF InPlace
<1>1. s \in AllSpecs
  BY DEF TypeInv, TypeOK, RouteObjects
<1> SUFFICES ASSUME s.auth # Nil
             PROVE  /\ \E b \in OwnBodies(r, "RequestAuthentication") :
                          /\ b.selector = gatewayRef(s).name
                          /\ b.issuer = s.auth.issuer /\ b.jwksUri = s.auth.jwksUri
                          /\ b.audiences = s.auth.audiences
                          /\ b.forward = (s.auth.forward \in {"unset", "on"})
                    /\ \E b \in OwnBodies(r, "AuthorizationPolicy") : \E k \in DOMAIN b.allow :
                          /\ b.selector = gatewayRef(s).name
                          /\ b.allow[k].host = rule.host
                          /\ b.allow[k].path = WithoutStar(PathOf(rule)) \o <<"*">>
  BY DEF RuleProtected
<1>2. /\ Includes(childPlan(r, s, s.canary), reconcileRequestAuthentication(r, s))
      /\ Includes(childPlan(r, s, s.canary), reconcileAuthorizationPolicy(r, s))
  BY <1>1, PlanIncludes
<1>3. PICK b, id : /\ b = [selector |-> gatewayRef(s).name, issuer |-> s.auth.issuer,
                           jwksUri |-> s.auth.jwksUri, audiences |-> s.auth.audiences,
                           forward |-> s.auth.forward # "off"]
                   /\ id = r.name \o <<"jwt">>
  OBVIOUS
<1>4. reconcileRequestAuthentication(r, s) = Put(Child("RequestAuthentication", gatewayRef(s).ns, id), b)
  BY <1>3 DEF reconcileRequestAuthentication, requestAuthentication
<1>5. b \in OwnBodies(r, "RequestAuthentication")
  BY <1>2, <1>4, PutStored
<1>13. /\ b.selector = gatewayRef(s).name
       /\ b.issuer = s.auth.issuer /\ b.jwksUri = s.auth.jwksUri /\ b.audiences = s.auth.audiences
       /\ b.forward = (s.auth.forward # "off")
  BY <1>3
<1>14. (s.auth.forward # "off") = (s.auth.forward \in {"unset", "on"})
  <2>1. s.auth.forward \in {"unset", "on", "off"}
    BY <1>1, MutatedType DEF RouteSpecs, RouteAuths
  <2>2. QED
    BY <2>1
<1>6. PICK allow : allow = [k \in DOMAIN s.rules |->
                              [host |-> s.rules[k].host, path |-> authzPathPattern(s.rules[k].path)]]
  OBVIOUS
<1>7. PICK c, name : /\ c = [selector |-> gatewayRef(s).name, allow |-> allow]
                     /\ name = r.name \o <<"authz">>
  OBVIOUS
<1>8. reconcileAuthorizationPolicy(r, s) = Put(Child("AuthorizationPolicy", gatewayRef(s).ns, name), c)
  BY <1>6, <1>7 DEF reconcileAuthorizationPolicy, authorizationPolicy
<1>9. c \in OwnBodies(r, "AuthorizationPolicy")
  BY <1>2, <1>8, PutStored
<1>10. c.allow = allow /\ c.selector = gatewayRef(s).name
  BY <1>7
<1>11. /\ i \in DOMAIN allow /\ allow[i].host = rule.host
       /\ allow[i].path = WithoutStar(PathOf(rule)) \o <<"*">>
  <2>1. i \in DOMAIN allow /\ allow[i].host = rule.host /\ allow[i].path = authzPathPattern(rule.path)
    BY <1>6
  <2>2. rule \in RouteRules
    BY <1>1, RuleListed
  <2>3. QED
    BY <2>1, <2>2, PatternStarred
<1>12. \E x \in OwnBodies(r, "RequestAuthentication") :
         /\ x.selector = gatewayRef(s).name
         /\ x.issuer = s.auth.issuer /\ x.jwksUri = s.auth.jwksUri /\ x.audiences = s.auth.audiences
         /\ x.forward = (s.auth.forward \in {"unset", "on"})
  BY <1>5, <1>13, <1>14, Zenon
<1>15. QED
  BY <1>9, <1>10, <1>11, <1>12, Zenon

\* A Route whose children are in place is served as its specification says.
LEMMA InSyncServes ==
    ASSUME TypeInv, NEW r \in Routes, routes[r] # Nil,
           InSync(r, routes[r].spec.canary)
    PROVE  Serves(r)
<1>1. PICK s : s = routes[r].spec
  OBVIOUS
<1>2. InPlace(r, s)
  BY <1>1 DEF InPlace
<1>3. ASSUME NEW i \in DOMAIN s.rules, NEW rule, rule = s.rules[i]
      PROVE  /\ RuleRouted(r, s, rule) /\ RuleRedirected(r, s, rule) /\ RuleTuned(r, s, rule)
             /\ RuleEncrypted(r, s, rule) /\ RuleLimited(r, s, rule) /\ RuleProtected(r, s, rule)
  BY <1>2, <1>3, ServesRouted, ServesRedirected, ServesTuned, ServesEncrypted, ServesLimited, ServesProtected
<1>4. QED
  BY <1>1, <1>3 DEF Serves

\* Whenever the controller has nothing left to do, the children of an Active Route
\* without a canary policy do, rule by rule, what its specification says: for every
\* specification, with as many rules, hosts, headers and backends as it likes.
THEOREM ServesSafety ==
    Budget["meddle"] = 0 /\ IndicesDiffer /\ NamesDistinct /\ NamesApart
        => (Spec => [](Budget["fault"] = 0 \/ delayed = {} => ActiveServes))
<1> SUFFICES ASSUME Budget["meddle"] = 0, IndicesDiffer, NamesDistinct, NamesApart
             PROVE  Spec => [](Budget["fault"] = 0 \/ delayed = {} => ActiveServes)
  OBVIOUS
<1>1. AllInv /\ ActiveStaysTrue => ActiveServes
  <2> SUFFICES ASSUME AllInv, ActiveStaysTrue, Quiet, NEW r \in Routes, Live(r),
                      routes[r].status.phase = "Active", ~HasPolicy(routes[r].spec)
               PROVE  Serves(r)
    BY DEF ActiveServes
  <2>1. InSync(r, routes[r].spec.canary)
    BY DEF ActiveStaysTrue
  <2>2. TypeInv /\ routes[r] # Nil /\ routes[r].spec \in AllSpecs
    BY DEF AllInv, TypeInv, TypeOK, Live, RouteObjects
  <2>3. QED
    BY <2>1, <2>2, InSyncServes
<1>2. Spec => [](Budget["fault"] = 0 \/ delayed = {} => ActiveStaysTrue)
  BY ActiveStays
<1>3. QED
  BY <1>1, <1>2, Invariance, PTL

=============================================================================

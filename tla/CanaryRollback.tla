--------------------------- MODULE CanaryRollback ---------------------------
(***************************************************************************)
(* The automatic canary rollback (spec.canary.rollbackOn5xx) over time.    *)
(*                                                                         *)
(* The controller's single worker takes one Route at a time from its work  *)
(* queue.  Reconcile turns the Route away before the canary is looked at   *)
(* when a conflict is lost or a backend, the canary's own Service          *)
(* included, is missing or has no ready endpoint.  Otherwise               *)
(* evaluateCanaryRollback reads the clock, returns at once while a         *)
(* cooldown runs, and else releases the mutex, probes the canary Service   *)
(* over HTTP for up to two seconds, and counts the answer under the mutex. *)
(* Between the two critical sections the clock moves, the user edits the   *)
(* Route, the Service breaks or heals, and the process may restart, which  *)
(* empties the maps of CanaryState.                                        *)
(*                                                                         *)
(* failed and promised are history variables: they record what a reader of *)
(* the API documentation would count, and no action reads them.            *)
(***************************************************************************)
EXTENDS CanaryState, Sequences

CONSTANTS
    Services,      \* the Services a canary may point at
    Canaries,      \* the canaries a user may write: [service, rollback]
    ProbeTimeout,  \* the longest a probe takes, in ticks
    MaxNow,        \* bound on the clock
    MaxEdits,      \* bound on the user's edits and deletions
    MaxCrashes     \* bound on the restarts of the controller process

VARIABLES
    now,        \* the clock
    canary,     \* canary[r]: spec.canary of Route r, Nil when it has none
    health,     \* health[s]: how the Service s fares
    blocked,    \* the Routes that lost a conflict or whose stable backend is not ready
    due,        \* the Routes in the work queue
    eval,       \* the evaluation in its probe, Nil when there is none
    effective,  \* effective[r]: did the last reconcile of r leave the canary on?
    failed,     \* history: failed[r], the failed probes of r in a row
    promised,   \* history: when the cooldown of the last rollback of r is over
    edits,      \* edits and deletions so far
    crashes     \* restarts so far

vars == <<canaryVars, now, canary, health, blocked, due, eval, effective, failed, promised,
          edits, crashes>>

\* A ready Service answers well, with 5xx, or too late or not at all; one that is
\* missing or without ready endpoints refuses the connection.
Healths == {"ok", "5xx", "silent", "unready"}
Policies == [threshold: Nat \ {0}, cooldown: Nat \ {0}]
Evaluations == [route: Routes, service: Services, policy: Policies, start: Nat]
Failures == [service: Services, health: Healths]

ASSUME CanariesAssumption ==
    /\ Nil \notin Canaries
    /\ Nil \notin Policies
    /\ Canaries \subseteq [service: Services, rollback: Policies \cup {Nil}]
ASSUME NilIsNoEvaluation == Nil \notin Evaluations
ASSUME BoundsAssumption ==
    /\ ProbeTimeout \in Nat
    /\ MaxNow \in Nat /\ MaxEdits \in Nat /\ MaxCrashes \in Nat

TypeOK ==
    /\ CanaryTypeOK
    /\ now \in Nat
    /\ canary \in [Routes -> Canaries \cup {Nil}]
    /\ health \in [Services -> Healths]
    /\ blocked \subseteq Routes
    /\ due \subseteq Routes
    /\ eval \in Evaluations \cup {Nil}
    /\ effective \in [Routes -> BOOLEAN]
    /\ failed \in [Routes -> Seq(Failures)]
    /\ promised \in [Routes -> Nat]
    /\ edits \in Nat
    /\ crashes \in Nat

Init ==
    /\ CanaryInit
    /\ now = 0
    /\ canary \in [Routes -> Canaries \cup {Nil}]
    /\ health = [s \in Services |-> "ok"]
    /\ blocked = {}
    /\ due = Routes
    /\ eval = Nil
    /\ effective = [r \in Routes |-> FALSE]
    /\ failed = [r \in Routes |-> <<>>]
    /\ promised = [r \in Routes |-> 0]
    /\ edits = 0
    /\ crashes = 0

-----------------------------------------------------------------------------
(* The worker.                                                             *)

\* evaluateRouteConflicts and evaluateBackendHealth let r through: no conflict
\* lost, and every backend, the canary's too, exists and has a ready endpoint.
GateOpen(r) ==
    /\ r \notin blocked
    /\ canary[r] # Nil => health[canary[r].service] # "unready"

\* spec.canary and its rollbackOn5xx are both there.
HasPolicy(r) == canary[r] # Nil /\ canary[r].rollback # Nil

\* The worker is free and takes r from the queue.
Take(r) ==
    /\ eval = Nil
    /\ r \in due
    /\ due' = due \ {r}

\* Reconcile returns at a lost conflict or at a backend that is not ready; the
\* children, and so the canary, stay as they were.
TurnedAway(r) ==
    /\ Take(r)
    /\ ~GateOpen(r)
    /\ UNCHANGED <<canaryVars, now, canary, health, blocked, eval, effective, failed, promised,
                   edits, crashes>>

\* A canary without rollbackOn5xx is on at once, whatever the maps hold, and no
\* canary is off.  Who removes the policy takes back its promise.
PassWithoutPolicy(r) ==
    /\ Take(r)
    /\ GateOpen(r)
    /\ ~HasPolicy(r)
    /\ effective' = [effective EXCEPT ![r] = canary[r] # Nil]
    /\ promised' = [promised EXCEPT ![r] = IF canary[r] # Nil THEN 0 ELSE @]
    /\ UNCHANGED <<canaryVars, now, canary, health, blocked, eval, failed, edits, crashes>>

\* evaluateCanaryRollback up to the first Unlock, while a cooldown runs: the
\* rollback is active and nothing is probed.
ReturnInCooldown(r) ==
    /\ Take(r)
    /\ GateOpen(r)
    /\ HasPolicy(r)
    /\ InCooldown(r, now)
    /\ effective' = [effective EXCEPT ![r] = FALSE]
    /\ UNCHANGED <<canaryVars, now, canary, health, blocked, eval, failed, promised, edits, crashes>>

\* The same section with no cooldown running: the time read is kept and the
\* probe starts.
StartProbe(r) ==
    /\ Take(r)
    /\ GateOpen(r)
    /\ HasPolicy(r)
    /\ ~InCooldown(r, now)
    /\ eval' = [route |-> r, service |-> canary[r].service, policy |-> canary[r].rollback,
                start |-> now]
    /\ UNCHANGED <<canaryVars, now, canary, health, blocked, effective, failed, promised, edits,
                   crashes>>

\* isFiveXX: err != nil || statusCode >= 500.  No answer counts like a 5xx answer.
IsFiveXX(service) == health[service] # "ok"

\* The probe ends and evaluateCanaryRollback returns.
FinishProbe ==
    /\ eval # Nil
    /\ LET r == eval.route
           p == eval.policy
           bad == IsFiveXX(eval.service)
           triggered == TriggersRollback(r, p, bad)
       IN  /\ RecordProbe(r, p, eval.start, bad)
           /\ effective' = [effective EXCEPT ![r] = ~rollbackActive(r, p, eval.start, bad)]
           /\ failed' =
                [failed EXCEPT
                   ![r] = IF bad /\ ~triggered
                          THEN Append(@, [service |-> eval.service,
                                          health |-> health[eval.service]])
                          ELSE <<>>]
           /\ promised' = [promised EXCEPT ![r] = IF triggered THEN now + p.cooldown ELSE @]
    /\ eval' = Nil
    /\ UNCHANGED <<now, canary, health, blocked, due, edits, crashes>>

\* The worker reconciles the deletion of r and calls clearCanaryRuntimeState.
ForgetRoute(r) ==
    /\ Take(r)
    /\ canary[r] # Nil
    /\ edits < MaxEdits
    /\ clearCanaryRuntimeState(r)
    /\ canary' = [canary EXCEPT ![r] = Nil]
    /\ effective' = [effective EXCEPT ![r] = FALSE]
    /\ failed' = [failed EXCEPT ![r] = <<>>]
    /\ promised' = [promised EXCEPT ![r] = 0]
    /\ edits' = edits + 1
    /\ UNCHANGED <<now, health, blocked, eval, crashes>>

\* r enters the work queue: RequeueAfter, an event of the Route, the resync.  A
\* Route that is being worked on is queued again once the worker is done with it.
Requeue(r) ==
    /\ r \notin due
    /\ due' = due \cup {r}
    /\ UNCHANGED <<canaryVars, now, canary, health, blocked, eval, effective, failed, promised,
                   edits, crashes>>

-----------------------------------------------------------------------------
(* The environment.                                                        *)

\* The user changes or removes the canary of r, or gives it its first one.
EditCanary(r, c) ==
    /\ edits < MaxEdits
    /\ canary[r] # c
    /\ canary' = [canary EXCEPT ![r] = c]
    /\ due' = due \cup {r}
    /\ edits' = edits + 1
    /\ UNCHANGED <<canaryVars, now, health, blocked, eval, effective, failed, promised, crashes>>

\* A Service breaks, heals, or loses or gains its endpoints; nothing watches it.
Fare(s, h) ==
    /\ health[s] # h
    /\ health' = [health EXCEPT ![s] = h]
    /\ UNCHANGED <<canaryVars, now, canary, blocked, due, eval, effective, failed, promised,
                   edits, crashes>>

\* r loses or wins a conflict, or its stable backend loses or gains its endpoints.
Block(r) ==
    /\ blocked' = IF r \in blocked THEN blocked \ {r} ELSE blocked \cup {r}
    /\ UNCHANGED <<canaryVars, now, canary, health, due, eval, effective, failed, promised,
                   edits, crashes>>

\* The process restarts and lists all Routes: the maps and the evaluation in
\* flight are gone, what was last written to the cluster stays.  The promise of a
\* cooldown is one of the process that made it.
Crash ==
    /\ crashes < MaxCrashes
    /\ CanaryReset
    /\ eval' = Nil
    /\ due' = Routes
    /\ promised' = [r \in Routes |-> 0]
    /\ crashes' = crashes + 1
    /\ UNCHANGED <<now, canary, health, blocked, effective, failed, edits>>

\* Time passes; the HTTP client cuts a probe off after its timeout.
Tick ==
    /\ now < MaxNow
    /\ eval # Nil => now < eval.start + ProbeTimeout
    /\ now' = now + 1
    /\ UNCHANGED <<canaryVars, canary, health, blocked, due, eval, effective, failed, promised,
                   edits, crashes>>

Reconcile(r) ==
    \/ TurnedAway(r)
    \/ PassWithoutPolicy(r)
    \/ ReturnInCooldown(r)
    \/ StartProbe(r)

Next ==
    \/ \E r \in Routes : Reconcile(r) \/ ForgetRoute(r) \/ Requeue(r) \/ Block(r)
    \/ FinishProbe
    \/ \E r \in Routes, c \in Canaries \cup {Nil} : EditCanary(r, c)
    \/ \E s \in Services, h \in Healths : Fare(s, h)
    \/ Crash
    \/ Tick

Spec == Init /\ [][Next]_vars

\* Every reconcile asks for the next one (RequeueAfter the probe interval, or the
\* requeue delay where it was turned away; the informer's resync for the rest).
\* The work queue is first in, first out, so a queued Route is taken whatever the
\* others do, and the HTTP client gives a probe two seconds.  Nothing is assumed
\* of the gate: a Route may be turned away for ever.
Fairness ==
    /\ \A r \in Routes : SF_vars(Reconcile(r)) /\ WF_vars(Requeue(r))
    /\ WF_vars(FinishProbe)

FairSpec == Spec /\ Fairness

-----------------------------------------------------------------------------
(* Properties.                                                             *)

\* After a rollback the canary stays off until the cooldown has passed since the
\* probe that caused it, in the life of one process: whenever the last reconcile
\* left the canary on, the cooldown of the last rollback is over, but for the
\* time one probe takes.  The code counts the cooldown from a time read before
\* the probe, compares it with another such time, and the user may edit the
\* canary, turn it off and on again, while the cooldown runs.
CooldownHonoured ==
    \A r \in Routes : effective[r] => promised[r] <= now + ProbeTimeout

\* An evaluation that reached its probe ends with the canary off.
RollsBack ==
    /\ eval # Nil
    /\ eval' = Nil
    /\ crashes' = crashes
    /\ ~effective'[eval.route]

\* A probe takes the canary out only if it failed and, with it, as many probes of
\* this Route in a row as the policy asks for: counts left behind by a restart, an
\* edit of the policy, an earlier rollback or a cooldown never stand in for them.
RollbackEarned ==
    [][ RollsBack => /\ IsFiveXX(eval.service)
                     /\ Len(failed[eval.route]) + 1 >= eval.policy.threshold ]_vars

\* FiveXXThreshold as the API documents it: the number of 5xx responses in a row,
\* of the canary, that it takes.
RollbackAsDocumented ==
    [][ RollsBack =>
          LET seen == Append(failed[eval.route],
                             [service |-> eval.service, health |-> health[eval.service]])
          IN  /\ Len(seen) >= eval.policy.threshold
              /\ \A i \in Len(seen) - eval.policy.threshold + 1 .. Len(seen) :
                    seen[i] = [service |-> eval.service, health |-> "5xx"] ]_vars

\* A canary that keeps failing its probes is taken out of the traffic again and
\* again: its failures are counted up to the threshold whatever happens in
\* between, if Reconcile gets as far as the probe.
BrokenCanaryDisabled ==
    \A r \in Routes :
        <>[](HasPolicy(r) /\ GateOpen(r) /\ IsFiveXX(canary[r].service)) => []<>~effective[r]

\* A canary that has recovered, and whose cooldown is over, gets its traffic
\* back and keeps it, if Reconcile gets as far as the probe.
HealthyCanaryReturns ==
    \A r \in Routes :
        <>[](/\ HasPolicy(r) /\ GateOpen(r)
             /\ ~IsFiveXX(canary[r].service)
             /\ ~InCooldown(r, now))
            => <>[]effective[r]

=============================================================================

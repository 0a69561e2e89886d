----------------------------- MODULE CanaryState -----------------------------
(***************************************************************************)
(* The canary runtime state of the RouteReconciler: two maps that live in  *)
(* the memory of the controller process and are lost when it restarts.     *)
(*                                                                         *)
(*   canaryFailureCounts   probe failures in a row, per Route key.  A key  *)
(*                         absent from the Go map reads as 0, so deleting  *)
(*                         it and storing 0 are the same value here.       *)
(*   canaryRollbackUntil   end of the cooldown of an active rollback, Nil  *)
(*                         where the Go map has no entry.                  *)
(*                                                                         *)
(* Times are natural numbers (the ticks of whatever clock the extending    *)
(* module has); a rollback policy is a record with the fields threshold    *)
(* and cooldown.                                                           *)
(***************************************************************************)
EXTENDS Naturals, RouteKeys

VARIABLES
    canaryFailureCounts,
    canaryRollbackUntil

canaryVars == <<canaryFailureCounts, canaryRollbackUntil>>

ASSUME NilIsNoTime == Nil \notin Nat

CanaryTypeOK ==
    /\ canaryFailureCounts \in [Routes -> Nat]
    /\ canaryRollbackUntil \in [Routes -> Nat \cup {Nil}]

\* A new process: both maps are nil and read as empty.
CanaryReset ==
    /\ canaryFailureCounts' = [r \in Routes |-> 0]
    /\ canaryRollbackUntil' = [r \in Routes |-> Nil]

CanaryInit ==
    /\ canaryFailureCounts = [r \in Routes |-> 0]
    /\ canaryRollbackUntil = [r \in Routes |-> Nil]

\* until.After(now), for the entry of r if there is one.
InCooldown(r, t) ==
    /\ canaryRollbackUntil[r] # Nil
    /\ canaryRollbackUntil[r] > t

\* Bug: a good answer takes one failure back instead of all of them.
CountAfterLess(r, isFiveXX) ==
    IF isFiveXX THEN canaryFailureCounts[r] + 1 ELSE canaryFailureCounts[r] - 1

\* Bug: a good answer leaves the count as it is.
CountAfterWithoutReset(r, isFiveXX) ==
    IF isFiveXX THEN canaryFailureCounts[r] + 1 ELSE canaryFailureCounts[r]

\* count, after one more probe.
CountAfter(r, isFiveXX) ==
    IF isFiveXX THEN canaryFailureCounts[r] + 1 ELSE 0

\* count >= int(policy.FiveXXThreshold)
TriggersRollback(r, policy, isFiveXX) ==
    CountAfter(r, isFiveXX) >= policy.threshold

\* Bug: the cooldown ends one tick early.
UntilSetTooEarly(r, policy, t, isFiveXX) ==
    IF TriggersRollback(r, policy, isFiveXX) THEN t + policy.cooldown - 1
    ELSE canaryRollbackUntil[r]

\* Bug: the cooldown is left out of the end of the rollback.
UntilSetAtOnce(r, policy, t, isFiveXX) ==
    IF TriggersRollback(r, policy, isFiveXX) THEN t ELSE canaryRollbackUntil[r]

\* The entry of r in canaryRollbackUntil as the counting of a probe leaves it: a
\* new cooldown from the time t that was read before the probe, or the old entry.
UntilSet(r, policy, t, isFiveXX) ==
    IF TriggersRollback(r, policy, isFiveXX) THEN t + policy.cooldown
    ELSE canaryRollbackUntil[r]

\* Bug: an entry is enough, its time is not compared.
rollbackActiveUnchecked(r, policy, t, isFiveXX) == UntilSet(r, policy, t, isFiveXX) # Nil

\* The entry is looked up again and compared with the same time.
rollbackActive(r, policy, t, isFiveXX) ==
    LET until == UntilSet(r, policy, t, isFiveXX)
    IN  until # Nil /\ until > t

\* The second critical section of evaluateCanaryRollback: count the outcome of
\* the probe that was started at time t, trigger the rollback or delete the entry
\* of one that is over.
RecordProbe(r, policy, t, isFiveXX) ==
    /\ canaryFailureCounts' =
         [canaryFailureCounts EXCEPT
            ![r] = IF TriggersRollback(r, policy, isFiveXX)
                   THEN 0
                   ELSE CountAfter(r, isFiveXX)]
    /\ canaryRollbackUntil' =
         [canaryRollbackUntil EXCEPT
            ![r] = IF rollbackActive(r, policy, t, isFiveXX)
                   THEN UntilSet(r, policy, t, isFiveXX)
                   ELSE Nil]

\* Both deletes, under the mutex.
clearCanaryRuntimeState(r) ==
    /\ canaryFailureCounts' = [canaryFailureCounts EXCEPT ![r] = 0]
    /\ canaryRollbackUntil' = [canaryRollbackUntil EXCEPT ![r] = Nil]

=============================================================================

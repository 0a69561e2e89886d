------------------------ MODULE CanaryRollbackProofs ------------------------
(***************************************************************************)
(* What holds of the canary rollback for any number of Routes, Services    *)
(* and policies, and for every bound.                                      *)
(***************************************************************************)
EXTENDS CanaryRollback, CanaryStateProofs

\* A probe is under way only within its timeout, and only of a Route whose
\* cooldown, if it has one, was over when the probe began.
ProbeInv ==
    eval # Nil =>
      /\ eval.start <= now
      /\ now <= eval.start + ProbeTimeout
      /\ canaryRollbackUntil[eval.route] # Nil => canaryRollbackUntil[eval.route] <= eval.start

\* The memory of the cooldown.  While there is an entry for r it covers the
\* cooldown that was promised, but for one probe; once it is gone, and whenever
\* the canary is on, that cooldown has passed, but for one probe.
CooldownKept(r) ==
    /\ canaryRollbackUntil[r] # Nil => promised[r] <= canaryRollbackUntil[r] + ProbeTimeout
    /\ canaryRollbackUntil[r] = Nil \/ effective[r] => promised[r] <= now + ProbeTimeout

CooldownInv == \A r \in Routes : CooldownKept(r)

\* The count kept in memory never runs ahead of the failures seen in a row.
CountInv == \A r \in Routes : canaryFailureCounts[r] <= Len(failed[r])

\* What the end of a probe does, with the parts of the evaluation named.
Ends(r, s, p, t, bad) ==
    /\ r = eval.route /\ s = eval.service /\ p = eval.policy /\ t = eval.start
    /\ bad = IsFiveXX(s)
    /\ RecordProbe(r, p, t, bad)
    /\ effective' = [effective EXCEPT ![r] = ~rollbackActive(r, p, t, bad)]
    /\ failed' = [failed EXCEPT
                    ![r] = IF bad /\ ~TriggersRollback(r, p, bad)
                           THEN Append(@, [service |-> s, health |-> health[s]])
                           ELSE <<>>]
    /\ promised' = [promised EXCEPT
                      ![r] = IF TriggersRollback(r, p, bad) THEN now + p.cooldown ELSE @]
    /\ eval' = Nil
    /\ UNCHANGED <<now, canary, health, blocked, due, edits, crashes>>

USE NilIsNoTime, CanariesAssumption, NilIsNoEvaluation, BoundsAssumption

-----------------------------------------------------------------------------

\* The parts are those of the evaluation in flight.
LEMMA FinishParts ==
    ASSUME TypeOK, FinishProbe
    PROVE  \E r \in Routes, s \in Services, p \in Policies, t \in Nat, bad \in BOOLEAN : Ends(r, s, p, t, bad)
<1>1. /\ eval.route \in Routes /\ eval.service \in Services
      /\ eval.policy \in Policies /\ eval.start \in Nat
  BY DEF FinishProbe, TypeOK, Evaluations
<1>2. IsFiveXX(eval.service) \in BOOLEAN
  BY DEF IsFiveXX
<1>3. Ends(eval.route, eval.service, eval.policy, eval.start, IsFiveXX(eval.service))
  BY DEF FinishProbe, Ends
<1>4. QED
  BY <1>1, <1>2, <1>3, Zenon

\* Every step keeps the types.
LEMMA TypeStep == TypeOK /\ [Next]_vars => TypeOK'
<1> SUFFICES ASSUME TypeOK, [Next]_vars PROVE TypeOK'
  OBVIOUS
<1> USE DEF TypeOK
<1>1. ASSUME NEW r \in Routes, TurnedAway(r) \/ Requeue(r) \/ Block(r) PROVE TypeOK'
  BY <1>1 DEF TurnedAway, Requeue, Block, Take, canaryVars, CanaryTypeOK
<1>2. ASSUME NEW r \in Routes, PassWithoutPolicy(r) PROVE TypeOK'
  BY <1>2 DEF PassWithoutPolicy, Take, canaryVars, CanaryTypeOK
<1>3. ASSUME NEW r \in Routes, ReturnInCooldown(r) PROVE TypeOK'
  BY <1>3 DEF ReturnInCooldown, Take, canaryVars, CanaryTypeOK
<1>4. ASSUME NEW r \in Routes, StartProbe(r) PROVE TypeOK'
  <2>1. canary[r] \in [service: Services, rollback: Policies \cup {Nil}] /\ canary[r].rollback # Nil
    BY <1>4 DEF StartProbe, HasPolicy
  <2>2. eval' \in Evaluations
    BY <1>4, <2>1 DEF StartProbe, Evaluations
  <2>3. QED
    BY <1>4, <2>2 DEF StartProbe, Take, canaryVars, CanaryTypeOK
<1>5. ASSUME NEW r \in Routes, ForgetRoute(r) PROVE TypeOK'
  BY <1>5 DEF ForgetRoute, Take, clearCanaryRuntimeState, CanaryTypeOK
<1>6. ASSUME FinishProbe PROVE TypeOK'
  <2>1. PICK r \in Routes, s \in Services, p \in Policies, t \in Nat, bad \in BOOLEAN : Ends(r, s, p, t, bad)
    BY <1>6, FinishParts, Zenon
  <2> USE DEF Ends
  <2>2. p.threshold \in Nat /\ p.cooldown \in Nat
    BY DEF Policies
  <2>3. CanaryTypeOK'
    BY <2>1, <2>2, RecordProbeType
  <2>4. [service |-> s, health |-> health[s]] \in Failures
    BY DEF Failures
  <2>5. failed' \in [Routes -> Seq(Failures)]
    BY <2>1, <2>4
  <2>6. promised' \in [Routes -> Nat]
    BY <2>1, <2>2
  <2>7. effective' \in [Routes -> BOOLEAN]
    BY <2>1
  <2>8. QED
    BY <2>1, <2>3, <2>5, <2>6, <2>7
<1>7. ASSUME NEW r \in Routes, NEW c \in Canaries \cup {Nil}, EditCanary(r, c) PROVE TypeOK'
  BY <1>7 DEF EditCanary, canaryVars, CanaryTypeOK
<1>8. ASSUME NEW s \in Services, NEW h \in Healths, Fare(s, h) PROVE TypeOK'
  BY <1>8 DEF Fare, canaryVars, CanaryTypeOK
<1>9. CASE Crash
  BY <1>9 DEF Crash, CanaryReset, CanaryTypeOK
<1>10. CASE Tick
  BY <1>10 DEF Tick, canaryVars, CanaryTypeOK
<1>11. CASE UNCHANGED vars
  BY <1>11 DEF vars, canaryVars, CanaryTypeOK
<1>12. QED
  BY <1>1, <1>2, <1>3, <1>4, <1>5, <1>6, <1>7, <1>8, <1>9, <1>10, <1>11 DEF Next, Reconcile

\* The maps, the queue, the evaluation in flight and the histories always have the
\* types the code declares for them.
THEOREM TypeCorrect == Spec => []TypeOK
<1>1. Init => TypeOK
  BY DEF Init, TypeOK, CanaryInit, CanaryTypeOK, Healths
<1>2. QED
  BY <1>1, TypeStep, PTL DEF Spec

-----------------------------------------------------------------------------

\* Every step keeps the probe within its timeout and outside any cooldown.
LEMMA ProbeStep ==
    ASSUME TypeOK, ProbeInv, [Next]_vars
    PROVE  ProbeInv'
<1> USE DEF TypeOK, CanaryTypeOK, ProbeInv
<1>1. ASSUME NEW r \in Routes, TurnedAway(r) \/ Requeue(r) \/ Block(r) PROVE ProbeInv'
  BY <1>1 DEF TurnedAway, Requeue, Block, Take, canaryVars
<1>2. ASSUME NEW r \in Routes, PassWithoutPolicy(r) \/ ReturnInCooldown(r) PROVE ProbeInv'
  BY <1>2 DEF PassWithoutPolicy, ReturnInCooldown, Take, canaryVars
<1>3. ASSUME NEW r \in Routes, StartProbe(r) PROVE ProbeInv'
  BY <1>3 DEF StartProbe, InCooldown, canaryVars
<1>4. ASSUME NEW r \in Routes, ForgetRoute(r) PROVE ProbeInv'
  BY <1>4 DEF ForgetRoute, Take
<1>5. CASE FinishProbe \/ Crash
  BY <1>5 DEF FinishProbe, Crash
<1>6. ASSUME NEW r \in Routes, NEW c \in Canaries \cup {Nil}, EditCanary(r, c) PROVE ProbeInv'
  BY <1>6 DEF EditCanary, canaryVars
<1>7. ASSUME NEW s \in Services, NEW h \in Healths, Fare(s, h) PROVE ProbeInv'
  BY <1>7 DEF Fare, canaryVars
<1>8. CASE Tick
  BY <1>8 DEF Tick, canaryVars, Evaluations
<1>9. CASE UNCHANGED vars
  BY <1>9 DEF vars, canaryVars
<1>10. QED
  BY <1>1, <1>2, <1>3, <1>4, <1>5, <1>6, <1>7, <1>8, <1>9 DEF Next, Reconcile

\* So every probe is one of a Route whose cooldown was over.
THEOREM ProbeSafety == Spec => []ProbeInv
<1>1. Init => ProbeInv
  BY DEF Init, ProbeInv
<1>2. QED
  BY <1>1, ProbeStep, TypeCorrect, PTL DEF Spec

\* Every step keeps the memory of the cooldown.
LEMMA CooldownStep ==
    ASSUME TypeOK, ProbeInv, CooldownInv, [Next]_vars
    PROVE  CooldownInv'
<1> USE DEF TypeOK, CanaryTypeOK, CooldownInv, CooldownKept
<1>1. ASSUME NEW r \in Routes, TurnedAway(r) \/ Requeue(r) \/ Block(r) PROVE CooldownInv'
  BY <1>1 DEF TurnedAway, Requeue, Block, Take, canaryVars
<1>2. ASSUME NEW r \in Routes, PassWithoutPolicy(r) PROVE CooldownInv'
  <2>1. (promised'[r] = promised[r] /\ ~effective'[r]) \/ promised'[r] = 0
    BY <1>2 DEF PassWithoutPolicy
  <2>2. \A q \in Routes : q # r => promised'[q] = promised[q] /\ effective'[q] = effective[q]
    BY <1>2 DEF PassWithoutPolicy
  <2>3. canaryRollbackUntil' = canaryRollbackUntil /\ now' = now
    BY <1>2 DEF PassWithoutPolicy, canaryVars
  <2>4. CooldownKept(r)'
    BY <2>1, <2>3
  <2>5. ASSUME NEW q \in Routes, q # r PROVE CooldownKept(q)'
    BY <2>2, <2>3, <2>5
  <2>6. QED
    BY <2>4, <2>5
<1>3. ASSUME NEW r \in Routes, ReturnInCooldown(r) PROVE CooldownInv'
  BY <1>3 DEF ReturnInCooldown, canaryVars
<1>4. ASSUME NEW r \in Routes, StartProbe(r) PROVE CooldownInv'
  BY <1>4 DEF StartProbe, canaryVars
<1>5. ASSUME NEW r \in Routes, ForgetRoute(r) PROVE CooldownInv'
  BY <1>5 DEF ForgetRoute, clearCanaryRuntimeState
<1>6. ASSUME FinishProbe PROVE CooldownInv'
  <2>1. PICK r \in Routes, s \in Services, p \in Policies, t \in Nat, bad \in BOOLEAN : Ends(r, s, p, t, bad)
    BY <1>6, FinishParts, Zenon
  <2> USE DEF Ends
  <2>2. p.cooldown \in Nat /\ p.cooldown > 0
    BY DEF Policies
  <2>3. /\ t <= now /\ now <= t + ProbeTimeout
        /\ canaryRollbackUntil[r] # Nil => canaryRollbackUntil[r] <= t
    BY <1>6, <2>1 DEF ProbeInv, FinishProbe
  <2>4. promised[r] <= now + ProbeTimeout
    BY <2>3
  <2>5. canaryRollbackUntil' = [canaryRollbackUntil EXCEPT
              ![r] = IF rollbackActive(r, p, t, bad) THEN UntilSet(r, p, t, bad) ELSE Nil]
    BY <2>1 DEF RecordProbe
  <2>6. \A q \in Routes : q # r =>
            /\ canaryRollbackUntil'[q] = canaryRollbackUntil[q]
            /\ effective'[q] = effective[q]
            /\ promised'[q] = promised[q]
    BY <2>1, <2>5
  <2>7. ASSUME NEW q \in Routes, q # r PROVE CooldownKept(q)'
    BY <2>1, <2>6, <2>7
  <2>8. ASSUME TriggersRollback(r, p, bad) PROVE CooldownKept(r)'
    <3>1. UntilSet(r, p, t, bad) = t + p.cooldown
      BY <2>8 DEF UntilSet
    <3>2. rollbackActive(r, p, t, bad)
      BY <2>2, <3>1 DEF rollbackActive
    <3>3. canaryRollbackUntil'[r] = t + p.cooldown /\ promised'[r] = now + p.cooldown
      BY <2>1, <2>5, <2>8, <3>1, <3>2
    <3>4. ~effective'[r]
      BY <2>1, <3>2
    <3>5. t + p.cooldown # Nil
      BY <2>2
    <3>6. QED
      BY <2>2, <2>3, <3>3, <3>4, <3>5
  <2>9. ASSUME ~TriggersRollback(r, p, bad) PROVE CooldownKept(r)'
    <3>1. UntilSet(r, p, t, bad) = canaryRollbackUntil[r]
      BY <2>9 DEF UntilSet
    <3>2. ~rollbackActive(r, p, t, bad)
      BY <2>3, <3>1 DEF rollbackActive
    <3>3. canaryRollbackUntil'[r] = Nil /\ promised'[r] = promised[r] /\ now' = now
      BY <2>1, <2>5, <2>9, <3>2
    <3>4. QED
      BY <2>4, <3>3
  <2>10. CooldownKept(r)'
    BY <2>8, <2>9
  <2>11. QED
    BY <2>7, <2>10, Zenon
<1>7. ASSUME NEW r \in Routes, NEW c \in Canaries \cup {Nil}, EditCanary(r, c) PROVE CooldownInv'
  BY <1>7 DEF EditCanary, canaryVars
<1>8. ASSUME NEW s \in Services, NEW h \in Healths, Fare(s, h) PROVE CooldownInv'
  BY <1>8 DEF Fare, canaryVars
<1>9. CASE Crash
  BY <1>9 DEF Crash, CanaryReset
<1>10. CASE Tick
  BY <1>10 DEF Tick, canaryVars
<1>11. CASE UNCHANGED vars
  BY <1>11 DEF vars, canaryVars
<1>12. QED
  BY <1>1, <1>2, <1>3, <1>4, <1>5, <1>6, <1>7, <1>8, <1>9, <1>10, <1>11 DEF Next, Reconcile

\* In the life of one controller process a rollback keeps the canary off until its
\* cooldown has passed, but for the time of one probe, whatever the user edits
\* meanwhile.
THEOREM CooldownSafety == Spec => []CooldownHonoured
<1>1. Init => CooldownInv
  <2> SUFFICES ASSUME Init, NEW r \in Routes PROVE CooldownKept(r)
    BY DEF CooldownInv
  <2>1. promised[r] = 0 /\ canaryRollbackUntil[r] = Nil /\ now = 0
    BY DEF Init, CanaryInit
  <2>2. QED
    BY <2>1 DEF CooldownKept
<1>2. TypeOK /\ ProbeInv /\ CooldownInv /\ [Next]_vars => CooldownInv'
  BY CooldownStep
<1>3. CooldownInv => CooldownHonoured
  BY DEF CooldownInv, CooldownKept, CooldownHonoured
<1>4. QED
  BY <1>1, <1>2, <1>3, TypeCorrect, ProbeSafety, PTL DEF Spec

-----------------------------------------------------------------------------

\* The count is never ahead of the failures in a row, through restarts, changes of
\* the policy and of the Service, and cooldowns.
LEMMA CountStep ==
    ASSUME TypeOK, CountInv, [Next]_vars
    PROVE  CountInv'
<1> USE DEF TypeOK, CanaryTypeOK, CountInv
<1>1. ASSUME NEW r \in Routes, TurnedAway(r) \/ Requeue(r) \/ Block(r) PROVE CountInv'
  BY <1>1 DEF TurnedAway, Requeue, Block, canaryVars
<1>2. ASSUME NEW r \in Routes, PassWithoutPolicy(r) \/ ReturnInCooldown(r) \/ StartProbe(r)
      PROVE  CountInv'
  BY <1>2 DEF PassWithoutPolicy, ReturnInCooldown, StartProbe, canaryVars
<1>3. ASSUME NEW r \in Routes, ForgetRoute(r) PROVE CountInv'
  BY <1>3 DEF ForgetRoute, clearCanaryRuntimeState
<1>4. ASSUME FinishProbe PROVE CountInv'
  <2>1. PICK r \in Routes, s \in Services, p \in Policies, t \in Nat, bad \in BOOLEAN : Ends(r, s, p, t, bad)
    BY <1>4, FinishParts, Zenon
  <2> USE DEF Ends
  <2>2. canaryFailureCounts' = [canaryFailureCounts EXCEPT
              ![r] = IF TriggersRollback(r, p, bad) THEN 0 ELSE CountAfter(r, bad)]
    BY <2>1 DEF RecordProbe
  <2>3. \A q \in Routes : q # r =>
            canaryFailureCounts'[q] = canaryFailureCounts[q] /\ failed'[q] = failed[q]
    BY <2>1, <2>2
  <2>4. CASE bad /\ ~TriggersRollback(r, p, bad)
    <3>1. [service |-> s, health |-> health[s]] \in Failures
      BY DEF Failures
    <3>2. Len(failed'[r]) = Len(failed[r]) + 1
      BY <2>1, <2>4, <3>1
    <3>3. canaryFailureCounts'[r] = canaryFailureCounts[r] + 1
      BY <2>2, <2>4 DEF CountAfter
    <3>4. Len(failed[r]) \in Nat
      OBVIOUS
    <3>5. canaryFailureCounts'[r] <= Len(failed'[r])
      BY <3>2, <3>3, <3>4
    <3>6. QED
      BY <2>3, <3>5
  <2>5. CASE ~(bad /\ ~TriggersRollback(r, p, bad))
    <3>1. canaryFailureCounts'[r] = 0 /\ failed'[r] = <<>>
      BY <2>1, <2>2, <2>5 DEF CountAfter
    <3>2. canaryFailureCounts'[r] <= Len(failed'[r])
      BY <3>1
    <3>3. QED
      BY <2>3, <3>2
  <2>6. QED
    BY <2>4, <2>5
<1>5. ASSUME NEW r \in Routes, NEW c \in Canaries \cup {Nil}, EditCanary(r, c) PROVE CountInv'
  BY <1>5 DEF EditCanary, canaryVars
<1>6. ASSUME NEW s \in Services, NEW h \in Healths, Fare(s, h) PROVE CountInv'
  BY <1>6 DEF Fare, canaryVars
<1>7. CASE Crash
  BY <1>7 DEF Crash, CanaryReset
<1>8. CASE Tick
  BY <1>8 DEF Tick, canaryVars
<1>9. CASE UNCHANGED vars
  BY <1>9 DEF vars, canaryVars
<1>10. QED
  BY <1>1, <1>2, <1>3, <1>4, <1>5, <1>6, <1>7, <1>8, <1>9 DEF Next, Reconcile

\* A probe takes the canary out only after as many failed probes of the Route in a
\* row as the policy asks for.
THEOREM RollbackSafety == Spec => RollbackEarned
<1> DEFINE Earned == RollsBack => /\ IsFiveXX(eval.service)
                                  /\ Len(failed[eval.route]) + 1 >= eval.policy.threshold
<1>1. Init => CountInv
  <2> SUFFICES ASSUME Init, NEW r \in Routes PROVE canaryFailureCounts[r] <= Len(failed[r])
    BY DEF CountInv
  <2>1. canaryFailureCounts[r] = 0 /\ failed[r] = <<>>
    BY DEF Init, CanaryInit
  <2>2. QED
    BY <2>1
<1>2. TypeOK /\ CountInv /\ [Next]_vars => CountInv'
  BY CountStep
<1>3. TypeOK /\ ProbeInv /\ CountInv /\ [Next]_vars => [Earned]_vars
  <2> SUFFICES ASSUME TypeOK, ProbeInv, CountInv, Next, RollsBack
               PROVE  IsFiveXX(eval.service) /\ Len(failed[eval.route]) + 1 >= eval.policy.threshold
    OBVIOUS
  <2>1. FinishProbe
    BY DEF RollsBack, Next, Reconcile, TurnedAway, PassWithoutPolicy, ReturnInCooldown, StartProbe,
           Take, ForgetRoute, Requeue, Block, EditCanary, Fare, Crash, Tick, TypeOK
  <2>2. PICK r \in Routes, s \in Services, p \in Policies, t \in Nat, bad \in BOOLEAN : Ends(r, s, p, t, bad)
    BY <2>1, FinishParts, Zenon
  <2> USE DEF Ends
  <2>3. rollbackActive(r, p, t, bad)
    BY <2>2 DEF RollsBack, TypeOK
  <2>4. /\ canaryRollbackUntil[r] \in Nat \cup {Nil}
        /\ canaryRollbackUntil[r] # Nil => canaryRollbackUntil[r] <= t
    BY <2>1, <2>2 DEF ProbeInv, FinishProbe, TypeOK, CanaryTypeOK
  <2>5. TriggersRollback(r, p, bad)
    BY <2>3, <2>4 DEF rollbackActive, UntilSet
  <2>6. p.threshold \in Nat /\ p.threshold > 0
    BY DEF Policies
  <2>7. CountAfter(r, bad) >= p.threshold
    BY <2>5 DEF TriggersRollback
  <2>8. /\ canaryFailureCounts[r] \in Nat /\ Len(failed[r]) \in Nat
        /\ canaryFailureCounts[r] <= Len(failed[r])
    BY DEF TypeOK, CanaryTypeOK, CountInv
  <2>9. bad /\ Len(failed[r]) + 1 >= p.threshold
    BY <2>6, <2>7, <2>8 DEF CountAfter
  <2>10. QED
    BY <2>2, <2>9
<1>4. QED
  BY <1>1, <1>2, <1>3, TypeCorrect, ProbeSafety, PTL DEF Spec, RollbackEarned
=============================================================================

-------------------------- MODULE CanaryStateProofs --------------------------
(***************************************************************************)
(* Facts about the canary maps that every module using them needs.         *)
(***************************************************************************)
EXTENDS CanaryState, TLAPS

\* Counting the outcome of a probe keeps both maps well typed.
LEMMA RecordProbeType ==
    ASSUME CanaryTypeOK, NEW r \in Routes, NEW policy,
           policy.threshold \in Nat, policy.cooldown \in Nat,
           NEW t \in Nat, NEW bad \in BOOLEAN, RecordProbe(r, policy, t, bad)
    PROVE  CanaryTypeOK'
<1>1. CountAfter(r, bad) \in Nat
  BY DEF CountAfter, CanaryTypeOK
<1>2. UntilSet(r, policy, t, bad) \in Nat \cup {Nil}
  BY DEF UntilSet, CanaryTypeOK
<1>3. QED
  BY <1>1, <1>2 DEF RecordProbe, CanaryTypeOK

\* So do a restart and the deletion of a Route.
LEMMA ClearType ==
    ASSUME CanaryTypeOK, NEW r \in Routes,
           CanaryReset \/ clearCanaryRuntimeState(r) \/ UNCHANGED canaryVars
    PROVE  CanaryTypeOK'
BY DEF CanaryTypeOK, CanaryReset, clearCanaryRuntimeState, canaryVars
=============================================================================

-------------------------- MODULE MCCanaryRollback --------------------------
(***************************************************************************)
(* Instances of CanaryRollback for TLC.                                    *)
(***************************************************************************)
EXTENDS CanaryRollback

\* Two Services; two failures in a row or a single one; and no policy at all.
TwoServices == {"green", "red"}
MixedCanaries ==
    { [service |-> "green", rollback |-> [threshold |-> 2, cooldown |-> 2]],
      [service |-> "red", rollback |-> [threshold |-> 1, cooldown |-> 1]],
      [service |-> "green", rollback |-> Nil] }

\* Two failures in a row, of either Service.
PatientCanaries == [service: TwoServices, rollback: {[threshold |-> 2, cooldown |-> 2]}]
=============================================================================

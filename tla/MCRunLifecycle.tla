---------------------------- MODULE MCRunLifecycle ----------------------------
(* Small instances of RunLifecycle: one job, two starts, so two runs.       *)
EXTENDS RunLifecycle, TLC

CONSTANTS j1, j2, q1, q2, r1, r2

OneJob  == q1 :> j1 @@ q2 :> j1

Calm == {}
AllDisturbances == KnownDisturbances
OrderlyDisturbances ==
  KnownDisturbances \ {"concurrent_starts", "late_launch_error", "overlapping_inits"}

RunSymmetry == Permutations({r1, r2})

=============================================================================

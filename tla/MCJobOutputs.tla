----------------------------- MODULE MCJobOutputs -----------------------------
(* Small instances of JobOutputs: two jobs that share two runs, so that both *)
(* runs may be of one job or each job has one, and two requests to resolve.  *)
EXTENDS JobOutputs, TLC

CONSTANTS j1, j2, q1, q2

Symmetry == Permutations(Jobs) \cup Permutations(Requests)

=============================================================================

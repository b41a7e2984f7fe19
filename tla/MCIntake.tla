------------------------------- MODULE MCIntake -------------------------------
(* A page and an API client, two years, two changes.           *)
EXTENDS Intake, TLC

MCSymmetry == Permutations(Years)

=============================================================================

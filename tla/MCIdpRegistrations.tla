-------------------------- MODULE MCIdpRegistrations --------------------------
(* Small instances of IdpRegistrations: two providers, two configurations.   *)
EXTENDS IdpRegistrations, TLC

CONSTANTS i1, i2, c1, c2

(* The rows at boot, up to the names of providers and configurations.        *)
FirstRows == {i1 :> a @@ i2 :> b : a \in {c1}, b \in {c1, c2, Absent}} \cup {NoRows}

MCInit == Init /\ config \in FirstRows
MCSpec == MCInit /\ [][Next]_vars /\ Fairness

=============================================================================

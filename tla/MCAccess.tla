-------------------------------- MODULE MCAccess --------------------------------
(* Two browsers of one person, and tenants with the codes of two partners.   *)
EXTENDS Access, TLC

MCSymmetry == Permutations(Browsers) \cup Permutations(Partners) \cup Permutations(Codes)

=============================================================================

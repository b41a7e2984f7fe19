------------------------------- MODULE MCUmSync -------------------------------
(* Small instances of UmSync: partners, of which pSomeoneElses is not managed *)
(* by the sync, their tenant codes and the syncs that overlap.                *)
EXTENDS UmSync

CONSTANTS p1, pSomeoneElses, c1, s1, s2

=============================================================================

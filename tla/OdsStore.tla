------------------------------- MODULE OdsStore -------------------------------
(***************************************************************************)
(* What the rest of Runway takes the ODS configurations of a tenant to be: *)
(* at most one in force for a year, each with one active connection; what  *)
(* it is replaced by never was active before, of this or of another        *)
(* configuration.  OdsConfigs implements this; the intake of jobs relies   *)
(* on it.                                                                  *)
(***************************************************************************)
EXTENDS Naturals, FiniteSets

CONSTANTS Years, MaxConfigs, MaxConnections, None

VARIABLE config     \* ods_config rows by id

Configs == 1..MaxConfigs
Connections == 1..MaxConnections
\* replaced: the connections that were active before the one that is.
Config == [year : Years, retired : BOOLEAN, active : Connections,
           replaced : SUBSET Connections]

ASSUME StoreConstantsOK ==
  MaxConfigs \in Nat /\ MaxConnections \in Nat /\ None \notin Nat /\ None \notin Config

Saved(c) == config[c] # None
InForce(c) == Saved(c) /\ ~config[c].retired
OfYear(y) == {c \in Configs : Saved(c) /\ config[c].year = y}
Used(c) == config[c].replaced \cup {config[c].active}
IsNew(k) == \A c \in Configs : Saved(c) => k \notin Used(c)

Init == config = [c \in Configs |-> None]

Open(c, y, k) ==
  /\ ~Saved(c) /\ \A e \in OfYear(y) : ~InForce(e)
  /\ IsNew(k)
  /\ config' = [config EXCEPT ![c] =
       [year |-> y, retired |-> FALSE, active |-> k, replaced |-> {}]]

Renew(c, k) ==
  /\ Saved(c) /\ IsNew(k)
  /\ config' = [config EXCEPT ![c].active = k, ![c].replaced = Used(c)]

Retire(c) ==
  /\ InForce(c)
  /\ config' = [config EXCEPT ![c].retired = TRUE]

Next ==
  \E c \in Configs :
    \/ \E y \in Years, k \in Connections : Open(c, y, k)
    \/ \E k \in Connections : Renew(c, k)
    \/ Retire(c)

\* Asking first whether anything changes spares TLC most of the work.
Spec == Init /\ [][config' # config /\ Next]_config

=============================================================================

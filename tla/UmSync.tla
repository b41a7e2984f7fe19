-------------------------------- MODULE UmSync --------------------------------
(***************************************************************************)
(* UmSyncHandler: partners and tenants follow the User Management service. *)
(*                                                                         *)
(* A sync reads all partners and tenants, asks UM for its partners, then   *)
(* in parallel for the tenants of every partner it manages, and writes the *)
(* differences in one transaction.  UM changes meanwhile, its token lapses *)
(* and its requests fail; users log in, which creates tenants; and a       *)
(* second sync may overlap the first (pg-boss starts an expired job again, *)
(* and every replica of the app works the queue).                          *)
(*                                                                         *)
(* A soft-deleted tenant's isGlobal is not modelled: it is written again   *)
(* when the tenant is undeleted.                                           *)
(***************************************************************************)
EXTENDS Naturals

CONSTANTS
  Partners, Codes,   \* partners, and the tenant codes each may use
  Unmanaged,         \* partners whose managed_by is not this sync
  Syncs,             \* syncs that may be under way at the same time
  MaxChanges,        \* bound on the changes of UM and the new tenants of logins
  MaxMishaps         \* bound on failed requests and lapsed tokens

ASSUME ConstantsOK ==
  /\ Unmanaged \subseteq Partners
  /\ MaxChanges \in Nat
  /\ MaxMishaps \in Nat

VARIABLES
  um,        \* UM's partners, and what it knows of each tenant code
  partner,   \* partner rows
  tenant,    \* tenant rows
  token,     \* umToken: none or known to be over, good, or refused by UM
  pc,        \* where each sync is
  existing,  \* its copy of the rows
  seen,      \* UM's answer to it: partners
  answer,    \* UM's answers to it: tenants, by partner
  changes, mishaps   \* counters

syncVars == <<pc, existing, seen, answer>>
rowVars  == <<partner, tenant>>
vars == <<um, partner, tenant, token, pc, existing, seen, answer, changes, mishaps>>

Managed == Partners \ Unmanaged
Live == {"local", "global"}        \* a tenant by its isGlobal
NoPartner == [listed |-> FALSE, tenants |-> [c \in Codes |-> "absent"]]
UmPartners ==
  {NoPartner} \cup [listed : {TRUE}, tenants : [Codes -> Live \cup {"absent"}]]
PartnerRows == [Partners -> {"none", "live", "deleted"}]
TenantRows  == [Partners -> [Codes -> Live \cup {"none", "deleted"}]]
NoAnswer == [status |-> "none", tenants |-> NoPartner.tenants]
Failure  == [status |-> "failure", tenants |-> NoPartner.tenants]
Success(tenants) == [status |-> "success", tenants |-> tenants]
Asking == {"idle", "ask_partners", "ask_tenants"}

TypeOK ==
  /\ um \in [Partners -> UmPartners]
  /\ partner \in PartnerRows
  /\ tenant \in TenantRows
  /\ token \in {"none", "good", "refused"}
  /\ pc \in [Syncs -> Asking \cup {"write"}]
  /\ existing \in [Syncs -> [partner : PartnerRows, tenant : TenantRows]]
  /\ seen \in [Syncs -> SUBSET Partners]
  /\ answer \in [Syncs -> [Partners ->
       {NoAnswer, Failure} \cup {Success(t) : t \in [Codes -> Live \cup {"absent"}]}]]
  /\ changes \in 0..MaxChanges
  /\ mishaps \in 0..MaxMishaps

(* A partner that is there at first is one that somebody else manages.     *)
Init ==
  /\ um \in [Partners -> UmPartners]
  /\ partner = [p \in Partners |-> IF p \in Unmanaged THEN "live" ELSE "none"]
  /\ tenant = [p \in Partners |-> [c \in Codes |-> "none"]]
  /\ token = "none"
  /\ pc = [s \in Syncs |-> "idle"]
  /\ existing = [s \in Syncs |-> [partner |-> partner, tenant |-> tenant]]
  /\ seen = [s \in Syncs |-> {}]
  /\ answer = [s \in Syncs |-> [p \in Partners |-> NoAnswer]]
  /\ changes = 0
  /\ mishaps = 0

-----------------------------------------------------------------------------
(* What a sync means to write, from its copy and UM's answers.              *)

Had(s, p) == existing[s].partner[p]
HadTenant(s, p, c) == existing[s].tenant[p][c]

PartnersToCreate(s)   == {p \in seen[s] : Had(s, p) = "none"}
PartnersToDelete(s)   == {p \in Managed \ seen[s] : Had(s, p) = "live"}
PartnersToUndelete(s) == {p \in Managed \cap seen[s] : Had(s, p) = "deleted"}

\* Faulty variant: partners that somebody else manages are asked for, too.
PartnersToAsk_Any(s) == {p \in Partners : p \in seen[s] \/ Had(s, p) # "none"} \ PartnersToDelete(s)

PartnersToAsk(s) ==
  {p \in Managed : p \in seen[s] \/ Had(s, p) # "none"} \ PartnersToDelete(s)

Answered(s, p) == answer[s][p].status = "success"
Told(s, p, c) == answer[s][p].tenants[c]

\* Faulty variant: the tenants of a deleted partner are left alone.
TenantGoes_OfAnswers(s, p, c) ==
  HadTenant(s, p, c) \in Live /\ Answered(s, p) /\ Told(s, p, c) = "absent"

TenantGoes(s, p, c) ==
  /\ HadTenant(s, p, c) \in Live
  /\ p \in PartnersToDelete(s) \/ (Answered(s, p) /\ Told(s, p, c) = "absent")

TenantComes(s, p, c) ==
  Answered(s, p) /\ Told(s, p, c) \in Live /\ HadTenant(s, p, c) # Told(s, p, c)

\* Faulty variant: UM's answer is written as it is.
TenantAfter_AsTold(s, p, c) ==
  IF Answered(s, p) THEN Told(s, p, c)
  ELSE IF TenantGoes(s, p, c) THEN "deleted" ELSE tenant[p][c]

TenantAfter(s, p, c) ==
  IF TenantComes(s, p, c) THEN Told(s, p, c)
  ELSE IF TenantGoes(s, p, c) THEN "deleted" ELSE tenant[p][c]

-----------------------------------------------------------------------------
(* The handler.                                                             *)

SyncGoes(s, from, to) == pc[s] = from /\ pc' = [pc EXCEPT ![s] = to]

Mishap == mishaps < MaxMishaps /\ mishaps' = mishaps + 1

ReadRows(s) ==
  /\ SyncGoes(s, "idle", "ask_partners")
  /\ existing' = [existing EXCEPT ![s] = [partner |-> partner, tenant |-> tenant]]
  /\ UNCHANGED <<um, rowVars, token, seen, answer, changes, mishaps>>

\* Faulty variant: a refused token is not exchanged.
TokenAtLast_Kept == IF token = "none" THEN "good" ELSE token

(* umRequest: a token if there is none (ensureToken), and another if UM    *)
(* refuses it, both of which can fail like the request itself.             *)
TokenAtLast == "good"

RequestSucceeds == TokenAtLast = "good" /\ token' = TokenAtLast /\ UNCHANGED mishaps

RequestFails ==
  /\ token' \in {token, TokenAtLast}
  /\ Mishap \/ (TokenAtLast # "good" /\ UNCHANGED mishaps)

AskPartners(s) ==
  /\ \/ /\ SyncGoes(s, "ask_partners", "ask_tenants")
        /\ seen' = [seen EXCEPT ![s] = {p \in Partners : um[p].listed}]
        /\ RequestSucceeds
     \/ /\ SyncGoes(s, "ask_partners", "idle")
        /\ UNCHANGED seen
        /\ RequestFails
  /\ UNCHANGED <<um, rowVars, existing, answer, changes>>

(* The requests of Promise.all are answered in any order.  Of a partner it *)
(* does not have, UM knows no tenants.                                     *)
AskTenants(s, p) ==
  /\ pc[s] = "ask_tenants"
  /\ p \in PartnersToAsk(s)
  /\ answer[s][p] = NoAnswer
  /\ \/ answer' = [answer EXCEPT ![s][p] = Success(um[p].tenants)] /\ RequestSucceeds
     \/ answer' = [answer EXCEPT ![s][p] = Failure] /\ RequestFails
  /\ UNCHANGED <<um, rowVars, pc, existing, seen, changes>>

(* A fetch that throws, or a transaction that cannot be committed, ends    *)
(* the sync; pg-boss starts it anew.                                       *)
SyncThrows(s) ==
  /\ pc[s] # "idle"
  /\ pc' = [pc EXCEPT ![s] = "idle"]
  /\ answer' = [answer EXCEPT ![s] = [p \in Partners |-> NoAnswer]]
  /\ Mishap
  /\ UNCHANGED <<um, rowVars, token, existing, seen, changes>>

AllAnswered(s) ==
  /\ SyncGoes(s, "ask_tenants", "write")
  /\ \A p \in PartnersToAsk(s) : answer[s][p] # NoAnswer
  /\ UNCHANGED <<um, rowVars, token, existing, seen, answer, changes, mishaps>>

(* createMany throws on a row that exists by now.                          *)
Conflict(s) ==
  \/ \E p \in PartnersToCreate(s) : partner[p] # "none"
  \/ \E p \in PartnersToAsk(s), c \in Codes :
       TenantComes(s, p, c) /\ HadTenant(s, p, c) = "none" /\ tenant[p][c] # "none"

(* The transaction writes everything or, on a conflict, nothing.           *)
Write(s) ==
  /\ SyncGoes(s, "write", "idle")
  /\ IF Conflict(s) THEN UNCHANGED rowVars
     ELSE /\ partner' = [p \in Partners |->
               IF p \in PartnersToCreate(s) \cup PartnersToUndelete(s) THEN "live"
               ELSE IF p \in PartnersToDelete(s) THEN "deleted" ELSE partner[p]]
          /\ tenant' = [p \in Partners |-> [c \in Codes |-> TenantAfter(s, p, c)]]
  /\ answer' = [answer EXCEPT ![s] = [p \in Partners |-> NoAnswer]]
  /\ UNCHANGED <<um, token, existing, seen, changes, mishaps>>

-----------------------------------------------------------------------------
(* The surroundings.                                                        *)

Change == changes < MaxChanges /\ changes' = changes + 1

UmChanges ==
  /\ Change
  /\ \E p \in Partners, to \in UmPartners : um' = [um EXCEPT ![p] = to]
  /\ UNCHANGED <<rowVars, token, syncVars, mishaps>>

TokenLapses ==
  /\ token = "good"
  /\ Mishap
  /\ token' \in {"none", "refused"}
  /\ UNCHANGED <<um, rowVars, syncVars, changes>>

(* findOrCreateUserAndTenantForIdp: connectOrCreate of the claim's tenant. *)
LoginCreatesTenant(p, c) ==
  /\ Change
  /\ partner[p] # "none"
  /\ tenant[p][c] = "none"
  /\ tenant' = [tenant EXCEPT ![p][c] = "local"]
  /\ UNCHANGED <<um, partner, token, syncVars, mishaps>>

SyncStep(s) ==
  \/ ReadRows(s)
  \/ AskPartners(s)
  \/ \E p \in Partners : AskTenants(s, p)
  \/ SyncThrows(s)
  \/ AllAnswered(s)
  \/ Write(s)

Next ==
  \/ \E s \in Syncs : SyncStep(s)
  \/ UmChanges
  \/ TokenLapses
  \/ \E p \in Partners, c \in Codes : LoginCreatesTenant(p, c)

Spec == Init /\ [][Next]_vars

(* The schedule starts a sync every night, and each comes to its end.      *)
FairSpec == Spec /\ \A s \in Syncs : WF_vars(SyncStep(s))

-----------------------------------------------------------------------------
InSyncPartner(p) ==
  /\ (partner[p] = "live") = um[p].listed
  /\ \A c \in Codes :
       IF um[p].tenants[c] = "absent" THEN tenant[p][c] \notin Live
                                      ELSE tenant[p][c] = um[p].tenants[c]

(* The rows become what UM says and stay so once it stops changing: no     *)
(* lapsed token, failed request, login or overlapping sync leaves behind a *)
(* difference that later syncs do not see (FairSpec).                      *)
EventuallyInSync == <>[](\A p \in Managed : InSyncPartner(p))

(* One sync is enough for a partner: if its copy still holds when it       *)
(* writes, and what UM told it of the partner does, the partner is in sync *)
(* afterwards, whatever failed for other partners.                         *)
CopyHolds(s) == existing[s] = [partner |-> partner, tenant |-> tenant]
Knows(s, p) ==
  /\ (p \in seen[s]) = um[p].listed
  /\ p \in PartnersToAsk(s) => answer[s][p] = Success(um[p].tenants)

OneSyncIsEnough ==
  [][\A s \in Syncs : Write(s) /\ CopyHolds(s) =>
       \A p \in Managed : Knows(s, p) => InSyncPartner(p)']_vars

(* Partners that somebody else manages, and their tenants, are left alone, *)
(* also if UM knows a partner of the same code.                            *)
UnmanagedLeftAlone ==
  [][\A s \in Syncs : SyncStep(s) =>
       \A p \in Unmanaged : partner'[p] = partner[p] /\ tenant'[p] = tenant[p]]_vars

=============================================================================

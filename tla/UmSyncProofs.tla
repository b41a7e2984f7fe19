----------------------------- MODULE UmSyncProofs -----------------------------
(***************************************************************************)
(* Theorems about UmSync, for every set of partners, tenant codes and      *)
(* syncs under way, and however often UM changes, its requests fail and    *)
(* users log in.                                                           *)
(*                                                                         *)
(* What a sync writes depends on three things that it read at three        *)
(* moments: its copy of the rows, UM's partners and UM's tenants.  The     *)
(* invariant says how they belong together: an answer is one to a question *)
(* that the copy and the partners gave rise to, a tenant has a partner, in *)
(* the copy as in the rows, and a partner that was there is there still.   *)
(***************************************************************************)
EXTENDS UmSync, TLAPS

UnmanagedStay ==
  \A p \in Unmanaged : partner[p] = "live" /\ \A s \in Syncs : existing[s].partner[p] = "live"

AnswersAreAsked ==
  \A s \in Syncs : \A p \in Partners :
    answer[s][p] # NoAnswer => p \in PartnersToAsk(s) /\ pc[s] \in {"ask_tenants", "write"}

TenantsHavePartners ==
  \A p \in Partners :
    /\ partner[p] = "none" => \A c \in Codes : tenant[p][c] = "none"
    /\ \A s \in Syncs :
         IF Had(s, p) = "none" THEN \A c \in Codes : HadTenant(s, p, c) = "none"
                               ELSE partner[p] # "none"

SyncInv == TypeOK /\ UnmanagedStay /\ AnswersAreAsked /\ TenantsHavePartners

-----------------------------------------------------------------------------
(* Types.                                                                   *)

Rows == [partner : PartnerRows, tenant : TenantRows]
Tenants == [Codes -> Live \cup {"absent"}]
Answers == {NoAnswer, Failure} \cup {Success(t) : t \in Tenants}

LEMMA AnswerTypes ==
  /\ NoPartner.tenants \in Tenants
  /\ \A a \in Answers : a.tenants \in Tenants
  /\ NoAnswer \in Answers /\ Failure \in Answers /\ \A t \in Tenants : Success(t) \in Answers
  /\ NoAnswer # Failure /\ \A t : Success(t) # NoAnswer /\ Success(t).status = "success"
                                  /\ Success(t).tenants = t
  /\ NoAnswer.status # "success" /\ Failure.status # "success"
<1>1. NoPartner.tenants \in Tenants
  BY DEF NoPartner, Tenants
<1>2. /\ NoAnswer.tenants = NoPartner.tenants /\ NoAnswer.status = "none"
      /\ Failure.tenants = NoPartner.tenants /\ Failure.status = "failure"
      /\ \A t : Success(t).tenants = t /\ Success(t).status = "success"
  BY DEF NoAnswer, Failure, Success
<1>3. NoAnswer \in Answers /\ Failure \in Answers /\ \A t \in Tenants : Success(t) \in Answers
  BY DEF Answers
<1>4. \A a \in Answers : a.tenants \in Tenants
  BY <1>1, <1>2 DEF Answers
<1>5. NoAnswer # Failure /\ \A t : Success(t) # NoAnswer
  <2>1. "none" # "failure" /\ "success" # "none"
    OBVIOUS
  <2> QED
    BY <1>2, <2>1
<1> QED
  BY <1>1, <1>2, <1>3, <1>4, <1>5

LEMMA UmTenants ==
  \A u \in UmPartners : u.tenants \in Tenants /\ (~u.listed => u.tenants = NoPartner.tenants)
<1> SUFFICES ASSUME NEW u \in UmPartners
             PROVE  u.tenants \in Tenants /\ (~u.listed => u.tenants = NoPartner.tenants)
  OBVIOUS
<1>1. CASE u = NoPartner
  BY <1>1, AnswerTypes
<1>2. CASE u \in [listed : {TRUE}, tenants : Tenants]
  BY <1>2
<1> QED
  BY <1>1, <1>2 DEF UmPartners, Tenants

(* A request changes the token and, if it fails, the number of mishaps.    *)
LEMMA RequestTypes ==
  ASSUME TypeOK, RequestSucceeds \/ RequestFails
  PROVE  token' \in {"none", "good", "refused"} /\ mishaps' \in 0..MaxMishaps
BY ConstantsOK DEF TypeOK, RequestSucceeds, RequestFails, TokenAtLast, Mishap

LEMMA Counted ==
  /\ TypeOK /\ Mishap => mishaps' \in 0..MaxMishaps
  /\ TypeOK /\ Change => changes' \in 0..MaxChanges
BY ConstantsOK DEF TypeOK, Mishap, Change

LEMMA WrittenTypes ==
  ASSUME TypeOK, NEW s \in Syncs, Write(s)
  PROVE  partner' \in PartnerRows /\ tenant' \in TenantRows
<1>1. /\ partner \in PartnerRows /\ tenant \in TenantRows
      /\ answer[s] \in [Partners -> Answers]
  BY DEF TypeOK, Answers, Tenants
<1>2. \A p \in Partners, c \in Codes : TenantAfter(s, p, c) \in Live \cup {"none", "deleted"}
  BY <1>1 DEF TenantAfter, TenantComes, TenantRows
<1> QED
  BY <1>1, <1>2 DEF Write, rowVars, PartnerRows, TenantRows

LEMMA TypesKept == TypeOK /\ [Next]_vars => TypeOK'
<1> SUFFICES ASSUME TypeOK, [Next]_vars PROVE TypeOK'
  OBVIOUS
<1>0. /\ existing \in [Syncs -> Rows] /\ pc \in [Syncs -> Asking \cup {"write"}]
      /\ answer \in [Syncs -> [Partners -> Answers]] /\ seen \in [Syncs -> SUBSET Partners]
      /\ um \in [Partners -> UmPartners]
      /\ [p \in Partners |-> NoAnswer] \in [Partners -> Answers]
  BY AnswerTypes DEF TypeOK, Rows, Answers, Tenants
<1>1. ASSUME NEW s \in Syncs, ReadRows(s) PROVE TypeOK'
  <2>1. [partner |-> partner, tenant |-> tenant] \in Rows
    BY DEF TypeOK, Rows
  <2>2. existing' \in [Syncs -> Rows] /\ pc' \in [Syncs -> Asking \cup {"write"}]
    BY <1>0, <1>1, <2>1 DEF ReadRows, SyncGoes, Asking
  <2> QED
    BY <1>1, <2>2 DEF TypeOK, ReadRows, rowVars, Rows
<1>2. ASSUME NEW s \in Syncs, AskPartners(s) PROVE TypeOK'
  <2>1. pc' \in [Syncs -> Asking \cup {"write"}] /\ seen' \in [Syncs -> SUBSET Partners]
    BY <1>0, <1>2 DEF AskPartners, SyncGoes, Asking
  <2>2. token' \in {"none", "good", "refused"} /\ mishaps' \in 0..MaxMishaps
    BY <1>2, RequestTypes DEF AskPartners
  <2> QED
    BY <1>2, <2>1, <2>2 DEF TypeOK, AskPartners, rowVars
<1>3. ASSUME NEW s \in Syncs, NEW p \in Partners, AskTenants(s, p) PROVE TypeOK'
  <2>1. Success(um[p].tenants) \in Answers /\ Failure \in Answers
    BY <1>0, AnswerTypes, UmTenants
  <2>2. answer' \in [Syncs -> [Partners -> Answers]]
    <3>1. PICK a \in Answers : answer' = [answer EXCEPT ![s][p] = a]
      BY <1>3, <2>1 DEF AskTenants
    <3>2. [answer[s] EXCEPT ![p] = a] \in [Partners -> Answers]
      BY <1>0
    <3> QED
      BY <1>0, <3>1, <3>2
  <2>3. token' \in {"none", "good", "refused"} /\ mishaps' \in 0..MaxMishaps
    BY <1>3, RequestTypes DEF AskTenants
  <2> QED
    BY <1>3, <2>2, <2>3 DEF TypeOK, AskTenants, rowVars, Answers, Tenants
<1>4. ASSUME NEW s \in Syncs, SyncThrows(s) PROVE TypeOK'
  <2>1. pc' \in [Syncs -> Asking \cup {"write"}] /\ answer' \in [Syncs -> [Partners -> Answers]]
    BY <1>0, <1>4 DEF SyncThrows, Asking
  <2>2. mishaps' \in 0..MaxMishaps
    BY <1>4, Counted DEF SyncThrows
  <2> QED
    BY <1>4, <2>1, <2>2 DEF TypeOK, SyncThrows, rowVars, Answers, Tenants
<1>5. ASSUME NEW s \in Syncs, AllAnswered(s) PROVE TypeOK'
  <2>1. pc' \in [Syncs -> Asking \cup {"write"}]
    BY <1>0, <1>5 DEF AllAnswered, SyncGoes
  <2> QED
    BY <1>5, <2>1 DEF TypeOK, AllAnswered, rowVars
<1>6. ASSUME NEW s \in Syncs, Write(s) PROVE TypeOK'
  <2>1. pc' \in [Syncs -> Asking \cup {"write"}] /\ answer' \in [Syncs -> [Partners -> Answers]]
    BY <1>0, <1>6 DEF Write, SyncGoes, Asking
  <2>2. partner' \in PartnerRows /\ tenant' \in TenantRows
    BY <1>6, WrittenTypes
  <2> QED
    BY <1>6, <2>1, <2>2 DEF TypeOK, Write, Answers, Tenants
<1>7. CASE UmChanges
  <2>1. um' \in [Partners -> UmPartners]
    BY <1>0, <1>7 DEF UmChanges
  <2>2. changes' \in 0..MaxChanges
    BY <1>7, Counted DEF UmChanges
  <2> QED
    BY <1>7, <2>1, <2>2 DEF TypeOK, UmChanges, rowVars, syncVars
<1>8. CASE TokenLapses
  <2>1. mishaps' \in 0..MaxMishaps
    BY <1>8, Counted DEF TokenLapses
  <2> QED
    BY <1>8, <2>1 DEF TypeOK, TokenLapses, rowVars, syncVars
<1>9. ASSUME NEW p \in Partners, NEW c \in Codes, LoginCreatesTenant(p, c) PROVE TypeOK'
  <2>1. tenant' \in TenantRows
    BY <1>9 DEF LoginCreatesTenant, TypeOK, TenantRows, Live
  <2>2. changes' \in 0..MaxChanges
    BY <1>9, Counted DEF LoginCreatesTenant
  <2> QED
    BY <1>9, <2>1, <2>2 DEF TypeOK, LoginCreatesTenant, syncVars
<1>10. CASE UNCHANGED vars
  BY <1>10 DEF vars, TypeOK
<1> QED
  BY <1>1, <1>2, <1>3, <1>4, <1>5, <1>6, <1>7, <1>8, <1>9, <1>10 DEF Next, SyncStep

LEMMA TypesAtFirst == Init => TypeOK
<1> SUFFICES ASSUME Init PROVE TypeOK
  OBVIOUS
<1>1. partner \in PartnerRows /\ tenant \in TenantRows
  BY DEF Init, PartnerRows, TenantRows
<1>2. existing \in [Syncs -> Rows]
  BY <1>1 DEF Init, Rows
<1>3. answer \in [Syncs -> [Partners -> Answers]]
  BY AnswerTypes DEF Init
<1>4. changes \in 0..MaxChanges /\ mishaps \in 0..MaxMishaps
  BY ConstantsOK DEF Init
<1> QED
  BY <1>1, <1>2, <1>3, <1>4 DEF Init, TypeOK, Rows, Answers, Tenants, Asking

(* Type correctness: in particular what a sync writes is a row.            *)
THEOREM UmSyncTypeCorrect == Spec => []TypeOK
BY TypesAtFirst, TypesKept, PTL DEF Spec

-----------------------------------------------------------------------------
(* The invariant.                                                           *)

LEMMA Untouched ==
  ASSUME TypeOK, NEW s \in Syncs, SyncStep(s), NEW t \in Syncs, t # s
  PROVE  pc'[t] = pc[t] /\ existing'[t] = existing[t] /\ seen'[t] = seen[t] /\ answer'[t] = answer[t]
<1>0. s \in DOMAIN pc /\ s \in DOMAIN existing /\ s \in DOMAIN seen /\ s \in DOMAIN answer
      /\ t \in DOMAIN pc /\ t \in DOMAIN existing /\ t \in DOMAIN seen /\ t \in DOMAIN answer
  BY DEF TypeOK
<1>1. CASE ReadRows(s) \/ AskPartners(s) \/ AllAnswered(s)
  BY <1>0, <1>1 DEF ReadRows, AskPartners, AllAnswered, SyncGoes
<1>2. CASE \E p \in Partners : AskTenants(s, p)
  BY <1>0, <1>2 DEF AskTenants
<1>3. CASE SyncThrows(s) \/ Write(s)
  BY <1>0, <1>3 DEF SyncThrows, Write, SyncGoes
<1> QED
  BY <1>1, <1>2, <1>3 DEF SyncStep

(* Who writes.                                                              *)
LEMMA SyncFrame ==
  ASSUME NEW s \in Syncs, SyncStep(s)
  PROVE  /\ Write(s) \/ UNCHANGED rowVars
         /\ ReadRows(s) \/ UNCHANGED existing
         /\ UNCHANGED um
BY DEF SyncStep, ReadRows, AskPartners, AskTenants, SyncThrows, AllAnswered, Write

(* The copy that a sync has made.                                           *)
LEMMA Copied ==
  ASSUME TypeOK, NEW s \in Syncs, ReadRows(s)
  PROVE  existing'[s].partner = partner /\ existing'[s].tenant = tenant
<1>1. existing'[s] = [partner |-> partner, tenant |-> tenant]
  BY DEF TypeOK, ReadRows
<1> QED
  BY <1>1

(* What a write does to a partner.                                          *)
LEMMA Written ==
  ASSUME TypeOK, NEW s \in Syncs, Write(s), NEW p \in Partners
  PROVE  \/ partner'[p] = partner[p] /\ tenant'[p] = tenant[p]
         \/ /\ ~Conflict(s)
            /\ partner'[p] = IF p \in PartnersToCreate(s) \cup PartnersToUndelete(s) THEN "live"
                             ELSE IF p \in PartnersToDelete(s) THEN "deleted" ELSE partner[p]
            /\ tenant'[p] = [c \in Codes |-> TenantAfter(s, p, c)]
BY DEF Write, rowVars

LEMMA UnmanagedKept ==
  ASSUME TypeOK, UnmanagedStay, AnswersAreAsked, NEW s \in Syncs, SyncStep(s), NEW p \in Unmanaged
  PROVE  partner'[p] = partner[p] /\ tenant'[p] = tenant[p]
<1>1. CASE UNCHANGED rowVars
  BY <1>1 DEF rowVars
<1>2. CASE Write(s)
  <2>1. /\ p \in Partners /\ p \notin Managed /\ Had(s, p) = "live"
        /\ tenant[p] \in [Codes -> Live \cup {"none", "deleted"}]
    BY ConstantsOK DEF Managed, UnmanagedStay, Had, TypeOK, TenantRows
  <2>2. p \notin PartnersToCreate(s) /\ p \notin PartnersToUndelete(s) /\ p \notin PartnersToDelete(s)
        /\ p \notin PartnersToAsk(s)
    BY <2>1 DEF PartnersToCreate, PartnersToUndelete, PartnersToDelete, PartnersToAsk
  <2>3. ~Answered(s, p)
    BY <2>1, <2>2, AnswerTypes DEF AnswersAreAsked, Answered
  <2>4. \A c \in Codes : TenantAfter(s, p, c) = tenant[p][c]
    BY <2>2, <2>3 DEF TenantAfter, TenantComes, TenantGoes
  <2>5. tenant[p] = [c \in Codes |-> TenantAfter(s, p, c)]
    BY <2>1, <2>4
  <2> QED
    BY <1>2, <2>1, <2>2, <2>5, Written
<1> QED
  BY <1>1, <1>2, SyncFrame

LEMMA UnmanagedKeptByAll == SyncInv /\ [Next]_vars => UnmanagedStay'
<1> SUFFICES ASSUME SyncInv, [Next]_vars PROVE UnmanagedStay'
  OBVIOUS
<1> USE DEF SyncInv
<1>1. ASSUME NEW s \in Syncs, SyncStep(s) PROVE UnmanagedStay'
  <2> SUFFICES ASSUME NEW p \in Unmanaged, NEW t \in Syncs
               PROVE  partner'[p] = "live" /\ existing'[t].partner[p] = "live"
    BY DEF UnmanagedStay
  <2>1. partner'[p] = "live"
    BY <1>1, UnmanagedKept DEF UnmanagedStay
  <2>2. existing'[t].partner[p] = "live"
    <3>1. CASE t = s /\ ReadRows(s)
      BY <1>1, <3>1, Copied DEF UnmanagedStay
    <3>2. CASE existing'[t] = existing[t]
      BY <3>2 DEF UnmanagedStay
    <3> QED
      BY <1>1, <3>1, <3>2, SyncFrame, Untouched
  <2> QED
    BY <2>1, <2>2
<1>2. CASE UmChanges \/ TokenLapses \/ UNCHANGED vars \/ \E p \in Partners, c \in Codes : LoginCreatesTenant(p, c)
  <2>1. partner' = partner /\ existing' = existing
    BY <1>2 DEF UmChanges, TokenLapses, LoginCreatesTenant, vars, rowVars, syncVars
  <2> QED
    BY <2>1 DEF UnmanagedStay
<1> QED
  BY <1>1, <1>2 DEF Next

(* Answers belong to the questions of this sync.                           *)
LEMMA AnswersKept == SyncInv /\ [Next]_vars => AnswersAreAsked'
<1> SUFFICES ASSUME SyncInv, [Next]_vars PROVE AnswersAreAsked'
  OBVIOUS
<1> USE DEF SyncInv
<1>1. ASSUME NEW s \in Syncs, SyncStep(s) PROVE AnswersAreAsked'
  <2> SUFFICES ASSUME NEW t \in Syncs, NEW p \in Partners, answer'[t][p] # NoAnswer
               PROVE  p \in PartnersToAsk(t)' /\ pc'[t] \in {"ask_tenants", "write"}
    BY DEF AnswersAreAsked
  <2>0. /\ pc \in [Syncs -> Asking \cup {"write"}] /\ answer \in [Syncs -> [Partners -> Answers]]
        /\ t \in DOMAIN pc
    BY DEF TypeOK, Answers, Tenants
  <2>1. ASSUME existing'[t] = existing[t], seen'[t] = seen[t] PROVE PartnersToAsk(t)' = PartnersToAsk(t)
    BY <2>1 DEF PartnersToAsk, PartnersToDelete, Had
  <2>2. CASE t # s
    BY <1>1, <2>1, <2>2, Untouched DEF AnswersAreAsked
  <2>3. CASE t = s /\ (ReadRows(s) \/ AskPartners(s))
    <3>1. answer' = answer /\ pc[t] \in {"idle", "ask_partners"}
      BY <2>3 DEF ReadRows, AskPartners, SyncGoes
    <3> QED
      BY <3>1 DEF AnswersAreAsked
  <2>4. CASE t = s /\ \E q \in Partners : AskTenants(s, q)
    <3>1. PICK q \in Partners : AskTenants(s, q)
      BY <2>4
    <3>2. /\ pc' = pc /\ pc[t] = "ask_tenants" /\ existing' = existing /\ seen' = seen
          /\ q \in PartnersToAsk(t) /\ \A r \in Partners : r # q => answer'[t][r] = answer[t][r]
      BY <2>0, <2>4, <3>1 DEF AskTenants
    <3>3. p \in PartnersToAsk(t)
      BY <3>2 DEF AnswersAreAsked
    <3> QED
      BY <2>1, <3>2, <3>3
  <2>5. CASE t = s /\ (SyncThrows(s) \/ Write(s))
    BY <2>0, <2>5 DEF SyncThrows, Write
  <2>6. CASE t = s /\ AllAnswered(s)
    <3>1. pc'[t] = "write" /\ answer' = answer /\ existing' = existing /\ seen' = seen
      BY <2>0, <2>6 DEF AllAnswered, SyncGoes
    <3> QED
      BY <2>1, <3>1 DEF AnswersAreAsked
  <2> QED
    BY <1>1, <2>2, <2>3, <2>4, <2>5, <2>6 DEF SyncStep
<1>2. CASE UmChanges \/ TokenLapses \/ UNCHANGED vars \/ \E p \in Partners, c \in Codes : LoginCreatesTenant(p, c)
  <2>1. answer' = answer /\ existing' = existing /\ seen' = seen /\ pc' = pc
    BY <1>2 DEF UmChanges, TokenLapses, LoginCreatesTenant, vars, rowVars, syncVars
  <2> QED
    BY <2>1 DEF AnswersAreAsked, PartnersToAsk, PartnersToDelete, Had
<1> QED
  BY <1>1, <1>2 DEF Next

(* A partner once there is there, and no tenant comes without one.         *)
LEMMA WriteKeepsPartners ==
  ASSUME SyncInv, NEW s \in Syncs, Write(s), NEW p \in Partners
  PROVE  /\ partner[p] # "none" => partner'[p] # "none"
         /\ partner'[p] = "none" => \A c \in Codes : tenant'[p][c] = "none"
<1> USE DEF SyncInv
<1>1. partner[p] # "none" => partner'[p] # "none"
  BY Written
<1>2. ASSUME partner'[p] = "none", NEW c \in Codes PROVE tenant'[p][c] = "none"
  <2>1. partner[p] = "none" /\ tenant[p][c] = "none" /\ Had(s, p) = "none" /\ HadTenant(s, p, c) = "none"
    BY <1>1, <1>2 DEF TenantsHavePartners
  <2>2. CASE partner'[p] = partner[p] /\ tenant'[p] = tenant[p]
    BY <2>1, <2>2
  <2>3. CASE p \notin PartnersToCreate(s) /\ tenant'[p] = [d \in Codes |-> TenantAfter(s, p, d)]
    <3>1. p \notin seen[s]
      BY <2>1, <2>3 DEF PartnersToCreate, TypeOK
    <3>2. p \notin PartnersToAsk(s) /\ ~Answered(s, p)
      BY <2>1, <3>1, AnswerTypes DEF PartnersToAsk, AnswersAreAsked, Answered
    <3>3. TenantAfter(s, p, c) = tenant[p][c]
      BY <2>1, <3>2 DEF TenantAfter, TenantComes, TenantGoes, Live
    <3> QED
      BY <2>1, <2>3, <3>3
  <2> QED
    BY <1>2, <2>2, <2>3, Written
<1> QED
  BY <1>1, <1>2

LEMMA PartnersKept == SyncInv /\ [Next]_vars => TenantsHavePartners'
<1> SUFFICES ASSUME SyncInv, [Next]_vars PROVE TenantsHavePartners'
  OBVIOUS
<1> USE DEF SyncInv
<1>1. ASSUME NEW s \in Syncs, SyncStep(s) PROVE TenantsHavePartners'
  <2>1. ASSUME NEW p \in Partners
        PROVE  /\ partner[p] # "none" => partner'[p] # "none"
               /\ partner'[p] = "none" => \A c \in Codes : tenant'[p][c] = "none"
    BY <1>1, WriteKeepsPartners, SyncFrame DEF rowVars, TenantsHavePartners
  <2>2. ASSUME NEW p \in Partners, NEW t \in Syncs
        PROVE  IF Had(t, p)' = "none" THEN \A c \in Codes : HadTenant(t, p, c)' = "none"
                                      ELSE partner'[p] # "none"
    <3>1. CASE t = s /\ ReadRows(s)
      <4>1. /\ Had(t, p)' = partner[p] /\ \A c \in Codes : HadTenant(t, p, c)' = tenant[p][c]
        BY <1>1, <3>1, Copied DEF Had, HadTenant
      <4> QED
        BY <2>1, <4>1 DEF TenantsHavePartners
    <3>2. CASE existing'[t] = existing[t]
      BY <2>1, <3>2 DEF TenantsHavePartners, Had, HadTenant
    <3> QED
      BY <1>1, <3>1, <3>2, SyncFrame, Untouched
  <2> QED
    BY <2>1, <2>2 DEF TenantsHavePartners
<1>2. ASSUME NEW q \in Partners, NEW d \in Codes, LoginCreatesTenant(q, d) PROVE TenantsHavePartners'
  <2>1. partner' = partner /\ existing' = existing /\ partner[q] # "none"
        /\ \A p \in Partners : p # q => tenant'[p] = tenant[p]
    BY <1>2 DEF LoginCreatesTenant, syncVars, TypeOK, TenantRows
  <2> QED
    BY <2>1 DEF TenantsHavePartners, Had, HadTenant
<1>3. CASE UmChanges \/ TokenLapses \/ UNCHANGED vars
  <2>1. partner' = partner /\ existing' = existing /\ tenant' = tenant
    BY <1>3 DEF UmChanges, TokenLapses, vars, rowVars, syncVars
  <2> QED
    BY <2>1 DEF TenantsHavePartners, Had, HadTenant
<1> QED
  BY <1>1, <1>2, <1>3 DEF Next

LEMMA SyncInvAtFirst == Init => SyncInv
<1> SUFFICES ASSUME Init PROVE SyncInv
  OBVIOUS
<1>1. TypeOK
  BY TypesAtFirst
<1>2. \A s \in Syncs : existing[s].partner = partner /\ existing[s].tenant = tenant
  BY DEF Init
<1>3. UnmanagedStay
  BY <1>2, ConstantsOK DEF Init, UnmanagedStay
<1>4. AnswersAreAsked
  BY DEF Init, AnswersAreAsked
<1>5. TenantsHavePartners
  BY <1>2 DEF Init, TenantsHavePartners, Had, HadTenant
<1> QED
  BY <1>1, <1>3, <1>4, <1>5 DEF SyncInv

THEOREM UmSyncInvariant == Spec => []SyncInv
<1>1. SyncInv /\ [Next]_vars => SyncInv'
  BY TypesKept, UnmanagedKeptByAll, AnswersKept, PartnersKept DEF SyncInv
<1> QED
  BY <1>1, SyncInvAtFirst, PTL DEF Spec

-----------------------------------------------------------------------------
(* What follows of a step.                                                  *)

(* A write whose copy of a partner holds leaves the partner as UM told it. *)
LEMMA WriteSettles ==
  ASSUME SyncInv, NEW s \in Syncs, Write(s), CopyHolds(s), NEW p \in Managed, Knows(s, p)
  PROVE  InSyncPartner(p)'
<1> USE DEF SyncInv
<1>0. /\ p \in Partners /\ um' = um /\ seen[s] \subseteq Partners
      /\ um[p] \in UmPartners /\ um[p].tenants \in Tenants /\ (~um[p].listed => um[p].tenants = NoPartner.tenants)
      /\ partner \in PartnerRows /\ tenant \in TenantRows
  BY SyncFrame, UmTenants DEF Managed, TypeOK, Write
<1>1. /\ \A q \in Partners : Had(s, q) = partner[q]
      /\ \A q \in Partners, c \in Codes : HadTenant(s, q, c) = tenant[q][c]
  <2>1. existing[s].partner = partner /\ existing[s].tenant = tenant
    BY DEF CopyHolds
  <2> QED
    BY <2>1 DEF Had, HadTenant
<1>2. ~Conflict(s)
  <2>1. \A q \in PartnersToCreate(s) : partner[q] = "none"
    BY <1>0, <1>1 DEF PartnersToCreate
  <2>2. PartnersToAsk(s) \subseteq Partners
    BY DEF PartnersToAsk, Managed
  <2> QED
    BY <1>1, <2>1, <2>2 DEF Conflict
<1>3. /\ partner'[p] = IF p \in PartnersToCreate(s) \cup PartnersToUndelete(s) THEN "live"
                       ELSE IF p \in PartnersToDelete(s) THEN "deleted" ELSE partner[p]
      /\ \A c \in Codes : tenant'[p][c] = TenantAfter(s, p, c)
  BY <1>0, <1>2 DEF Write
<1>4. (partner'[p] = "live") = um[p].listed
  <2>1. (p \in seen[s]) = um[p].listed /\ partner[p] \in {"none", "live", "deleted"}
    BY <1>0 DEF Knows, PartnerRows
  <2>2. CASE p \in seen[s]
    <3>1. partner'[p] = "live"
      BY <1>0, <1>1, <1>3, <2>1, <2>2 DEF PartnersToCreate, PartnersToUndelete, PartnersToDelete
    <3> QED
      BY <2>1, <2>2, <3>1
  <2>3. CASE p \notin seen[s]
    <3>1. partner'[p] # "live"
      BY <1>0, <1>1, <1>3, <2>1, <2>3 DEF PartnersToCreate, PartnersToUndelete, PartnersToDelete
    <3> QED
      BY <2>1, <2>3, <3>1
  <2> QED
    BY <2>2, <2>3
<1>5. ASSUME NEW c \in Codes
      PROVE  IF um[p].tenants[c] = "absent" THEN tenant'[p][c] \notin Live
                                            ELSE tenant'[p][c] = um[p].tenants[c]
  <2>1. um[p].tenants[c] \in Live \cup {"absent"} /\ tenant[p][c] \in Live \cup {"none", "deleted"}
        /\ HadTenant(s, p, c) = tenant[p][c] /\ tenant'[p][c] = TenantAfter(s, p, c)
    BY <1>0, <1>1, <1>3 DEF Tenants, TenantRows
  <2>2. CASE p \in PartnersToAsk(s)
    <3>1. Answered(s, p) /\ Told(s, p, c) = um[p].tenants[c] /\ p \notin PartnersToDelete(s)
      BY <2>2, AnswerTypes DEF Knows, Answered, Told, PartnersToAsk
    <3>2. CASE um[p].tenants[c] = "absent"
      BY <2>1, <3>1, <3>2 DEF TenantAfter, TenantComes, TenantGoes, Live
    <3>3. CASE um[p].tenants[c] \in Live
      BY <2>1, <3>1, <3>3 DEF TenantAfter, TenantComes, TenantGoes, Live
    <3> QED
      BY <2>1, <3>2, <3>3 DEF Live
  <2>3. CASE p \notin PartnersToAsk(s)
    <3>1. ~Answered(s, p)
      BY <1>0, <2>3, AnswerTypes DEF AnswersAreAsked, Answered
    <3>2. p \in PartnersToDelete(s) \/ (p \notin seen[s] /\ Had(s, p) = "none")
      BY <1>0, <2>3 DEF PartnersToAsk
    <3>3. p \notin seen[s]
      BY <3>2 DEF PartnersToDelete
    <3>4. um[p].tenants[c] = "absent"
      BY <1>0, <3>3 DEF Knows, NoPartner
    <3>5. Had(s, p) = "none" => tenant[p][c] = "none"
      BY <1>0, <1>1 DEF TenantsHavePartners
    <3> QED
      BY <2>1, <3>1, <3>2, <3>4, <3>5 DEF TenantAfter, TenantComes, TenantGoes, Live
  <2> QED
    BY <2>2, <2>3
<1> QED
  BY <1>0, <1>4, <1>5 DEF InSyncPartner

(* One sync is enough for a partner whose rows, and what UM says of it,    *)
(* are as the sync read them, whatever fails for others (um-sync.handler). *)
THEOREM OneSyncSettles == Spec => OneSyncIsEnough
<1>1. SyncInv =>
        \A s \in Syncs : Write(s) /\ CopyHolds(s) =>
          \A p \in Managed : Knows(s, p) => InSyncPartner(p)'
  BY WriteSettles
<1> QED
  BY <1>1, UmSyncInvariant, PTL DEF OneSyncIsEnough

(* Partners whose managed_by is not this sync, and their tenants, keep     *)
(* their rows in every step of a sync.                                     *)
THEOREM UnmanagedStayAlone == Spec => UnmanagedLeftAlone
<1>1. SyncInv =>
        \A s \in Syncs : SyncStep(s) =>
          \A p \in Unmanaged : partner'[p] = partner[p] /\ tenant'[p] = tenant[p]
  BY UnmanagedKept DEF SyncInv
<1> QED
  BY <1>1, UmSyncInvariant, PTL DEF UnmanagedLeftAlone

=============================================================================

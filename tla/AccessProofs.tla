----------------------------- MODULE AccessProofs -----------------------------
(***************************************************************************)
(* Proofs about Access: a session is of the one tenant that the claims of  *)
(* its login give, has the administrator's privileges only if they give    *)
(* them, and reaches only the jobs of that tenant.                         *)
(*                                                                         *)
(* The argument is about the verification of claims: whatever the          *)
(* configuration, they give exactly one tenant (OneTenantDue), since       *)
(* without a partner claim the identity provider has one partner.  All     *)
(* else carries the verdict unchanged from login to session to job.        *)
(***************************************************************************)
EXTENDS Access, FiniteSetTheorems, TLAPS

(* What a verdict promises, from the callback to the last request.          *)
IsDue(verdict) ==
  /\ verdict.due = {verdict.tenant}
  /\ "PartnerAdmin" \in verdict.roles => verdict.admin

AccessInv ==
  /\ AccessTypeOK
  /\ \A m \in memberships : m[2] \in tenants
  /\ \A b \in Browsers : login[b] # NoOne => IsDue(login[b].as)
  /\ \A b \in Browsers : session[b] # NoOne =>
       /\ IsDue(session[b].as)
       /\ Membership(session[b]) \in memberships /\ session[b].as.tenant \in tenants
  /\ \A j \in JobIds : owner[j] # NoOne => owner[j].due = {owner[j].tenant}

-----------------------------------------------------------------------------
(* Verification.                                                            *)

(* Claims that are accepted give one tenant: the claimed code at the one   *)
(* partner that is claimed, or that uses the identity provider.            *)
LEMMA OneTenantDue ==
  ASSUME NEW claims \in Claims, NEW config \in IdpConfigs, ClaimsAccepted(claims, config),
         NEW p \in PartnersOf(claims, config)
  PROVE  /\ [partner |-> p, code |-> claims.code] \in Tenants
         /\ DueOf(claims, config) = {[partner |-> p, code |-> claims.code]}
<1>1. config.partners \subseteq Partners /\ (config.partnerClaim \/ Cardinality(config.partners) = 1)
  BY DEF IdpConfigs
<1>2. claims.code \in Codes  BY DEF ClaimsAccepted, Claims
<1>3. p \in config.partners /\ (config.partnerClaim => p = claims.partner)
  BY DEF PartnersOf
<1>4. \A q \in config.partners : (config.partnerClaim => q = claims.partner) => q = p
  <2>1. CASE config.partnerClaim  BY <1>3, <2>1
  <2>2. CASE ~config.partnerClaim
    <3>1. IsFiniteSet(config.partners)  BY <1>1, AccessConstantsOK, FS_Subset
    <3>2. PICK q : config.partners = {q}  BY <1>1, <2>2, <3>1, FS_Singleton
    <3>3. QED  BY <1>3, <3>2
  <2>3. QED  BY <2>1, <2>2
<1> DEFINE t == [partner |-> p, code |-> claims.code]
<1>5. t \in Tenants  BY <1>1, <1>2, <1>3 DEF Tenants
<1>6. t \in DueOf(claims, config)
  <2>1. t.code = claims.code /\ t.partner = p  OBVIOUS
  <2>2. QED  BY <1>3, <1>5, <2>1 DEF DueOf
<1>7. ASSUME NEW u \in DueOf(claims, config) PROVE u = t
  <2>1. /\ u \in Tenants /\ u.code = claims.code /\ u.partner \in config.partners
        /\ config.partnerClaim => u.partner = claims.partner
    BY DEF DueOf
  <2>2. u.partner = p  BY <1>4, <2>1
  <2>3. u = [partner |-> u.partner, code |-> u.code]  BY <2>1 DEF Tenants
  <2>4. QED  BY <2>1, <2>2, <2>3
<1>8. QED  BY <1>5, <1>6, <1>7

(* The role of an administrator is given only if the claims have it, with  *)
(* the prefix where one is required.                                       *)
LEMMA AdminsAreClaimed ==
  ASSUME NEW claims \in Claims, NEW config \in IdpConfigs,
         "PartnerAdmin" \in ExtractAppRoles(claims.roles, config)
  PROVE  AdminOf(claims, config)
<1>1. PICK r \in claims.roles : r.prefixed = config.prefix /\ r.name = "PartnerAdmin"
  BY DEF ExtractAppRoles
<1>2. r \in Role  BY DEF Claims
<1>3. r = [name |-> r.name, prefixed |-> r.prefixed]  BY <1>2 DEF Role
<1>4. QED  BY <1>1, <1>3 DEF AdminOf

LEMMA VerdictsAreDue ==
  ASSUME NEW verdict \in Verdicts, verdict # NoOne
  PROVE  verdict \in Verdict /\ IsDue(verdict)
<1>1. PICK claims \in Claims, config \in IdpConfigs : verdict \in Verified(claims, config)
  BY DEF Verdicts
<1>2. ClaimsAccepted(claims, config)  BY <1>1 DEF Verified
<1>3. PICK p \in PartnersOf(claims, config) :
        verdict = [tenant |-> [partner |-> p, code |-> claims.code],
                   roles |-> ExtractAppRoles(claims.roles, config),
                   due |-> DueOf(claims, config), admin |-> AdminOf(claims, config)]
  BY <1>1, <1>2 DEF Verified
<1>4. /\ verdict.tenant = [partner |-> p, code |-> claims.code]
      /\ verdict.roles = ExtractAppRoles(claims.roles, config)
      /\ verdict.due = DueOf(claims, config)
      /\ verdict.admin = AdminOf(claims, config)
  BY <1>3
<1>5. verdict.tenant \in Tenants /\ verdict.due = {verdict.tenant}
  BY <1>2, <1>4, OneTenantDue
<1>6. verdict.roles \subseteq AppRoles  BY <1>4 DEF ExtractAppRoles
<1>7. verdict.admin \in BOOLEAN  BY <1>4 DEF AdminOf
<1>8. verdict.due \subseteq Tenants  BY <1>5
<1>9. verdict \in Verdict  BY <1>3, <1>4, <1>5, <1>6, <1>7, <1>8 DEF Verdict
<1>10. "PartnerAdmin" \in verdict.roles => verdict.admin  BY <1>4, AdminsAreClaimed
<1>11. QED  BY <1>5, <1>9, <1>10 DEF IsDue

-----------------------------------------------------------------------------
(* The invariant, step by step.                                             *)

LEMMA AccessInitHolds == AccessInit => AccessInv
  BY DEF AccessInit, AccessInv, AccessTypeOK

(* A login or a session that ends.                                          *)
LEMMA EndOfBoth ==
  ASSUME AccessInv, NEW b \in Browsers,
         login' \in {login, [login EXCEPT ![b] = NoOne]},
         session' = [session EXCEPT ![b] = NoOne],
         UNCHANGED <<memberships, tenants, owner>>
  PROVE  AccessInv'
<1>1. AccessTypeOK  BY DEF AccessInv
<1>2. login \in [Browsers -> Login \cup {NoOne}] /\ session \in [Browsers -> Session \cup {NoOne}]
  BY <1>1 DEF AccessTypeOK
<1>3. login' \in [Browsers -> Login \cup {NoOne}] /\ session' \in [Browsers -> Session \cup {NoOne}]
  BY <1>2
<1>4. AccessTypeOK'  BY <1>1, <1>3 DEF AccessTypeOK
<1>5. \A c \in Browsers : login'[c] # NoOne => login'[c] = login[c]  BY <1>2
<1>6. \A c \in Browsers : session'[c] # NoOne => session'[c] = session[c]  BY <1>2
<1>7. QED  BY <1>4, <1>5, <1>6 DEF AccessInv, Membership

(* The login becomes the session: its membership is there by then.          *)
LEMMA LogInHolds ==
  ASSUME AccessInv, NEW b \in Browsers, login[b] # NoOne, LogIn(b),
         memberships' = memberships \/ memberships' = memberships \cup {Membership(login[b])},
         tenants' = tenants \/ tenants' = tenants \cup {login[b].as.tenant},
         Membership(login[b]) \in memberships', login[b].as.tenant \in tenants',
         owner' = owner
  PROVE  AccessInv'
<1>1. AccessTypeOK  BY DEF AccessInv
<1>2. login \in [Browsers -> Login \cup {NoOne}] /\ session \in [Browsers -> Session \cup {NoOne}]
  BY <1>1 DEF AccessTypeOK
<1>3. login[b] \in Login  BY <1>2
<1>4. login[b].person \in Persons /\ login[b].as \in Verdict  BY <1>3 DEF Login
<1>5. login[b].as.tenant \in Tenants  BY <1>4 DEF Verdict
<1>6. PICK new : new = [person |-> login[b].person, as |-> login[b].as]  OBVIOUS
<1>7. new \in Session /\ new.person = login[b].person /\ new.as = login[b].as
  BY <1>4, <1>6 DEF Session
<1>8. session' = [session EXCEPT ![b] = new] /\ login' = [login EXCEPT ![b] = NoOne]
  BY <1>6 DEF LogIn
<1>9. login' \in [Browsers -> Login \cup {NoOne}] /\ session' \in [Browsers -> Session \cup {NoOne}]
  BY <1>2, <1>7, <1>8
<1>10. session'[b] = new /\ login'[b] = NoOne
       /\ \A c \in Browsers \ {b} : session'[c] = session[c] /\ login'[c] = login[c]
  BY <1>2, <1>8
<1>11. Membership(login[b]) \in Persons \X Tenants  BY <1>4, <1>5 DEF Membership
<1>12. memberships' \subseteq Persons \X Tenants /\ tenants' \subseteq Tenants
  BY <1>1, <1>5, <1>11 DEF AccessTypeOK
<1>13. AccessTypeOK'  BY <1>1, <1>9, <1>12 DEF AccessTypeOK
<1>14. memberships \subseteq memberships' /\ tenants \subseteq tenants'  OBVIOUS
<1>15. \A m \in memberships' : m[2] \in tenants'
  <2>1. Membership(login[b])[2] = login[b].as.tenant  BY DEF Membership
  <2>2. \A m \in memberships : m[2] \in tenants  BY DEF AccessInv
  <2>3. QED  BY <1>14, <2>1, <2>2
<1>16. IsDue(login[b].as)  BY DEF AccessInv
<1>17. \A c \in Browsers : login'[c] # NoOne => IsDue(login'[c].as)
  <2>1. \A c \in Browsers : login[c] # NoOne => IsDue(login[c].as)  BY DEF AccessInv
  <2>2. QED  BY <1>10, <2>1
<1>18. ASSUME NEW c \in Browsers, session'[c] # NoOne
       PROVE  /\ IsDue(session'[c].as)
              /\ Membership(session'[c]) \in memberships' /\ session'[c].as.tenant \in tenants'
  <2>1. CASE c = b
    <3>1. Membership(new) = Membership(login[b])  BY <1>7 DEF Membership
    <3>2. QED  BY <1>7, <1>10, <1>16, <2>1, <3>1
  <2>2. CASE c # b
    <3>1. session'[c] = session[c]  BY <1>10, <2>2
    <3>2. /\ IsDue(session[c].as)
          /\ Membership(session[c]) \in memberships /\ session[c].as.tenant \in tenants
      BY <1>18, <3>1 DEF AccessInv
    <3>3. QED  BY <1>14, <3>1, <3>2
  <2>3. QED  BY <2>1, <2>2
<1>19. \A j \in JobIds : owner'[j] # NoOne => owner'[j].due = {owner'[j].tenant}
  BY DEF AccessInv
<1>20. QED  BY <1>13, <1>15, <1>17, <1>18, <1>19 DEF AccessInv, IsDue, Membership

(* Only a job is new.                                                       *)
LEMMA OwnerHolds ==
  ASSUME AccessInv, NEW j \in JobIds, NEW t \in Tenants,
         owner' = [owner EXCEPT ![j] = [tenant |-> t, due |-> {t}]],
         UNCHANGED <<memberships, tenants, login, session>>
  PROVE  AccessInv'
<1>1. AccessTypeOK  BY DEF AccessInv
<1>2. owner \in [JobIds -> [tenant : Tenants, due : SUBSET Tenants] \cup {NoOne}]
  BY <1>1 DEF AccessTypeOK
<1>3. owner' \in [JobIds -> [tenant : Tenants, due : SUBSET Tenants] \cup {NoOne}]
  BY <1>2
<1>4. AccessTypeOK'  BY <1>1, <1>3 DEF AccessTypeOK
<1>5. owner'[j].due = {owner'[j].tenant} /\ \A i \in JobIds \ {j} : owner'[i] = owner[i]
  BY <1>2
<1>6. \A i \in JobIds : owner'[i] # NoOne => owner'[i].due = {owner'[i].tenant}
  BY <1>5 DEF AccessInv
<1>7. QED  BY <1>4, <1>6 DEF AccessInv, Membership

LEMMA AccessStep == AccessInv /\ [AccessNext]_accessVars => AccessInv'
<1> SUFFICES ASSUME AccessInv, [AccessNext]_accessVars PROVE AccessInv'
  OBVIOUS
<1>1. AccessTypeOK  BY DEF AccessInv
<1>2. login \in [Browsers -> Login \cup {NoOne}] /\ session \in [Browsers -> Session \cup {NoOne}]
  BY <1>1 DEF AccessTypeOK
<1>3. ASSUME NEW t \in Tenants, SyncTenant(t) PROVE AccessInv'
  <2>1. /\ tenants' = tenants \cup {t} /\ UNCHANGED <<memberships, login, session, owner>>
    BY <1>3 DEF SyncTenant
  <2>2. AccessTypeOK'  BY <1>1, <2>1 DEF AccessTypeOK
  <2>3. QED  BY <2>1, <2>2 DEF AccessInv, Membership
<1>4. ASSUME NEW b \in Browsers, NEW p \in Persons, NEW v \in Verdicts, LoginCallback(b, p, v)
      PROVE  AccessInv'
  <2>1. CASE v = NoOne
    <3>1. /\ login' = [login EXCEPT ![b] = NoOne] /\ session' = [session EXCEPT ![b] = NoOne]
          /\ UNCHANGED <<memberships, tenants, owner>>
      BY <1>4, <2>1 DEF LoginCallback, FailedLogin
    <3>2. QED  BY <3>1, EndOfBoth
  <2>2. CASE v # NoOne
    <3>1. PICK new : new = [pc |-> "find", person |-> p, as |-> v]  OBVIOUS
    <3>2. /\ login' = [login EXCEPT ![b] = new]
          /\ UNCHANGED <<memberships, tenants, session, owner>>
      BY <1>4, <2>2, <3>1 DEF LoginCallback
    <3>3. v \in Verdict /\ IsDue(v)  BY <2>2, VerdictsAreDue
    <3>4. new \in Login /\ new.as = v  BY <3>1, <3>3 DEF Login
    <3>5. login' \in [Browsers -> Login \cup {NoOne}]  BY <1>2, <3>2, <3>4
    <3>6. AccessTypeOK'  BY <1>1, <3>2, <3>5 DEF AccessTypeOK
    <3>7. login'[b] = new /\ \A c \in Browsers \ {b} : login'[c] = login[c]  BY <1>2, <3>2
    <3>8. \A c \in Browsers : login'[c] # NoOne => IsDue(login'[c].as)
      <4>1. \A c \in Browsers : login[c] # NoOne => IsDue(login[c].as)  BY DEF AccessInv
      <4>2. QED  BY <3>3, <3>4, <3>7, <4>1
    <3>9. QED  BY <3>2, <3>6, <3>8 DEF AccessInv, Membership, IsDue
  <2>3. QED  BY <2>1, <2>2
<1>5. ASSUME NEW b \in Browsers, FindMembership(b) PROVE AccessInv'
  <2>1. login[b] # NoOne /\ UNCHANGED <<memberships, tenants, owner>>
    BY <1>5 DEF FindMembership
  <2>2. CASE Membership(login[b]) \in memberships
    <3>1. LogIn(b)  BY <1>5, <2>2 DEF FindMembership
    <3>2. login[b].as.tenant \in tenants
      <4>1. Membership(login[b])[2] = login[b].as.tenant  BY DEF Membership
      <4>2. QED  BY <2>2, <4>1 DEF AccessInv
    <3>3. QED  BY <2>1, <2>2, <3>1, <3>2, LogInHolds
  <2>3. CASE Membership(login[b]) \notin memberships
    <3>1. login' = [login EXCEPT ![b].pc = "create"] /\ session' = session
      BY <1>5, <2>3 DEF FindMembership
    <3>2. login[b] \in Login  BY <1>2, <2>1
    <3>3. PICK new : new = [login[b] EXCEPT !.pc = "create"]  OBVIOUS
    <3>4. new \in Login /\ new.as = login[b].as  BY <3>2, <3>3 DEF Login
    <3>5. login' = [login EXCEPT ![b] = new]  BY <3>1, <3>3
    <3>6. login' \in [Browsers -> Login \cup {NoOne}]  BY <1>2, <3>4, <3>5
    <3>7. AccessTypeOK'  BY <1>1, <2>1, <3>1, <3>6 DEF AccessTypeOK
    <3>8. login'[b] = new /\ \A c \in Browsers \ {b} : login'[c] = login[c]  BY <1>2, <3>5
    <3>9. \A c \in Browsers : login'[c] # NoOne => IsDue(login'[c].as)
      <4>1. \A c \in Browsers : login[c] # NoOne => IsDue(login[c].as)  BY DEF AccessInv
      <4>2. QED  BY <2>1, <3>4, <3>8, <4>1
    <3>10. QED  BY <2>1, <3>1, <3>7, <3>9 DEF AccessInv, Membership, IsDue
  <2>4. QED  BY <2>2, <2>3
<1>6. ASSUME NEW b \in Browsers, CreateMembership(b) PROVE AccessInv'
  <2>1. /\ login[b] # NoOne /\ LogIn(b) /\ owner' = owner
        /\ memberships' = memberships \cup {Membership(login[b])}
        /\ tenants' = tenants \cup {login[b].as.tenant}
    BY <1>6 DEF CreateMembership
  <2>2. QED  BY <2>1, LogInHolds
<1>7. ASSUME NEW b \in Browsers, QueryFails(b) PROVE AccessInv'
  BY <1>7, EndOfBoth DEF QueryFails, FailedLogin
<1>8. ASSUME NEW b \in Browsers, EndSession(b) PROVE AccessInv'
  BY <1>8, EndOfBoth DEF EndSession
<1>9. ASSUME NEW b \in Browsers, NEW j \in JobIds, Initialize(b, j) PROVE AccessInv'
  <2>1. session[b] # NoOne /\ UNCHANGED <<memberships, tenants, login, session>>
    BY <1>9 DEF Initialize
  <2>2. PICK t : t = session[b].as.tenant  OBVIOUS
  <2>3. session[b] \in Session  BY <1>2, <2>1
  <2>4. session[b].as \in Verdict  BY <2>3 DEF Session
  <2>5. t \in Tenants  BY <2>2, <2>4 DEF Verdict
  <2>6. session[b].as.due = {t}  BY <2>1, <2>2 DEF AccessInv, IsDue
  <2>7. owner' = [owner EXCEPT ![j] = [tenant |-> t, due |-> {t}]]
    BY <1>9, <2>2, <2>6 DEF Initialize
  <2>8. QED  BY <2>1, <2>5, <2>7, OwnerHolds
<1>10. ASSUME NEW t \in Tenants, NEW j \in JobIds, ClientInitializes(t, j) PROVE AccessInv'
  BY <1>10, OwnerHolds DEF ClientInitializes
<1>11. CASE UNCHANGED accessVars
  BY <1>1, <1>11 DEF accessVars, AccessInv, AccessTypeOK, Membership
<1>12. QED  BY <1>3, <1>4, <1>5, <1>6, <1>7, <1>8, <1>9, <1>10, <1>11 DEF AccessNext

(* The invariant of logins, sessions and jobs.                              *)
THEOREM AccessInvariant == AccessSpec => []AccessInv
<1>1. AccessInit => AccessInv  BY AccessInitHolds
<1>2. AccessInv /\ [AccessNext]_accessVars => AccessInv'  BY AccessStep
<1>3. QED  BY <1>1, <1>2, PTL DEF AccessSpec

(* A session is of the one tenant that the claims of its login give, and   *)
(* administers only if they say so; its user is a member of the tenant.    *)
THEOREM SessionsAreSoundAlways == AccessSpec => []SessionsAreSound
<1>1. AccessInv => SessionsAreSound
  BY DEF AccessInv, IsDue, SessionsAreSound, SessionsAreDue, MayAdminister
<1>2. QED  BY <1>1, AccessInvariant, PTL

(* A session that the guards let at a job is of the same tenant as the     *)
(* user who made it, as their identity providers say, and a client only    *)
(* reaches the jobs of the partners of its scopes.                         *)
THEOREM JobsStayWithTheirTenantAlways == AccessSpec => []JobsStayWithTheirTenant
<1>1. ASSUME AccessInv, NEW j \in JobIds, owner[j] # NoOne
      PROVE  /\ \A b \in Browsers : MayUseJob(b, j) => session[b].as.due = owner[j].due
             /\ \A t \in Tokens : ClientMayUseJob(t, j) => \A x \in owner[j].due : x.partner \in t.partners
  <2>1. owner[j].due = {owner[j].tenant}  BY <1>1 DEF AccessInv
  <2>2. ASSUME NEW b \in Browsers, MayUseJob(b, j) PROVE session[b].as.due = owner[j].due
    <3>1. session[b] # NoOne /\ session[b].as.tenant = owner[j].tenant
      BY <2>2 DEF MayUseJob, TenantOwnership
    <3>2. session[b].as.due = {session[b].as.tenant}  BY <1>1, <3>1 DEF AccessInv, IsDue
    <3>3. QED  BY <2>1, <3>1, <3>2
  <2>3. ASSUME NEW t \in Tokens, ClientMayUseJob(t, j), NEW x \in owner[j].due
        PROVE  x.partner \in t.partners
    BY <2>1, <2>3 DEF ClientMayUseJob, IsPartnerAllowed
  <2>4. QED  BY <2>2, <2>3
<1>2. AccessInv => JobsStayWithTheirTenant  BY <1>1 DEF JobsStayWithTheirTenant
<1>3. QED  BY <1>2, AccessInvariant, PTL

=============================================================================

--------------------------------- MODULE Access ---------------------------------
(***************************************************************************)
(* Who may do what: logins of users through an identity provider (IdP),    *)
(* their sessions, and what the guards let a session, a client of the      *)
(* external API and an executor do.                                        *)
(*                                                                         *)
(* A callback takes the registration there is, exchanges its code for      *)
(* claims, verifies them, looks for the membership of the user in the      *)
(* tenant, and makes what is missing.  Another browser may log the same    *)
(* person in meanwhile, and the browser may still have a session.          *)
(* Sessions live in the database and remember the tenant and the roles of  *)
(* the login, however the registration changes.                            *)
(*                                                                         *)
(* What is registered (IdpRegistrations) and what the IdP says are inputs  *)
(* of a login: any configuration, any claims; both are used up by the      *)
(* verification.  A job never changes hands, so a request is a check of    *)
(* the guards against a session and a job; what the request then does is   *)
(* in the other modules.                                                   *)
(***************************************************************************)
EXTENDS FiniteSets

CONSTANTS
  Browsers, Persons,
  Partners, Codes,   \* a tenant is a code of a partner
  JobIds,
  RoleNames,         \* roles an IdP may give, with or without a prefix
  NoOne

AppRoles == {"PartnerAdmin", "User"}
ASSUME AccessConstantsOK == NoOne \notin Partners \cup Codes /\ IsFiniteSet(Partners)

VARIABLES
  memberships, \* rows of user_tenant; the users and tenants are those of them,
  tenants,     \* and the tenants the partner sync made
  login,       \* the session a callback of the browser is about to make
  session,     \* the session of a browser
  owner        \* of a job

accessVars == <<memberships, tenants, login, session, owner>>

Tenants == [partner : Partners, code : Codes]
Role == [name : RoleNames, prefixed : BOOLEAN]
Claims == [partner : Partners \cup {NoOne}, code : Codes \cup {NoOne}, roles : SUBSET Role]

\* What the registration lets through: several partners need a partner claim,
\* a required role needs the list of those roles.
IdpConfigs == {c \in [partners : (SUBSET Partners) \ {{}}, partnerClaim : BOOLEAN,
                   required : SUBSET Role, prefix : BOOLEAN] :
              c.partnerClaim \/ Cardinality(c.partners) = 1}

\* due, admin: what the IdP says the person is, kept to state the properties.
Verdict == [tenant : Tenants, roles : SUBSET AppRoles, due : SUBSET Tenants, admin : BOOLEAN]
Session == [person : Persons, as : Verdict]
Login == [pc : {"find", "create"}, person : Persons, as : Verdict]

AccessTypeOK ==
  /\ memberships \subseteq Persons \X Tenants
  /\ tenants \subseteq Tenants
  /\ login \in [Browsers -> Login \cup {NoOne}]
  /\ session \in [Browsers -> Session \cup {NoOne}]
  /\ owner \in [JobIds -> [tenant : Tenants, due : SUBSET Tenants] \cup {NoOne}]

AccessInit ==
  /\ memberships = {} /\ tenants = {}
  /\ login = [b \in Browsers |-> NoOne]
  /\ session = [b \in Browsers |-> NoOne]
  /\ owner = [j \in JobIds |-> NoOne]

-----------------------------------------------------------------------------
(* Claims.                                                                  *)

HasARequiredRole(roles, config) == config.required = {} \/ roles \cap config.required # {}

\* With a prefix only roles that have it count, and lose it.
ExtractAppRoles(roles, config) ==
  {r.name : r \in {x \in roles : x.prefixed = config.prefix}} \cap AppRoles

\* Faulty variant: the claim is taken for a partner that does not use the IdP.
PartnersOf_Claimed(claims, config) ==
  IF config.partnerClaim THEN {claims.partner} \ {NoOne} ELSE config.partners
\* The partner of the user: the claimed one, if it uses the IdP; without a
\* partner claim the only one that uses it.
PartnersOf(claims, config) ==
  IF config.partnerClaim THEN {claims.partner} \cap config.partners ELSE config.partners

ClaimsAccepted(claims, config) ==
  /\ HasARequiredRole(claims.roles, config)
  /\ PartnersOf(claims, config) # {}
  /\ claims.code # NoOne

\* What the claims mean, said without regard to how they are checked.
DueOf(claims, config) ==
  {t \in Tenants : /\ t.code = claims.code /\ t.partner \in config.partners
                   /\ config.partnerClaim => t.partner = claims.partner}
AdminOf(claims, config) ==
  [name |-> "PartnerAdmin", prefixed |-> config.prefix] \in claims.roles

\* What a login is verified to be: refused, or of a tenant and with roles.
Verified(claims, config) ==
  IF ClaimsAccepted(claims, config)
  THEN {[tenant |-> [partner |-> p, code |-> claims.code],
         roles |-> ExtractAppRoles(claims.roles, config),
         due |-> DueOf(claims, config), admin |-> AdminOf(claims, config)] :
          p \in PartnersOf(claims, config)}
  ELSE {NoOne}
Verdicts == UNION {Verified(m, c) : m \in Claims, c \in IdpConfigs}

-----------------------------------------------------------------------------
(* Logins.                                                                  *)

\* A failed login destroys the session its request came with.
FailedLogin(b) ==
  /\ login' = [login EXCEPT ![b] = NoOne]
  /\ session' = [session EXCEPT ![b] = NoOne]
  /\ UNCHANGED <<memberships, tenants, owner>>

\* The callback, up to the first query.  Without a registration it answers 404.
LoginCallback(b, person, verdict) ==
  /\ login[b] = NoOne
  /\ IF verdict # NoOne
     THEN /\ login' = [login EXCEPT ![b] = [pc |-> "find", person |-> person, as |-> verdict]]
          /\ UNCHANGED <<memberships, tenants, session, owner>>
     ELSE FailedLogin(b)

Membership(s) == <<s.person, s.as.tenant>>

LogIn(b) ==
  /\ session' = [session EXCEPT ![b] = [person |-> login[b].person, as |-> login[b].as]]
  /\ login' = [login EXCEPT ![b] = NoOne]

\* findFirst of the membership.
FindMembership(b) ==
  /\ login[b] # NoOne /\ login[b].pc = "find"
  /\ IF Membership(login[b]) \in memberships
     THEN LogIn(b)
     ELSE /\ login' = [login EXCEPT ![b].pc = "create"]
          /\ UNCHANGED session
  /\ UNCHANGED <<memberships, tenants, owner>>

\* create, connecting to the user and the tenant that are there; it fails if
\* another login of the person has made the membership meanwhile.
CreateMembership(b) ==
  /\ login[b] # NoOne /\ login[b].pc = "create"
  /\ Membership(login[b]) \notin memberships
  /\ memberships' = memberships \cup {Membership(login[b])}
  /\ tenants' = tenants \cup {login[b].as.tenant}
  /\ LogIn(b)
  /\ UNCHANGED owner

\* A query fails; create also fails when somebody else makes the membership,
\* the user or the tenant between its look and its insert.
QueryFails(b) == login[b] # NoOne /\ FailedLogin(b)

\* A logout, or two hours without a request.
EndSession(b) ==
  /\ session[b] # NoOne
  /\ session' = [session EXCEPT ![b] = NoOne]
  /\ UNCHANGED <<memberships, tenants, login, owner>>

\* The partner sync makes tenants too.
SyncTenant(t) ==
  /\ tenants' = tenants \cup {t}
  /\ UNCHANGED <<memberships, login, session, owner>>

-----------------------------------------------------------------------------
(* Guards.                                                                  *)

\* Faulty variant: only the code of the tenant is compared.
TenantOwnership_Code(s, j) == s.as.tenant.code = j.tenant.code
TenantOwnership(s, j) == s.as.tenant = j.tenant

\* A session may use a job: it is logged in, there is a job, of its tenant.
MayUseJob(b, j) == session[b] # NoOne /\ owner[j] # NoOne /\ TenantOwnership(session[b], owner[j])

\* The privilege to change the settings of the partner.
MayAdminister(b) == session[b] # NoOne /\ "PartnerAdmin" \in session[b].as.roles

\* A client of the external API: its token and the partners of its scopes.
Tokens == [valid : BOOLEAN, create : BOOLEAN, client : BOOLEAN, partners : SUBSET Partners]
ExternalApiToken(t) == t.valid /\ t.create
IsPartnerAllowed(t, p) == p \in t.partners
ClientMayUseJob(t, j) ==
  ExternalApiToken(t) /\ owner[j] # NoOne /\ IsPartnerAllowed(t, owner[j].tenant.partner)

\* A user initializes a job for the tenant of the session.
Initialize(b, j) ==
  /\ session[b] # NoOne /\ owner[j] = NoOne
  /\ owner' = [owner EXCEPT ![j] = [tenant |-> session[b].as.tenant, due |-> session[b].as.due]]
  /\ UNCHANGED <<memberships, tenants, login, session>>

\* A client initializes one for the tenant it names.
ClientInitializes(tenant, j) ==
  /\ owner[j] = NoOne
  /\ \E t \in Tokens : ExternalApiToken(t) /\ t.client /\ IsPartnerAllowed(t, tenant.partner)
  /\ tenant \in tenants
  /\ owner' = [owner EXCEPT ![j] = [tenant |-> tenant, due |-> {tenant}]]
  /\ UNCHANGED <<memberships, tenants, login, session>>

AccessNext ==
  \/ \E t \in Tenants : SyncTenant(t)
  \/ \E b \in Browsers :
       \/ \E p \in Persons, v \in Verdicts : LoginCallback(b, p, v)
       \/ FindMembership(b) \/ CreateMembership(b) \/ QueryFails(b) \/ EndSession(b)
       \/ \E j \in JobIds : Initialize(b, j)
  \/ \E t \in Tenants, j \in JobIds : ClientInitializes(t, j)

AccessSpec == AccessInit /\ [][AccessNext]_accessVars

-----------------------------------------------------------------------------
(* Properties.                                                              *)

(* A session is of the tenant, and has the administrator's privileges only *)
(* if, the claims of its login give under the configuration it was checked *)
(* with, whatever was registered meanwhile (identity-provider.service.ts    *)
(* 335-442); its user is a member of the tenant (auth.service.ts 24-87).    *)
SessionsAreDue ==
  \A b \in Browsers : session[b] # NoOne =>
    /\ session[b].as.due = {session[b].as.tenant}
    /\ MayAdminister(b) => session[b].as.admin
    /\ Membership(session[b]) \in memberships /\ session[b].as.tenant \in tenants

(* Sessions are typed, and what they may do they owe to a login.            *)
SessionsAreSound == AccessTypeOK /\ SessionsAreDue

(* Whoever the guards let at a job is of the job's tenant, as the IdP says *)
(* of the user and of the user who made the job, or is a client for the    *)
(* job's partner (tenant-ownership.guard.ts 13-40, jobs.v1.controller.ts).  *)
JobsStayWithTheirTenant ==
  \A j \in JobIds : owner[j] # NoOne =>
    /\ \A b \in Browsers : MayUseJob(b, j) => session[b].as.due = owner[j].due
    /\ \A t \in Tokens : ClientMayUseJob(t, j) => \A x \in owner[j].due : x.partner \in t.partners
=============================================================================

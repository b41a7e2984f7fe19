------------------------------ MODULE OdsConfigs ------------------------------
(***************************************************************************)
(* The ODS configurations of one tenant.                                   *)
(*                                                                         *)
(* A configuration is for a school year and has connections, of which one  *)
(* is active.  Connections are immutable: an update tests the new          *)
(* credentials, reads the active connection, and then, in a transaction of *)
(* three statements, retires what it read, makes a new connection and      *)
(* activates that.  Others see none of it before the last statement, with  *)
(* which it commits; but from the first to the last it holds the lock of   *)
(* the row it retires.  A test of a configuration uses the connection that *)
(* was active when the request came in, and writes its result to the one   *)
(* that is active when it looks for it afterwards.  Several admins of the  *)
(* tenant do all this at the same time, and any request may fail.          *)
(*                                                                         *)
(* Requests of other tenants end at the guards (tenant ownership), and     *)
(* those with credentials that fail the test with 400; neither changes     *)
(* anything.  An id of a transaction that failed is given out again, which *)
(* is of no account: nobody has seen it.                                   *)
(***************************************************************************)
EXTENDS Naturals, FiniteSets

CONSTANTS
  Years, Admins,
  MaxConfigs, MaxConnections,   \* bounds on rows
  None                          \* no row, no request

VARIABLES
  config,      \* ods_config rows by id
  connection,  \* ods_connection rows by id
  request      \* what each admin's request is about

odsVars == <<config, connection, request>>

Configs == 1..MaxConfigs
Connections == 1..MaxConnections
\* replaced: what was active before (for the properties; no column).
Config == [year : Years, retired : BOOLEAN, active : Connections,
           replaced : SUBSET Connections]
\* passed: its credentials passed the test before they were saved;
\* shows: the connection whose test its lastUseResult tells of (what it tells
\* makes no difference here).
Connection == [of : Configs, retired : BOOLEAN, passed : BOOLEAN, shows : Connections]
\* existing: what findOne read.  new: the row the transaction has inserted.
\* target: the row the result of a test is written to.
Request ==
  [kind : {"create"}, year : Years, passed : BOOLEAN] \cup
  [kind : {"update"}, config : Configs, passed : BOOLEAN, existing : Connections \cup {None},
   locks : BOOLEAN, new : Connections \cup {None}] \cup
  [kind : {"test"}, config : Configs, connection : Connections,
   target : Connections \cup {None}]

ASSUME OdsConstantsOK ==
  /\ MaxConfigs \in Nat /\ MaxConnections \in Nat
  /\ None \notin Nat /\ None \notin Config
  /\ None \notin Connection /\ None \notin Request

OdsTypeOK ==
  /\ config \in [Configs -> Config \cup {None}]
  /\ connection \in [Connections -> Connection \cup {None}]
  /\ request \in [Admins -> Request \cup {None}]

OdsInit ==
  /\ config = [c \in Configs |-> None]
  /\ connection = [k \in Connections |-> None]
  /\ request = [a \in Admins |-> None]

-----------------------------------------------------------------------------

Saved(c) == config[c] # None
InForce(c) == Saved(c) /\ ~config[c].retired
OfYear(y) == {c \in Configs : Saved(c) /\ config[c].year = y}
Conflicts(y) == \E c \in OfYear(y) : InForce(c)

Used(c) == config[c].replaced \cup {config[c].active}

HasRequest(a, kind) == request[a] # None /\ request[a].kind = kind
Answer(a) == request' = [request EXCEPT ![a] = None]

IsLocked(k) == \E a \in Admins : HasRequest(a, "update") /\ request[a].locks /\ request[a].existing = k
Inserts(a, k) == HasRequest(a, "update") /\ request[a].new = k

IsTaken(k) == connection[k] # None \/ \E a \in Admins : Inserts(a, k)
IsNextConnection(k) == ~IsTaken(k) /\ \A i \in Connections : i < k => IsTaken(i)
IsNextConfig(c) == ~Saved(c) /\ \A i \in Configs : i < c => Saved(i)

NewConnection(k, c, passed) ==
  [of |-> c, retired |-> FALSE, passed |-> passed, shows |-> k]

\* Faulty variant: credentials are saved whatever their test says.
Accepted_Any(passed) == TRUE

Accepted(passed) == passed

(* POST: the test of the new credentials, and then the transaction.        *)
TestNew(a, y) ==
  /\ request[a] = None
  /\ \E passed \in BOOLEAN :
       /\ Accepted(passed)
       /\ request' = [request EXCEPT ![a] = [kind |-> "create", year |-> y, passed |-> passed]]
  /\ UNCHANGED <<config, connection>>

\* Faulty variant: without the unique index on configurations in force.
MayCreate_NoIndex(y) == TRUE

MayCreate(y) == ~Conflicts(y)

Create(a, c, k) ==
  /\ HasRequest(a, "create") /\ MayCreate(request[a].year)
  /\ IsNextConfig(c) /\ IsNextConnection(k)
  /\ config' = [config EXCEPT ![c] =
       [year |-> request[a].year, retired |-> FALSE, active |-> k, replaced |-> {}]]
  /\ connection' = [connection EXCEPT ![k] = NewConnection(k, c, request[a].passed)]
  /\ Answer(a)

CreateConflicts(a) ==
  /\ HasRequest(a, "create") /\ ~MayCreate(request[a].year)
  /\ Answer(a)
  /\ UNCHANGED <<config, connection>>

(* PUT: the middleware finds the configuration, the new credentials are    *)
(* tested; then findOne, outside the transaction.                          *)
TestUpdated(a, c) ==
  /\ request[a] = None /\ InForce(c)
  /\ \E passed \in BOOLEAN :
       /\ Accepted(passed)
       /\ request' = [request EXCEPT ![a] =
            [kind |-> "update", config |-> c, passed |-> passed, existing |-> None,
             locks |-> FALSE, new |-> None]]
  /\ UNCHANGED <<config, connection>>

ReadExisting(a) ==
  /\ HasRequest(a, "update") /\ request[a].existing = None
  /\ LET c == request[a].config IN
     IF InForce(c) THEN request' = [request EXCEPT ![a].existing = config[c].active] ELSE Answer(a)
  /\ UNCHANGED <<config, connection>>

(* The transaction.  Its first statement waits for others that have the     *)
(* same row; so two that read the same connection take turns.              *)
RetireExisting(a) ==
  /\ HasRequest(a, "update") /\ request[a].existing # None /\ ~request[a].locks
  /\ ~IsLocked(request[a].existing)
  /\ request' = [request EXCEPT ![a].locks = TRUE]
  /\ UNCHANGED <<config, connection>>

InsertConnection(a, k) ==
  /\ HasRequest(a, "update") /\ request[a].locks /\ request[a].new = None
  /\ IsNextConnection(k)
  /\ request' = [request EXCEPT ![a].new = k]
  /\ UNCHANGED <<config, connection>>

\* Faulty variant: what is retired is the connection that has just been made.
Replaced_New(r) == r.new

Replaced(r) == r.existing

ActivateNew(a) ==
  /\ HasRequest(a, "update") /\ request[a].new # None
  /\ LET r == request[a]
         rows == [connection EXCEPT ![r.new] = NewConnection(r.new, r.config, r.passed)] IN
     /\ connection' = [rows EXCEPT ![Replaced(r)].retired = TRUE]
     /\ config' = [config EXCEPT ![r.config].active = r.new, ![r.config].replaced = Used(r.config)]
  /\ Answer(a)

(* POST test-connection.                                                   *)
BeginTest(a, c) ==
  /\ request[a] = None /\ InForce(c)
  /\ request' = [request EXCEPT ![a] =
       [kind |-> "test", config |-> c, connection |-> config[c].active, target |-> None]]
  /\ UNCHANGED <<config, connection>>

FindTarget(a) ==
  /\ HasRequest(a, "test") /\ request[a].target = None
  /\ request' = [request EXCEPT ![a].target = config[request[a].config].active]
  /\ UNCHANGED <<config, connection>>

UpdateConnectionStatus(a) ==
  /\ HasRequest(a, "test") /\ request[a].target # None /\ ~IsLocked(request[a].target)
  /\ connection' = [connection EXCEPT ![request[a].target].shows = request[a].connection]
  /\ Answer(a)
  /\ UNCHANGED config

(* Any statement may fail; what a transaction has done is then undone.     *)
FailOdsRequest(a) ==
  /\ request[a] # None
  /\ Answer(a)
  /\ UNCHANGED <<config, connection>>

(* DELETE.                                                                 *)
Retire(c) ==
  /\ InForce(c)
  /\ config' = [config EXCEPT ![c].retired = TRUE]
  /\ UNCHANGED <<connection, request>>

OdsRequest(a) ==
  \/ \E y \in Years : TestNew(a, y)
  \/ \E c \in Configs, k \in Connections : Create(a, c, k)
  \/ CreateConflicts(a)
  \/ \E c \in Configs : TestUpdated(a, c) \/ BeginTest(a, c)
  \/ ReadExisting(a) \/ RetireExisting(a) \/ ActivateNew(a)
  \/ \E k \in Connections : InsertConnection(a, k)
  \/ FindTarget(a) \/ UpdateConnectionStatus(a) \/ FailOdsRequest(a)

OdsNext == (\E a \in Admins : OdsRequest(a)) \/ (\E c \in Configs : Retire(c))

-----------------------------------------------------------------------------
(* Of a tenant and year at most one configuration is ever in force (the    *)
(* intake of jobs takes the first it finds, jobs.service.ts:134), and its  *)
(* active connection is replaced by one that never was active before,      *)
(* however the transactions of updates overlap: see OdsStore.              *)
Store == INSTANCE OdsStore
ImplementsOdsStore == Store!Spec

(* However updates, tests and removals overlap, the active connection of a *)
(* configuration is its own, is not retired, and has credentials that      *)
(* passed their test; and what it shows as the result of its last use is   *)
(* the result of testing it or a connection of the same configuration that *)
(* was active before it, never of one that was not activated yet.          *)
ActiveConnectionIsGood ==
  \A c \in Configs : Saved(c) =>
    LET k == config[c].active IN
    /\ connection[k] # None
    /\ connection[k].of = c /\ ~connection[k].retired /\ connection[k].passed
    /\ connection[k].shows \in Used(c)

=============================================================================

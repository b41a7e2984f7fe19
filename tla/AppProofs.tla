------------------------------- MODULE AppProofs -------------------------------
(***************************************************************************)
(* Theorems about the parts of the app that MCApp runs side by side, for   *)
(* every value of their constants.                                         *)
(*                                                                         *)
(* ODS configuration: the active connection of a configuration is good     *)
(* although tests and updates write to what they read earlier, and the     *)
(* service implements OdsStore, on which the intake of jobs relies.  What  *)
(* makes the unlocked reads harmless is that an update retires only what   *)
(* was active when it looked, and makes active only a row that nobody has  *)
(* seen, in whatever order the statements of several come.                 *)
(*                                                                         *)
(* EDU pools: no half roster passes for a whole one and no failed pool is  *)
(* used again, since whatever fails a pool clears the entry.               *)
(*                                                                         *)
(* Bundle cache: what is served was current no longer ago than the copy    *)
(* lives and a fetch takes, since a fetch carries a version that was       *)
(* current after it began, however fetches overlap.                        *)
(*                                                                         *)
(* Edits: a form saves what its dialog listed, since a save whose time of  *)
(* reading is still the stamp of the rows can differ from them in nothing  *)
(* else; a note keeps what is being typed; and a row names who wrote it,   *)
(* since a connection names the person of its one request while it is in   *)
(* use, and nobody when it is free.                                        *)
(*                                                                         *)
(* Browser: an entry that counts as fresh was read after the change that   *)
(* it has to show, and after the stage of the run that the page is at; a   *)
(* table's changes build on what was asked for, not on what was rendered;  *)
(* and a column filter leaves no bound in a field that is out of sight.    *)
(***************************************************************************)
EXTENDS MCApp, SequenceTheorems, WellFoundedInduction, TLAPS

OdsSpec == OdsInit /\ [][OdsNext]_odsVars
EduSpec == EduInit /\ [][EduNext]_eduVars
BundleSpec == BundleInit /\ [][BundlesNext]_bundleVars
YearsSpec == YearsInit /\ [][YearsNext]_yearVars
PartnerSpec == PartnerInit /\ [][PartnerNext]_partnerVars
QuerySpec == QueryInit /\ [][QueryNext]_queryVars
PageSpec == PageInit /\ [][PageNext]_pageVars
TableSpec == TableInit /\ [][TableNext]_tableVars
FilterSpec == FilterInit /\ [][FilterNext]_filterVars
NotesSpec == NotesInit /\ [][NotesNext]_notesVars

(* A behaviour of the app is a behaviour of each part: the others rest.     *)
LEMMA PartsAreApart ==
  MCSpec => /\ OdsSpec /\ EduSpec /\ BundleSpec /\ YearsSpec /\ PartnerSpec
            /\ QuerySpec /\ PageSpec /\ TableSpec /\ FilterSpec /\ NotesSpec
<1>1. MCInit => /\ OdsInit /\ EduInit /\ BundleInit /\ YearsInit /\ PartnerInit
                /\ QueryInit /\ PageInit /\ TableInit /\ FilterInit /\ NotesInit
  BY DEF MCInit
<1>2. [MCNext]_MCVars =>
        /\ [OdsNext]_odsVars /\ [EduNext]_eduVars /\ [BundlesNext]_bundleVars
        /\ [YearsNext]_yearVars /\ [PartnerNext]_partnerVars /\ [QueryNext]_queryVars
        /\ [PageNext]_pageVars /\ [TableNext]_tableVars /\ [FilterNext]_filterVars
        /\ [NotesNext]_notesVars
  <2> USE DEF MCNext, Rest, MCVars, OdsSection, EduSection, BundlesSection, YearsSection,
        PartnerSection, QueriesSection, PageSection, TableSection, FilterSection,
        NotesSection
  <2>1. [MCNext]_MCVars => [OdsNext]_odsVars
    BY Zenon
  <2>2. [MCNext]_MCVars => [EduNext]_eduVars
    BY Zenon
  <2>3. [MCNext]_MCVars => [BundlesNext]_bundleVars
    BY Zenon
  <2>4. [MCNext]_MCVars => [YearsNext]_yearVars
    BY Zenon
  <2>5. [MCNext]_MCVars => [PartnerNext]_partnerVars
    BY Zenon
  <2>6. [MCNext]_MCVars => [QueryNext]_queryVars
    BY Zenon
  <2>7. [MCNext]_MCVars => [PageNext]_pageVars
    BY Zenon
  <2>8. [MCNext]_MCVars => [TableNext]_tableVars
    BY Zenon
  <2>9. [MCNext]_MCVars => [FilterNext]_filterVars
    BY Zenon
  <2>10. [MCNext]_MCVars => [NotesNext]_notesVars
    BY Zenon
  <2> QED
    BY <2>1, <2>2, <2>3, <2>4, <2>5, <2>6, <2>7, <2>8, <2>9, <2>10
<1> QED
  BY <1>1, <1>2, PTL DEF MCSpec, OdsSpec, EduSpec, BundleSpec, YearsSpec, PartnerSpec,
     QuerySpec, PageSpec, TableSpec, FilterSpec, NotesSpec

-----------------------------------------------------------------------------
(* ODS configuration: the inductive invariant.                              *)

(* What was ever active for a configuration is a row of its own.           *)
UsedAreOwn ==
  \A c \in Configs : Saved(c) => \A k \in Used(c) : connection[k] # None /\ connection[k].of = c

(* What a request has tested, read and inserted.                            *)
RequestHolds(r) ==
  /\ r.kind \in {"create", "update"} => r.passed
  /\ r.kind \in {"update", "test"} => Saved(r.config)
  /\ r.kind = "update" =>
       /\ r.locks => r.existing # None
       /\ r.new # None => r.locks /\ connection[r.new] = None
       /\ r.existing # None => r.existing \in Used(r.config)
  /\ r.kind = "test" =>
       /\ r.connection \in Used(r.config)
       /\ r.target # None => r.target \in Used(r.config)

(* No two have inserted the same row.                                       *)
RequestsHold ==
  /\ \A a \in Admins : request[a] # None => RequestHolds(request[a])
  /\ \A a, b \in Admins, k \in Connections : Inserts(a, k) /\ Inserts(b, k) => a = b

OdsInv == OdsTypeOK /\ UsedAreOwn /\ RequestsHold /\ ActiveConnectionIsGood

-----------------------------------------------------------------------------
(* Facts about rows and requests.                                           *)

(* A request has what its kind has.                                         *)
LEMMA RequestFields ==
  ASSUME NEW r \in Request
  PROVE  /\ r.kind \in {"create", "update", "test"}
         /\ r.kind = "create" => r.year \in Years /\ r.passed \in BOOLEAN
         /\ r.kind = "update" =>
              /\ r \in [kind : {"update"}, config : Configs, passed : BOOLEAN,
                        existing : Connections \cup {None}, locks : BOOLEAN,
                        new : Connections \cup {None}]
              /\ r.config \in Configs /\ r.passed \in BOOLEAN /\ r.locks \in BOOLEAN
              /\ r.existing \in Connections \cup {None} /\ r.new \in Connections \cup {None}
         /\ r.kind = "test" =>
              /\ r \in [kind : {"test"}, config : Configs, connection : Connections,
                        target : Connections \cup {None}]
              /\ r.config \in Configs /\ r.connection \in Connections
              /\ r.target \in Connections \cup {None}
<1>1. CASE r \in [kind : {"create"}, year : Years, passed : BOOLEAN]
  BY <1>1
<1>2. CASE r \in [kind : {"update"}, config : Configs, passed : BOOLEAN,
                  existing : Connections \cup {None}, locks : BOOLEAN,
                  new : Connections \cup {None}]
  BY <1>2
<1>3. CASE r \in [kind : {"test"}, config : Configs, connection : Connections,
                  target : Connections \cup {None}]
  BY <1>3
<1> QED
  BY <1>1, <1>2, <1>3 DEF Request

(* An id is not None, nor is a row or a request.                            *)
LEMMA NoneIsNone ==
  /\ None \notin Configs /\ None \notin Connections
  /\ None \notin Config /\ None \notin Connection /\ None \notin Request
BY OdsConstantsOK DEF Configs, Connections

(* A new connection is a row that shows its own test.                       *)
LEMMA NewConnectionIs ==
  ASSUME NEW k \in Connections, NEW c \in Configs, NEW passed \in BOOLEAN
  PROVE  LET new == NewConnection(k, c, passed) IN
         /\ new \in Connection /\ new.of = c /\ ~new.retired /\ new.shows = k
         /\ passed => new.passed
BY DEF NewConnection, Connection

(* The row of a configuration.                                              *)
LEMMA ConfigRow ==
  ASSUME OdsTypeOK, NEW c \in Configs, Saved(c)
  PROVE  /\ config[c] \in Config /\ config[c].active \in Connections
         /\ config[c].active \in Used(c) /\ Used(c) \subseteq Connections
BY DEF OdsTypeOK, Saved, Config, Used

(* What a request has done stays so while configurations lose nothing and  *)
(* nobody else puts a row where it has inserted one.                        *)
LEMMA HoldsStay ==
  ASSUME NEW q \in Request, RequestHolds(q),
         \A c \in Configs : Saved(c) => Saved(c)' /\ Used(c) \subseteq Used(c)',
         q.kind = "update" /\ q.new # None => connection'[q.new] = None
  PROVE  RequestHolds(q)'
<1>1. CASE q.kind = "create"
  BY <1>1 DEF RequestHolds
<1>2. CASE q.kind = "update"
  <2>1. q.config \in Configs /\ Saved(q.config)
    BY <1>2, RequestFields DEF RequestHolds
  <2> QED
    BY <1>2, <2>1 DEF RequestHolds
<1>3. CASE q.kind = "test"
  <2>1. q.config \in Configs /\ Saved(q.config)
    BY <1>3, RequestFields DEF RequestHolds
  <2> QED
    BY <1>3, <2>1 DEF RequestHolds
<1> QED
  BY <1>1, <1>2, <1>3, RequestFields

(* A step of one admin's request that keeps what the others have done.     *)
LEMMA RequestsKept ==
  ASSUME OdsTypeOK, RequestsHold, NEW a \in Admins, NEW r \in Request \cup {None},
         request' = [request EXCEPT ![a] = r],
         \A c \in Configs : Saved(c) => Saved(c)' /\ Used(c) \subseteq Used(c)',
         \A b \in Admins, k \in Connections : b # a /\ Inserts(b, k) => connection'[k] = None,
         r # None => RequestHolds(r)',
         r # None /\ r.kind = "update" /\ r.new # None =>
           \A b \in Admins : b # a => ~Inserts(b, r.new)
  PROVE  RequestsHold'
<1>0. request'[a] = r /\ \A b \in Admins : b # a => request'[b] = request[b]
  BY DEF OdsTypeOK
<1>1. ASSUME NEW b \in Admins, request'[b] # None
      PROVE  RequestHolds(request[b])'
  <2>1. CASE b = a
    BY <1>0, <1>1, <2>1 DEF RequestHolds, Saved, Used
  <2>2. CASE b # a
    <3>1. request'[b] = request[b] /\ request[b] \in Request /\ RequestHolds(request[b])
      BY <1>0, <1>1, <2>2 DEF OdsTypeOK, RequestsHold
    <3>2. PICK q \in Request : q = request[b]
      BY <3>1
    <3>3. q.kind = "update" /\ q.new # None => connection'[q.new] = None
      BY <1>1, <2>2, <3>1, <3>2, RequestFields DEF Inserts, HasRequest
    <3>4. RequestHolds(q)' /\ q = request'[b]
      BY <3>1, <3>2, <3>3, HoldsStay
    <3> QED
      BY <3>4 DEF RequestHolds, Saved, Used
  <2> QED
    BY <2>1, <2>2
<1>2. ASSUME NEW b \in Admins, NEW d \in Admins, NEW k \in Connections,
             Inserts(b, k)', Inserts(d, k)'
      PROVE  b = d
  <2>1. k # None
    BY NoneIsNone
  <2>2. CASE b # a /\ d # a
    BY <1>0, <1>2, <2>2 DEF Inserts, HasRequest, RequestsHold
  <2>3. CASE b = a /\ d # a
    BY <1>0, <1>2, <2>1, <2>3 DEF Inserts, HasRequest
  <2>4. CASE b # a /\ d = a
    BY <1>0, <1>2, <2>1, <2>4 DEF Inserts, HasRequest
  <2> QED
    BY <2>2, <2>3, <2>4
<1> QED
  BY <1>1, <1>2 DEF RequestsHold

-----------------------------------------------------------------------------
(* Each step keeps the invariant.                                           *)

(* What an admin's request does to itself alone.                            *)
LEMMA RequestMoves ==
  ASSUME OdsInv, NEW a \in Admins, NEW r \in Request \cup {None},
         UNCHANGED <<config, connection>>, request' = [request EXCEPT ![a] = r],
         r # None => RequestHolds(r),
         r # None /\ r.kind = "update" /\ r.new # None =>
           \A b \in Admins : b # a => ~Inserts(b, r.new)
  PROVE  OdsInv'
<1>0. OdsTypeOK /\ UsedAreOwn /\ RequestsHold /\ ActiveConnectionIsGood
  BY DEF OdsInv
<1>1. OdsTypeOK' /\ UsedAreOwn' /\ ActiveConnectionIsGood'
  BY <1>0 DEF OdsTypeOK, UsedAreOwn, ActiveConnectionIsGood, Saved, Used
<1>2. \A c \in Configs : Saved(c) => Saved(c)' /\ Used(c) \subseteq Used(c)'
  BY DEF Saved, Used
<1>3. \A b \in Admins, k \in Connections : b # a /\ Inserts(b, k) => connection'[k] = None
  BY <1>0, NoneIsNone DEF Inserts, HasRequest, RequestsHold, RequestHolds
<1>4. r # None => RequestHolds(r)'
  BY DEF RequestHolds, Saved, Used
<1>5. RequestsHold'
  BY <1>0, <1>2, <1>3, <1>4, RequestsKept
<1> QED
  BY <1>1, <1>5 DEF OdsInv

(* Requests end.                                                            *)
LEMMA RequestEnds ==
  ASSUME OdsInv, NEW a \in Admins, Answer(a), UNCHANGED <<config, connection>>
  PROVE  OdsInv'
BY RequestMoves DEF Answer

(* The steps before the last of an update.                                  *)
LEMMA UpdateStepsKeep ==
  ASSUME OdsInv, NEW a \in Admins,
         \/ ReadExisting(a) \/ RetireExisting(a)
         \/ \E k \in Connections : InsertConnection(a, k)
  PROVE  OdsInv'
<1>0. OdsTypeOK /\ UsedAreOwn /\ RequestsHold /\ ActiveConnectionIsGood
  BY DEF OdsInv
<1>1. PICK q : q = request[a]
  OBVIOUS
<1>2. /\ q \in Request /\ q.kind = "update" /\ RequestHolds(q)
      /\ q \in [kind : {"update"}, config : Configs, passed : BOOLEAN,
                existing : Connections \cup {None}, locks : BOOLEAN, new : Connections \cup {None}]
  <2>1. q \in Request /\ q.kind = "update" /\ RequestHolds(q)
    BY <1>0, <1>1 DEF ReadExisting, RetireExisting, InsertConnection, HasRequest, OdsTypeOK, RequestsHold
  <2> QED
    BY <2>1, RequestFields
<1>3. q.config \in Configs /\ Saved(q.config)
  BY <1>2 DEF RequestHolds
<1>4. q.new # None => \A b \in Admins : b # a => ~Inserts(b, q.new)
  <2>1. q.new # None => q.new \in Connections /\ Inserts(a, q.new)
    BY <1>1, <1>2, NoneIsNone DEF Inserts, HasRequest
  <2> QED
    BY <1>0, <2>1 DEF RequestsHold
<1>5. CASE ReadExisting(a)
  <2>1. CASE InForce(q.config)
    <3>1. PICK k \in Connections : k = config[q.config].active /\ k \in Used(q.config)
      BY <1>0, <1>3, ConfigRow
    <3>2. PICK r : r = [q EXCEPT !.existing = k]
      OBVIOUS
    <3>3. /\ r \in Request /\ r.kind = "update" /\ r.config = q.config /\ r.existing = k
          /\ r.passed = q.passed /\ r.locks = q.locks /\ r.new = q.new
      BY <1>2, <3>2 DEF Request
    <3>4. RequestHolds(r)
      BY <1>2, <3>1, <3>3, NoneIsNone DEF RequestHolds
    <3>5. request' = [request EXCEPT ![a] = r] /\ UNCHANGED <<config, connection>>
      BY <1>0, <1>1, <1>5, <2>1, <3>1, <3>2 DEF ReadExisting, OdsTypeOK
    <3> QED
      BY <1>4, <3>3, <3>4, <3>5, RequestMoves
  <2>2. CASE ~InForce(q.config)
    BY <1>1, <1>5, <2>2, RequestEnds DEF ReadExisting
  <2> QED
    BY <2>1, <2>2
<1>6. CASE RetireExisting(a)
  <2>1. PICK r : r = [q EXCEPT !.locks = TRUE]
    OBVIOUS
  <2>2. /\ r \in Request /\ r.kind = "update" /\ r.config = q.config /\ r.existing = q.existing
        /\ r.passed = q.passed /\ r.locks /\ r.new = q.new
    BY <1>2, <2>1 DEF Request
  <2>3. RequestHolds(r)
    BY <1>1, <1>2, <1>6, <2>2 DEF RequestHolds, RetireExisting
  <2>4. request' = [request EXCEPT ![a] = r] /\ UNCHANGED <<config, connection>>
    BY <1>0, <1>1, <1>6, <2>1 DEF RetireExisting, OdsTypeOK
  <2> QED
    BY <1>4, <2>2, <2>3, <2>4, RequestMoves
<1>7. ASSUME NEW k \in Connections, InsertConnection(a, k) PROVE OdsInv'
  <2>1. PICK r : r = [q EXCEPT !.new = k]
    OBVIOUS
  <2>2. /\ r \in Request /\ r.kind = "update" /\ r.config = q.config /\ r.existing = q.existing
        /\ r.passed = q.passed /\ r.locks = q.locks /\ r.new = k
    BY <1>2, <2>1 DEF Request
  <2>3. connection[k] = None /\ \A b \in Admins : ~Inserts(b, k)
    BY <1>7 DEF InsertConnection, IsNextConnection, IsTaken
  <2>4. RequestHolds(r)
    BY <1>1, <1>2, <1>7, <2>2, <2>3 DEF RequestHolds, InsertConnection
  <2>5. request' = [request EXCEPT ![a] = r] /\ UNCHANGED <<config, connection>>
    BY <1>0, <1>1, <1>7, <2>1 DEF InsertConnection, OdsTypeOK
  <2> QED
    BY <2>2, <2>3, <2>4, <2>5, RequestMoves
<1> QED
  BY <1>5, <1>6, <1>7

(* A test looks for the row to write to.                                    *)
LEMMA FindTargetKeeps ==
  ASSUME OdsInv, NEW a \in Admins, FindTarget(a)
  PROVE  OdsInv'
<1>0. OdsTypeOK /\ UsedAreOwn /\ RequestsHold /\ ActiveConnectionIsGood
  BY DEF OdsInv
<1>1. PICK q : q = request[a]
  OBVIOUS
<1>2. q \in Request /\ q.kind = "test" /\ RequestHolds(q)
  BY <1>0, <1>1 DEF FindTarget, HasRequest, OdsTypeOK, RequestsHold
<1>3. /\ q \in [kind : {"test"}, config : Configs, connection : Connections,
                target : Connections \cup {None}]
      /\ q.config \in Configs /\ Saved(q.config)
  BY <1>2, RequestFields DEF RequestHolds
<1>4. PICK k \in Connections : k = config[q.config].active /\ k \in Used(q.config)
  BY <1>0, <1>3, ConfigRow
<1>5. PICK r : r = [q EXCEPT !.target = k]
  OBVIOUS
<1>6. /\ r \in Request /\ r.kind = "test" /\ r.config = q.config /\ r.target = k
      /\ r.connection = q.connection
  BY <1>3, <1>5 DEF Request
<1>7. RequestHolds(r)
  BY <1>2, <1>4, <1>6 DEF RequestHolds
<1>8. request' = [request EXCEPT ![a] = r] /\ UNCHANGED <<config, connection>>
  BY <1>0, <1>1, <1>4, <1>5 DEF FindTarget, OdsTypeOK
<1> QED
  BY <1>6, <1>7, <1>8, RequestMoves

(* A row that appears for a configuration becomes its active connection;   *)
(* others keep theirs, which is another row.                                *)
LEMMA CreateKeeps ==
  ASSUME OdsInv, NEW a \in Admins, NEW c \in Configs, NEW k \in Connections, Create(a, c, k)
  PROVE  OdsInv'
<1>0. OdsTypeOK /\ UsedAreOwn /\ RequestsHold /\ ActiveConnectionIsGood
  BY DEF OdsInv
<1>1. /\ request[a] \in Request /\ request[a].passed
      /\ request[a].passed \in BOOLEAN /\ request[a].year \in Years
  <2>1. request[a] \in Request /\ request[a].kind = "create" /\ request[a].passed
    BY <1>0 DEF Create, HasRequest, OdsTypeOK, RequestsHold, RequestHolds
  <2> QED
    BY <2>1, RequestFields
<1>2. /\ connection[k] = None /\ \A b \in Admins : ~Inserts(b, k)
      /\ ~Saved(c)
  BY DEF Create, IsNextConnection, IsTaken, IsNextConfig
<1>3. PICK new : new = NewConnection(k, c, request[a].passed)
  OBVIOUS
<1>4. PICK saved : saved = [year |-> request[a].year, retired |-> FALSE, active |-> k, replaced |-> {}]
  OBVIOUS
<1>5. new \in Connection /\ new.of = c /\ ~new.retired /\ new.shows = k /\ new.passed /\ new # None
  BY <1>1, <1>3, NewConnectionIs, NoneIsNone
<1>6. saved \in Config /\ saved # None /\ saved.active = k /\ saved.replaced = {}
  <2>1. saved \in Config
    BY <1>1, <1>4 DEF Config
  <2> QED
    BY <1>4, <2>1, NoneIsNone
<1>7. /\ connection' = [connection EXCEPT ![k] = new] /\ config' = [config EXCEPT ![c] = saved]
      /\ request' = [request EXCEPT ![a] = None]
  BY <1>3, <1>4 DEF Create, Answer
<1>8. OdsTypeOK'
  BY <1>0, <1>5, <1>6, <1>7 DEF OdsTypeOK
<1>9. /\ connection'[k] = new /\ \A i \in Connections : i # k => connection'[i] = connection[i]
      /\ config'[c] = saved /\ \A e \in Configs : e # c => config'[e] = config[e]
  BY <1>0, <1>7 DEF OdsTypeOK
<1>10. Saved(c)' /\ Used(c)' = {k} /\ config'[c].active = k
  BY <1>6, <1>9 DEF Saved, Used
<1>11. \A e \in Configs : e # c => (Saved(e) <=> Saved(e)') /\ Used(e)' = Used(e)
  BY <1>9 DEF Saved, Used
<1>12. \A e \in Configs : Saved(e) => e # c /\ Saved(e)' /\ Used(e)' = Used(e)
  BY <1>2, <1>11
<1>13. \A e \in Configs, i \in Connections : Saved(e) /\ i \in Used(e) => i # k
  BY <1>0, <1>2 DEF UsedAreOwn
<1>14. UsedAreOwn'
  <2> SUFFICES ASSUME NEW e \in Configs, Saved(e)', NEW i \in Used(e)'
               PROVE  connection'[i] # None /\ connection'[i].of = e
    BY DEF UsedAreOwn
  <2>1. CASE e = c
    BY <1>5, <1>9, <1>10, <2>1
  <2>2. CASE e # c
    <3>1. Saved(e) /\ i \in Used(e) /\ i \in Connections
      BY <1>0, <1>11, <2>2, ConfigRow
    <3> QED
      BY <1>0, <1>9, <1>13, <3>1 DEF UsedAreOwn
  <2> QED
    BY <2>1, <2>2
<1>15. RequestsHold'
  <2>1. \A b \in Admins, i \in Connections : b # a /\ Inserts(b, i) => connection'[i] = None
    <3>1. \A b \in Admins, i \in Connections : Inserts(b, i) => connection[i] = None /\ i # k
      BY <1>0, <1>2, NoneIsNone DEF Inserts, HasRequest, RequestsHold, RequestHolds
    <3> QED
      BY <1>9, <3>1
  <2> QED
    BY <1>0, <1>7, <1>12, <2>1, RequestsKept
<1>16. ActiveConnectionIsGood'
  <2> SUFFICES ASSUME NEW e \in Configs, Saved(e)'
      PROVE  LET m == config'[e].active IN
             /\ connection'[m] # None
             /\ connection'[m].of = e /\ ~connection'[m].retired /\ connection'[m].passed
             /\ connection'[m].shows \in Used(e)'
    BY DEF ActiveConnectionIsGood
  <2>1. CASE e = c
    BY <1>5, <1>9, <1>10, <2>1
  <2>2. CASE e # c
    <3>1. Saved(e) /\ config'[e] = config[e]
      BY <1>9, <1>11, <2>2
    <3>2. config[e].active \in Connections /\ config[e].active # k
      BY <1>0, <1>13, <3>1, ConfigRow
    <3> QED
      BY <1>0, <1>9, <1>11, <2>2, <3>1, <3>2 DEF ActiveConnectionIsGood
  <2> QED
    BY <2>1, <2>2
<1> QED
  BY <1>8, <1>14, <1>15, <1>16 DEF OdsInv

(* An update that commits retires a row of its configuration's and makes   *)
(* active one that nobody has seen, whatever became active meanwhile.       *)
LEMMA ActivateIs ==
  ASSUME OdsInv, NEW a \in Admins, ActivateNew(a)
  PROVE  \E c \in Configs, k \in Connections, old \in Connections :
           /\ Saved(c) /\ old \in Used(c) /\ old # k
           /\ connection[k] = None /\ connection[old] \in Connection
           /\ \A b \in Admins : b # a => ~Inserts(b, k)
           /\ connection' = [connection EXCEPT ![k] = NewConnection(k, c, TRUE),
                                               ![old] = [connection[old] EXCEPT !.retired = TRUE]]
           /\ config' = [config EXCEPT ![c] =
                [[config[c] EXCEPT !.active = k] EXCEPT !.replaced = Used(c)]]
           /\ request' = [request EXCEPT ![a] = None]
<1>0. OdsTypeOK /\ UsedAreOwn /\ RequestsHold /\ ActiveConnectionIsGood
  BY DEF OdsInv
<1>1. PICK q : q = request[a]
  OBVIOUS
<1>2. q \in Request /\ q.kind = "update" /\ q.new # None /\ RequestHolds(q)
  BY <1>0, <1>1 DEF ActivateNew, HasRequest, OdsTypeOK, RequestsHold
<1>3. /\ q.config \in Configs /\ Saved(q.config) /\ q.passed \in BOOLEAN /\ q.passed
      /\ q.new \in Connections /\ q.existing \in Connections /\ q.existing \in Used(q.config)
      /\ connection[q.new] = None
  BY <1>2, RequestFields DEF RequestHolds
<1>4. PICK c \in Configs, k \in Connections, old \in Connections :
        c = q.config /\ k = q.new /\ old = q.existing
  BY <1>3
<1>5. connection[old] \in Connection /\ connection[old] # None /\ old # k
  BY <1>0, <1>3, <1>4 DEF UsedAreOwn, OdsTypeOK
<1>6. \A b \in Admins : b # a => ~Inserts(b, k)
  <2>1. Inserts(a, k)
    BY <1>1, <1>2, <1>4 DEF Inserts, HasRequest, ActivateNew
  <2> QED
    BY <1>0, <2>1 DEF RequestsHold
<1>7. q.passed = TRUE
  BY <1>3
<1>8. connection' = [[connection EXCEPT ![k] = NewConnection(k, c, TRUE)] EXCEPT ![old].retired = TRUE]
  BY <1>1, <1>4, <1>7 DEF ActivateNew, Replaced
<1>9. connection' = [connection EXCEPT ![k] = NewConnection(k, c, TRUE),
                                       ![old] = [connection[old] EXCEPT !.retired = TRUE]]
  BY <1>0, <1>5, <1>8 DEF OdsTypeOK
<1>10. config' = [config EXCEPT ![c] = [[config[c] EXCEPT !.active = k] EXCEPT !.replaced = Used(c)]]
  BY <1>0, <1>1, <1>4 DEF ActivateNew, OdsTypeOK
<1>11. request' = [request EXCEPT ![a] = None]
  BY DEF ActivateNew, Answer
<1> QED
  BY <1>3, <1>4, <1>5, <1>6, <1>9, <1>10, <1>11

LEMMA ActivateKeeps ==
  ASSUME OdsInv, NEW a \in Admins, ActivateNew(a)
  PROVE  OdsInv'
<1>0. OdsTypeOK /\ UsedAreOwn /\ RequestsHold /\ ActiveConnectionIsGood
  BY DEF OdsInv
<1>1. PICK c \in Configs, k \in Connections, old \in Connections :
        /\ Saved(c) /\ old \in Used(c) /\ old # k
        /\ connection[k] = None /\ connection[old] \in Connection
        /\ \A b \in Admins : b # a => ~Inserts(b, k)
        /\ connection' = [connection EXCEPT ![k] = NewConnection(k, c, TRUE),
                                            ![old] = [connection[old] EXCEPT !.retired = TRUE]]
        /\ config' = [config EXCEPT ![c] =
             [[config[c] EXCEPT !.active = k] EXCEPT !.replaced = Used(c)]]
        /\ request' = [request EXCEPT ![a] = None]
  BY ActivateIs
<1>2. PICK new : new = NewConnection(k, c, TRUE)
  OBVIOUS
<1>3. PICK end : end = [connection[old] EXCEPT !.retired = TRUE]
  OBVIOUS
<1>4. PICK saved : saved = [[config[c] EXCEPT !.active = k] EXCEPT !.replaced = Used(c)]
  OBVIOUS
<1>5. new \in Connection /\ new.of = c /\ ~new.retired /\ new.shows = k /\ new.passed /\ new # None
  BY <1>2, NewConnectionIs, NoneIsNone
<1>6. end \in Connection /\ end.of = connection[old].of /\ end # None
  BY <1>1, <1>3, NoneIsNone DEF Connection
<1>7. config[c] \in Config /\ Used(c) \subseteq Connections
  BY <1>0, <1>1, ConfigRow
<1>8. saved \in Config /\ saved # None /\ saved.active = k /\ saved.replaced = Used(c)
  BY <1>4, <1>7, NoneIsNone DEF Config
<1>9. /\ connection' = [connection EXCEPT ![k] = new, ![old] = end]
      /\ config' = [config EXCEPT ![c] = saved]
      /\ request' = [request EXCEPT ![a] = None]
  BY <1>1, <1>2, <1>3, <1>4
<1>10. OdsTypeOK'
  BY <1>0, <1>5, <1>6, <1>8, <1>9 DEF OdsTypeOK
<1>11. /\ connection'[k] = new /\ connection'[old] = end
       /\ \A i \in Connections : i # k /\ i # old => connection'[i] = connection[i]
       /\ config'[c] = saved /\ \A e \in Configs : e # c => config'[e] = config[e]
  BY <1>0, <1>1, <1>9 DEF OdsTypeOK
<1>12. Saved(c)' /\ Used(c)' = Used(c) \cup {k} /\ config'[c].active = k
  BY <1>8, <1>11 DEF Saved, Used
<1>13. \A e \in Configs : e # c => (Saved(e) <=> Saved(e)') /\ Used(e)' = Used(e)
  BY <1>11 DEF Saved, Used
<1>14. \A e \in Configs, i \in Connections : Saved(e) /\ i \in Used(e) =>
         /\ i # k /\ connection'[i] # None /\ connection'[i].of = e
  <2> SUFFICES ASSUME NEW e \in Configs, NEW i \in Connections, Saved(e), i \in Used(e)
               PROVE  i # k /\ connection'[i] # None /\ connection'[i].of = e
    OBVIOUS
  <2>1. connection[i] # None /\ connection[i].of = e
    BY <1>0 DEF UsedAreOwn
  <2>2. i # k
    BY <1>1, <2>1
  <2> QED
    BY <1>6, <1>11, <2>1, <2>2
<1>15. UsedAreOwn'
  <2> SUFFICES ASSUME NEW e \in Configs, Saved(e)', NEW i \in Used(e)'
               PROVE  connection'[i] # None /\ connection'[i].of = e
    BY DEF UsedAreOwn
  <2>1. CASE e = c /\ i = k
    BY <1>5, <1>11, <2>1
  <2>2. CASE ~(e = c /\ i = k)
    <3>1. Saved(e) /\ i \in Used(e)
      BY <1>1, <1>12, <1>13, <2>2
    <3>2. i \in Connections
      BY <1>0, <3>1, ConfigRow
    <3> QED
      BY <1>14, <3>1, <3>2
  <2> QED
    BY <2>1, <2>2
<1>16. RequestsHold'
  <2>1. \A b \in Admins, i \in Connections : b # a /\ Inserts(b, i) => connection'[i] = None
    <3>1. \A b \in Admins, i \in Connections : b # a /\ Inserts(b, i) => connection[i] = None /\ i # k
      BY <1>0, <1>1, NoneIsNone DEF Inserts, HasRequest, RequestsHold, RequestHolds
    <3>2. connection[old] # None
      BY <1>1, NoneIsNone
    <3> QED
      BY <1>11, <3>1, <3>2
  <2>2. \A e \in Configs : Saved(e) => Saved(e)' /\ Used(e) \subseteq Used(e)'
    BY <1>12, <1>13
  <2> QED
    BY <1>0, <1>1, <2>1, <2>2, RequestsKept
<1>17. ActiveConnectionIsGood'
  <2> SUFFICES ASSUME NEW e \in Configs, Saved(e)'
      PROVE  LET m == config'[e].active IN
             /\ connection'[m] # None
             /\ connection'[m].of = e /\ ~connection'[m].retired /\ connection'[m].passed
             /\ connection'[m].shows \in Used(e)'
    BY DEF ActiveConnectionIsGood
  <2>1. CASE e = c
    BY <1>5, <1>11, <1>12, <2>1
  <2>2. CASE e # c
    <3>1. Saved(e) /\ config'[e] = config[e]
      BY <1>11, <1>13, <2>2
    <3>2. config[e].active \in Connections /\ config[e].active \in Used(e)
      BY <1>0, <3>1, ConfigRow
    <3>3. config[e].active # k /\ config[e].active # old
      BY <1>0, <1>1, <1>14, <2>2, <3>1, <3>2 DEF UsedAreOwn
    <3> QED
      BY <1>0, <1>11, <1>13, <2>2, <3>1, <3>2, <3>3 DEF ActiveConnectionIsGood
  <2> QED
    BY <2>1, <2>2
<1> QED
  BY <1>10, <1>15, <1>16, <1>17 DEF OdsInv

(* The result of a test is written to a row of the configuration's, and    *)
(* tells of another that was active.                                        *)
LEMMA TestKeeps ==
  ASSUME OdsInv, NEW a \in Admins, UpdateConnectionStatus(a)
  PROVE  OdsInv'
<1>0. OdsTypeOK /\ UsedAreOwn /\ RequestsHold /\ ActiveConnectionIsGood
  BY DEF OdsInv
<1>1. PICK q : q = request[a]
  OBVIOUS
<1>2. q \in Request /\ q.kind = "test" /\ RequestHolds(q) /\ q.target # None
  BY <1>0, <1>1 DEF UpdateConnectionStatus, HasRequest, OdsTypeOK, RequestsHold
<1>3. PICK c \in Configs, k \in Connections, tested \in Connections :
        /\ c = q.config /\ k = q.target /\ tested = q.connection
        /\ Saved(c) /\ k \in Used(c) /\ tested \in Used(c)
  BY <1>2, RequestFields DEF RequestHolds
<1>4. connection[k] \in Connection /\ connection[k] # None /\ connection[k].of = c
  BY <1>0, <1>3 DEF UsedAreOwn, OdsTypeOK
<1>5. PICK saved : saved = [connection[k] EXCEPT !.shows = tested]
  OBVIOUS
<1>6. /\ saved \in Connection /\ saved # None /\ saved.of = connection[k].of /\ saved.shows = tested
      /\ saved.retired = connection[k].retired /\ saved.passed = connection[k].passed
  BY <1>4, <1>5, NoneIsNone DEF Connection
<1>7. connection' = [connection EXCEPT ![k] = saved]
  BY <1>0, <1>1, <1>3, <1>5 DEF UpdateConnectionStatus, OdsTypeOK
<1>8. config' = config /\ request' = [request EXCEPT ![a] = None]
  BY DEF UpdateConnectionStatus, Answer
<1>9. /\ connection'[k] = saved /\ \A i \in Connections : i # k => connection'[i] = connection[i]
      /\ OdsTypeOK'
  BY <1>0, <1>6, <1>7, <1>8 DEF OdsTypeOK
<1>10. \A e \in Configs : (Saved(e) <=> Saved(e)') /\ Used(e)' = Used(e)
  BY <1>8 DEF Saved, Used
<1>11. UsedAreOwn'
  <2> SUFFICES ASSUME NEW e \in Configs, Saved(e), NEW i \in Used(e)
               PROVE  connection'[i] # None /\ connection'[i].of = e
    BY <1>10 DEF UsedAreOwn
  <2>1. i \in Connections /\ connection[i] # None /\ connection[i].of = e
    BY <1>0, ConfigRow DEF UsedAreOwn
  <2> QED
    BY <1>6, <1>9, <2>1
<1>12. RequestsHold'
  <2>1. \A b \in Admins, i \in Connections : b # a /\ Inserts(b, i) => connection'[i] = None
    <3>1. \A b \in Admins, i \in Connections : Inserts(b, i) => connection[i] = None
      BY <1>0, NoneIsNone DEF Inserts, HasRequest, RequestsHold, RequestHolds
    <3> QED
      BY <1>4, <1>9, <3>1
  <2> QED
    BY <1>0, <1>8, <1>10, <2>1, RequestsKept
<1>13. ActiveConnectionIsGood'
  <2> SUFFICES ASSUME NEW e \in Configs, Saved(e)
      PROVE  LET m == config[e].active IN
             /\ connection'[m] # None
             /\ connection'[m].of = e /\ ~connection'[m].retired /\ connection'[m].passed
             /\ connection'[m].shows \in Used(e)
    BY <1>8, <1>10 DEF ActiveConnectionIsGood
  <2>1. config[e].active \in Connections
    BY <1>0, ConfigRow
  <2>2. CASE config[e].active = k
    <3>1. e = c
      BY <1>0, <1>4, <2>2 DEF ActiveConnectionIsGood
    <3> QED
      BY <1>0, <1>3, <1>6, <1>9, <2>2, <3>1 DEF ActiveConnectionIsGood
  <2>3. CASE config[e].active # k
    BY <1>0, <1>9, <2>1, <2>3 DEF ActiveConnectionIsGood
  <2> QED
    BY <2>2, <2>3
<1> QED
  BY <1>9, <1>11, <1>12, <1>13 DEF OdsInv

(* A configuration that is retired keeps its connections.                   *)
LEMMA RetireKeeps ==
  ASSUME OdsInv, NEW c \in Configs, Retire(c)
  PROVE  OdsInv'
<1>0. OdsTypeOK /\ UsedAreOwn /\ RequestsHold /\ ActiveConnectionIsGood
  BY DEF OdsInv
<1>1. config[c] \in Config
  BY <1>0 DEF Retire, InForce, Saved, OdsTypeOK
<1>2. PICK saved : saved = [config[c] EXCEPT !.retired = TRUE]
  OBVIOUS
<1>3. /\ saved \in Config /\ saved # None /\ saved.active = config[c].active
      /\ saved.replaced = config[c].replaced
  BY <1>1, <1>2, NoneIsNone DEF Config
<1>4. config' = [config EXCEPT ![c] = saved] /\ connection' = connection /\ request' = request
  BY <1>2 DEF Retire
<1>5. OdsTypeOK' /\ config'[c] = saved /\ \A e \in Configs : e # c => config'[e] = config[e]
  BY <1>0, <1>3, <1>4 DEF OdsTypeOK
<1>6. \A e \in Configs : /\ Saved(e) <=> Saved(e)'
                         /\ config'[e].active = config[e].active
                         /\ Used(e)' = Used(e)
  BY <1>3, <1>5 DEF Retire, InForce, Saved, Used
<1>7. UsedAreOwn' /\ ActiveConnectionIsGood'
  BY <1>0, <1>4, <1>6 DEF UsedAreOwn, ActiveConnectionIsGood
<1>8. ASSUME NEW b \in Admins, request[b] # None PROVE RequestHolds(request[b])'
  <2>1. PICK q \in Request : q = request[b] /\ RequestHolds(q)
    BY <1>0, <1>8 DEF OdsTypeOK, RequestsHold
  <2>2. q.kind = "update" /\ q.new # None => connection'[q.new] = None
    BY <1>4, <2>1 DEF RequestHolds
  <2>3. RequestHolds(q)'
    BY <1>6, <2>1, <2>2, HoldsStay
  <2> QED
    BY <1>4, <2>1, <2>3 DEF RequestHolds, Saved, Used
<1>9. RequestsHold'
  BY <1>0, <1>4, <1>8 DEF RequestsHold, Inserts, HasRequest
<1> QED
  BY <1>5, <1>7, <1>9 DEF OdsInv

(* Requests that begin.                                                     *)
LEMMA BeginsKeepOds ==
  ASSUME OdsInv, NEW a \in Admins,
         \/ \E y \in Years : TestNew(a, y)
         \/ \E c \in Configs : TestUpdated(a, c) \/ BeginTest(a, c)
  PROVE  OdsInv'
<1>0. OdsTypeOK
  BY DEF OdsInv
<1>1. ASSUME NEW y \in Years, TestNew(a, y) PROVE OdsInv'
  <2>1. PICK r : /\ r = [kind |-> "create", year |-> y, passed |-> TRUE]
                 /\ request' = [request EXCEPT ![a] = r]
    BY <1>1 DEF TestNew, Accepted
  <2>2. r \in Request /\ r.kind = "create" /\ RequestHolds(r)
    BY <2>1 DEF Request, RequestHolds
  <2> QED
    BY <1>1, <2>1, <2>2, RequestMoves DEF TestNew
<1>2. ASSUME NEW c \in Configs, TestUpdated(a, c) PROVE OdsInv'
  <2>1. PICK r : /\ r = [kind |-> "update", config |-> c, passed |-> TRUE, existing |-> None,
                         locks |-> FALSE, new |-> None]
                 /\ request' = [request EXCEPT ![a] = r]
    BY <1>2 DEF TestUpdated, Accepted
  <2>2. r \in Request /\ r.new = None /\ RequestHolds(r)
    BY <1>2, <2>1 DEF Request, RequestHolds, TestUpdated, InForce
  <2> QED
    BY <1>2, <2>1, <2>2, RequestMoves DEF TestUpdated
<1>3. ASSUME NEW c \in Configs, BeginTest(a, c) PROVE OdsInv'
  <2>1. PICK r : /\ r = [kind |-> "test", config |-> c, connection |-> config[c].active, target |-> None]
                 /\ request' = [request EXCEPT ![a] = r]
    BY <1>3 DEF BeginTest
  <2>2. Saved(c) /\ config[c].active \in Connections /\ config[c].active \in Used(c)
    BY <1>0, <1>3, ConfigRow DEF BeginTest, InForce
  <2>3. r \in Request /\ r.kind = "test" /\ RequestHolds(r)
    BY <2>1, <2>2 DEF Request, RequestHolds
  <2> QED
    BY <1>3, <2>1, <2>3, RequestMoves DEF BeginTest
<1> QED
  BY <1>1, <1>2, <1>3

(* Every step keeps the invariant.                                          *)
LEMMA InvPreserved ==
  OdsInv /\ [OdsNext]_odsVars => OdsInv'
<1> SUFFICES ASSUME OdsInv, [OdsNext]_odsVars PROVE OdsInv'
  OBVIOUS
<1>1. ASSUME NEW a \in Admins, OdsRequest(a) PROVE OdsInv'
  <2>1. CASE \/ \E y \in Years : TestNew(a, y)
             \/ \E c \in Configs : TestUpdated(a, c) \/ BeginTest(a, c)
    BY <2>1, BeginsKeepOds
  <2>2. CASE \E c \in Configs, k \in Connections : Create(a, c, k)
    BY <2>2, CreateKeeps
  <2>3. CASE CreateConflicts(a) \/ FailOdsRequest(a)
    BY <2>3, RequestEnds DEF CreateConflicts, FailOdsRequest
  <2>4. CASE \/ ReadExisting(a) \/ RetireExisting(a)
             \/ \E k \in Connections : InsertConnection(a, k)
    BY <2>4, UpdateStepsKeep
  <2>5. CASE ActivateNew(a)
    BY <2>5, ActivateKeeps
  <2>6. CASE FindTarget(a)
    BY <2>6, FindTargetKeeps
  <2>7. CASE UpdateConnectionStatus(a)
    BY <2>7, TestKeeps
  <2> QED
    BY <1>1, <2>1, <2>2, <2>3, <2>4, <2>5, <2>6, <2>7 DEF OdsRequest
<1>2. ASSUME NEW c \in Configs, Retire(c) PROVE OdsInv'
  BY <1>2, RetireKeeps
<1>3. CASE UNCHANGED odsVars
  BY <1>3 DEF odsVars, OdsInv, OdsTypeOK, UsedAreOwn, RequestsHold, RequestHolds, Inserts,
     HasRequest, Saved, Used, ActiveConnectionIsGood
<1> QED
  BY <1>1, <1>2, <1>3 DEF OdsNext

(* There is nothing at first.                                               *)
LEMMA InvInit == OdsInit => OdsInv
BY DEF OdsInit, OdsInv, OdsTypeOK, UsedAreOwn, RequestsHold, Inserts, HasRequest,
   ActiveConnectionIsGood, Saved

(* The invariant holds of every behaviour of the service.                   *)
LEMMA Invariance == OdsSpec => []OdsInv
BY InvInit, InvPreserved, PTL DEF OdsSpec

-----------------------------------------------------------------------------
(* The theorems.                                                            *)

(* Rows and requests are of the kinds that schema and handlers give them    *)
(* (ods-config.service.ts).                                                 *)
THEOREM OdsTypeCorrect == OdsSpec => []OdsTypeOK
BY Invariance, PTL DEF OdsInv

(* However the statements of updates, tests and removals of any number of  *)
(* admins interleave, the active connection of a configuration is its own, *)
(* in use, and tested, and shows the result of testing it or one that was  *)
(* active before it (ods-config.service.ts 125-208).                        *)
THEOREM ActiveConnectionsAreGood == OdsSpec => []ActiveConnectionIsGood
BY Invariance, PTL DEF OdsInv

(* A step of the service opens a configuration, renews its connection by    *)
(* one that never was active, retires it, or leaves the configurations      *)
(* alone.                                                                   *)
LEMMA StepsOfStore ==
  OdsInv /\ [OdsNext]_odsVars => [Store!Next]_config
<1> SUFFICES ASSUME OdsInv, [OdsNext]_odsVars PROVE [Store!Next]_config
  OBVIOUS
<1>0. OdsTypeOK /\ UsedAreOwn /\ RequestsHold /\ ActiveConnectionIsGood
  BY DEF OdsInv
<1> USE DEF Store!Configs, Store!Connections, Store!Saved, Store!InForce, Store!OfYear,
     Configs, Connections
<1>1. \A k \in Connections : connection[k] = None => Store!IsNew(k)
  BY <1>0 DEF UsedAreOwn, Saved, Used, Store!IsNew, Store!Used
<1>2. ASSUME NEW a \in Admins, NEW c \in Configs, NEW k \in Connections, Create(a, c, k)
      PROVE  Store!Next
  <2>1. request[a] \in Request /\ request[a].kind = "create"
    BY <1>0, <1>2 DEF Create, HasRequest, OdsTypeOK
  <2>2. request[a].year \in Years
    BY <2>1, RequestFields
  <2>3. Store!IsNew(k)
    BY <1>1, <1>2 DEF Create, IsNextConnection, IsTaken
  <2>4. Store!Open(c, request[a].year, k)
    BY <1>2, <2>3 DEF Create, MayCreate, Conflicts, IsNextConfig, OfYear, InForce, Saved, Store!Open
  <2> QED
    BY <2>2, <2>4 DEF Store!Next
<1>3. ASSUME NEW a \in Admins, ActivateNew(a)
      PROVE  Store!Next
  <2>1. PICK c \in Configs, k \in Connections :
          /\ Saved(c) /\ connection[k] = None
          /\ config' = [config EXCEPT ![c] =
               [[config[c] EXCEPT !.active = k] EXCEPT !.replaced = Used(c)]]
    BY <1>3, ActivateIs
  <2>2. config' = [config EXCEPT ![c].active = k, ![c].replaced = Used(c)]
    BY <1>0, <2>1 DEF OdsTypeOK
  <2>3. Store!Renew(c, k)
    BY <1>1, <2>1, <2>2 DEF Saved, Used, Store!Used, Store!Renew
  <2> QED
    BY <2>3 DEF Store!Next
<1>4. ASSUME NEW c \in Configs, Retire(c)
      PROVE  Store!Next
  BY <1>4 DEF Retire, InForce, Saved, Store!Retire, Store!Next
<1>5. \/ \E a \in Admins, c \in Configs, k \in Connections : Create(a, c, k)
      \/ \E a \in Admins : ActivateNew(a)
      \/ \E c \in Configs : Retire(c)
      \/ UNCHANGED config
  BY DEF OdsNext, OdsRequest, odsVars, TestNew, CreateConflicts, TestUpdated, BeginTest,
     ReadExisting, RetireExisting, InsertConnection, FindTarget, FailOdsRequest, UpdateConnectionStatus
<1> QED
  BY <1>2, <1>3, <1>4, <1>5

(* The service keeps what the rest of Runway takes its configurations to be *)
(* (ods-config.service.ts 60-221, read by jobs.service.ts:134).             *)
THEOREM OdsConfigsImplementStore == OdsSpec => ImplementsOdsStore
<1>1. OdsInit => Store!Init
  BY DEF OdsInit, Store!Init, Configs, Store!Configs
<1>2. [Store!Next]_config => [config' # config /\ Store!Next]_config
  OBVIOUS
<1> QED
  BY <1>1, <1>2, Invariance, StepsOfStore, PTL DEF OdsSpec, ImplementsOdsStore, Store!Spec

(* What the unique index is for: of a year at most one configuration is in  *)
(* force, so that the first one the intake of jobs finds is the one.        *)
OneInForce ==
  \A c, e \in Configs :
    InForce(c) /\ InForce(e) /\ config[c].year = config[e].year => c = e

(* No two requests, whenever they came, have left two configurations of a   *)
(* year in force.                                                           *)
THEOREM OneConfigurationInForce == OdsSpec => []OneInForce
<1>1. OdsInit => OneInForce
  BY DEF OdsInit, OneInForce, InForce, Saved
<1>2. OneInForce /\ OdsInv /\ [OdsNext]_odsVars => OneInForce'
  <2> SUFFICES ASSUME OneInForce, OdsInv, [Store!Next]_config PROVE OneInForce'
    BY StepsOfStore
  <2>0. config \in [Configs -> Config \cup {None}]
    BY DEF OdsInv, OdsTypeOK
  <2> USE DEF Store!Configs, Store!Connections, Store!Saved, Store!InForce, Store!OfYear,
       Configs, Connections, InForce, Saved
  <2>1. ASSUME NEW c \in Configs, NEW y \in Years, NEW k \in Connections, Store!Open(c, y, k)
        PROVE  OneInForce'
    BY <2>0, <2>1 DEF OneInForce, Store!Open
  <2>2. ASSUME NEW c \in Configs, NEW k \in Connections, Store!Renew(c, k)
        PROVE  OneInForce'
    <3>1. config[c] \in Config /\ config' = [config EXCEPT ![c].active = k, ![c].replaced = Store!Used(c)]
      BY <2>0, <2>2 DEF Store!Renew
    <3>2. \A e \in Configs : Saved(e)' =>
            Saved(e) /\ config'[e].year = config[e].year /\ config'[e].retired = config[e].retired
      <4>1. \A e \in Configs : e # c => config'[e] = config[e]
        BY <2>0, <3>1
      <4>2. config'[c].year = config[c].year /\ config'[c].retired = config[c].retired
        BY <2>0, <3>1 DEF Config
      <4> QED
        BY <2>2, <4>1, <4>2 DEF Store!Renew
    <3> QED
      BY <3>2 DEF OneInForce
  <2>3. ASSUME NEW c \in Configs, Store!Retire(c)
        PROVE  OneInForce'
    <3>1. config[c] \in Config /\ config' = [config EXCEPT ![c].retired = TRUE]
      BY <2>0, <2>3 DEF Store!Retire
    <3>2. \A e \in Configs : InForce(e)' => InForce(e) /\ config'[e].year = config[e].year
      BY <2>0, <3>1 DEF Config
    <3> QED
      BY <3>2 DEF OneInForce
  <2>4. CASE UNCHANGED config
    BY <2>4 DEF OneInForce
  <2> QED
    BY <2>1, <2>2, <2>3, <2>4 DEF Store!Next
<1> QED
  BY <1>1, <1>2, Invariance, PTL DEF OdsSpec

-----------------------------------------------------------------------------
(* EDU pools.                                                               *)

(* Rows are sent one part after the other; the entry is of a pool that has *)
(* not failed; and whoever has had credentials, or a pool, or the switch,   *)
(* is somebody for whom there were credentials once.                        *)
EduInv ==
  /\ EduTypeOK /\ FailedPoolsAreForgotten
  /\ \A s \in Streams : stream[s] # NoValue =>
       /\ stream[s].pc \in {"pool", "acquire"} => stream[s].rows = 0
       /\ stream[s].pc = "rows" => stream[s].rows <= 1
       /\ stream[s].pc = "complete" => stream[s].rows = 2
  /\ creds # NoValue \/ crossYear \/ entry # NoValue => newest > 0

LEMMA EduInitHolds == EduInit => EduInv
<1> SUFFICES ASSUME EduInit PROVE EduInv
  OBVIOUS
<1>1. 0 \in 0..MaxCreds  BY EduConstantsOK
<1> QED
  BY <1>1 DEF EduInit, EduInv, EduTypeOK, FailedPoolsAreForgotten

(* What a step does to one stream.                                          *)
StreamHolds(x) ==
  /\ x \in Stream
  /\ x.pc \in {"pool", "acquire"} => x.rows = 0
  /\ x.pc = "rows" => x.rows <= 1
  /\ x.pc = "complete" => x.rows = 2

LEMMA OneStreamMoves ==
  ASSUME EduInv, NEW s \in Streams, NEW x, StreamHolds(x), stream' = [stream EXCEPT ![s] = x]
  PROVE  /\ stream' \in [Streams -> Stream \cup {NoValue}]
         /\ \A t \in Streams : stream'[t] # NoValue =>
              /\ stream'[t].pc \in {"pool", "acquire"} => stream'[t].rows = 0
              /\ stream'[t].pc = "rows" => stream'[t].rows <= 1
              /\ stream'[t].pc = "complete" => stream'[t].rows = 2
<1>1. stream \in [Streams -> Stream \cup {NoValue}]  BY DEF EduInv, EduTypeOK
<1>2. stream'[s] = x /\ \A t \in Streams \ {s} : stream'[t] = stream[t]  BY <1>1
<1>3. stream' \in [Streams -> Stream \cup {NoValue}]  BY <1>1 DEF StreamHolds
<1>4. ASSUME NEW t \in Streams, stream'[t] # NoValue
      PROVE  /\ stream'[t].pc \in {"pool", "acquire"} => stream'[t].rows = 0
             /\ stream'[t].pc = "rows" => stream'[t].rows <= 1
             /\ stream'[t].pc = "complete" => stream'[t].rows = 2
  <2>1. CASE t = s  BY <1>2, <2>1 DEF StreamHolds
  <2>2. CASE t # s
    <3>1. stream'[t] = stream[t]  BY <1>2, <2>2
    <3> QED  BY <1>4, <3>1 DEF EduInv
  <2> QED  BY <2>1, <2>2
<1> QED  BY <1>3, <1>4

(* A stream that waits or sends may be given a new place.                   *)
LEMMA StreamGoes ==
  ASSUME EduInv, NEW s \in Streams, stream[s] # NoValue,
         NEW pc \in {"error", "torn"} \cup
                    (IF stream[s].pc = "pool" THEN {"acquire"}
                     ELSE IF stream[s].pc = "acquire" THEN {"rows"} ELSE {})
  PROVE  StreamHolds([stream[s] EXCEPT !.pc = pc])
<1>1. stream[s] \in Stream  BY DEF EduInv, EduTypeOK
<1>2. PICK x : x = [stream[s] EXCEPT !.pc = pc]  OBVIOUS
<1>3. pc \in {"pool", "acquire", "rows"} \cup Answers  BY DEF Answers
<1>4. x \in Stream /\ x.pc = pc /\ x.rows = stream[s].rows  BY <1>1, <1>2, <1>3 DEF Stream
<1>5. x.pc \in {"acquire", "rows"} => x.rows = 0  BY <1>4 DEF EduInv
<1>6. x.pc # "pool" /\ x.pc # "complete"  BY <1>4
<1>7. StreamHolds(x)  BY <1>4, <1>5, <1>6 DEF StreamHolds
<1> QED  BY <1>2, <1>7

LEMMA EduStep == EduInv /\ [EduNext]_eduVars => EduInv'
<1> SUFFICES ASSUME EduInv, [EduNext]_eduVars PROVE EduInv'
  OBVIOUS
<1>1. EduTypeOK  BY DEF EduInv
<1>2. newest \in Nat /\ MaxCreds \in Nat /\ newest <= MaxCreds
  BY <1>1, EduConstantsOK DEF EduTypeOK
<1>3. pool \in [Pools -> Pool \cup {NoValue}] /\ stream \in [Streams -> Stream \cup {NoValue}]
  BY <1>1 DEF EduTypeOK
<1>4. CASE PutCreds
  <2>1. /\ newest' = newest + 1 /\ creds' = newest' /\ newest < MaxCreds
        /\ UNCHANGED <<crossYear, entry, pool, stream>>
    BY <1>4 DEF PutCreds
  <2>2. newest' \in 0..MaxCreds /\ creds' \in Versions /\ newest' > 0
    BY <1>2, <2>1 DEF Versions
  <2> QED  BY <1>1, <2>1, <2>2 DEF EduInv, EduTypeOK, FailedPoolsAreForgotten
<1>5. CASE RemoveCreds
  BY <1>1, <1>5 DEF RemoveCreds, EduInv, EduTypeOK, FailedPoolsAreForgotten
<1>6. CASE Restart
  <2>1. /\ entry' = NoValue /\ UNCHANGED <<creds, newest, crossYear>>
        /\ pool' = [p \in Pools |-> IF pool[p] = NoValue THEN NoValue
                                     ELSE [pool[p] EXCEPT !.state = "failed"]]
        /\ stream' = [s \in Streams |-> IF Unanswered(s) THEN [stream[s] EXCEPT !.pc = "torn"]
                                        ELSE stream[s]]
    BY <1>6 DEF Restart
  <2>2. \A x \in Pool : [x EXCEPT !.state = "failed"] \in Pool  BY DEF Pool
  <2>3. pool' \in [Pools -> Pool \cup {NoValue}]  BY <1>3, <2>1, <2>2
  <2>4. ASSUME NEW s \in Streams, stream'[s] # NoValue PROVE StreamHolds(stream'[s])
    <3>1. CASE Unanswered(s)
      <4>1. stream[s] # NoValue  BY <3>1 DEF Unanswered
      <4>2. StreamHolds([stream[s] EXCEPT !.pc = "torn"])  BY <4>1, StreamGoes
      <4> QED  BY <2>1, <3>1, <4>2
    <3>2. CASE ~Unanswered(s)
      <4>1. stream'[s] = stream[s]  BY <2>1, <3>2
      <4>2. stream[s] \in Stream  BY <1>3, <2>4, <4>1
      <4> QED  BY <2>4, <4>1, <4>2 DEF EduInv, StreamHolds
    <3> QED  BY <3>1, <3>2
  <2>5. stream' = [s \in Streams |-> stream'[s]]  BY <2>1
  <2>6. stream' \in [Streams -> Stream \cup {NoValue}]
    <3>1. \A s \in Streams : stream'[s] \in Stream \cup {NoValue}  BY <2>4 DEF StreamHolds
    <3> QED  BY <2>5, <3>1
  <2>7. EduTypeOK'  BY <1>1, <2>1, <2>3, <2>6 DEF EduTypeOK
  <2> QED  BY <2>1, <2>4, <2>7 DEF EduInv, FailedPoolsAreForgotten, StreamHolds
<1>7. ASSUME NEW on \in BOOLEAN, UpdateEduConfig(on) PROVE EduInv'
  <2>1. /\ crossYear' = on /\ UNCHANGED <<creds, newest, entry, pool, stream>>
        /\ on => creds # NoValue \/ entry # NoValue
    BY <1>7 DEF UpdateEduConfig, CanConnect
  <2>2. crossYear' => newest > 0  BY <2>1 DEF EduInv
  <2> QED  BY <1>1, <2>1, <2>2 DEF EduInv, EduTypeOK, FailedPoolsAreForgotten
<1>8. ASSUME NEW p \in Pools, CreatePool(p) PROVE EduInv'
  <2>1. /\ pool[p] # NoValue /\ creds # NoValue
        /\ pool' = [pool EXCEPT ![p].state = "ready", ![p].creds = creds]
        /\ UNCHANGED <<creds, newest, crossYear, entry, stream>>
    BY <1>8 DEF CreatePool
  <2>2. pool[p] \in Pool /\ creds \in Versions  BY <1>1, <1>3, <2>1 DEF EduTypeOK
  <2>3. PICK x : x = [[pool[p] EXCEPT !.state = "ready"] EXCEPT !.creds = creds]  OBVIOUS
  <2>4. x \in Pool /\ x.state = "ready"  BY <2>2, <2>3 DEF Pool
  <2>5. pool' = [pool EXCEPT ![p] = x]  BY <1>3, <2>1, <2>3
  <2>6. pool' \in [Pools -> Pool \cup {NoValue}]  BY <1>3, <2>4, <2>5
  <2>7. FailedPoolsAreForgotten'
    <3>1. entry \in Pools \cup {NoValue}  BY <1>1 DEF EduTypeOK
    <3>2. pool'[p] = x /\ \A q \in Pools \ {p} : pool'[q] = pool[q]  BY <1>3, <2>5
    <3>3. entry # NoValue => pool'[entry].state # "failed"
      <4>1. entry # NoValue => pool[entry].state # "failed"
        BY DEF EduInv, FailedPoolsAreForgotten
      <4>2. CASE entry = p  BY <2>4, <3>2, <4>2
      <4>3. CASE entry # p  BY <3>1, <3>2, <4>1, <4>3
      <4> QED  BY <4>2, <4>3
    <3> QED  BY <2>1, <3>3 DEF FailedPoolsAreForgotten
  <2> QED  BY <1>1, <2>1, <2>6, <2>7 DEF EduInv, EduTypeOK
<1>9. ASSUME NEW p \in Pools, CreatePoolFails(p) PROVE EduInv'
  <2>1. /\ pool[p] # NoValue /\ pool' = [pool EXCEPT ![p].state = "failed"] /\ entry' = NoValue
        /\ UNCHANGED <<creds, newest, crossYear, stream>>
    BY <1>9 DEF CreatePoolFails, EntryAfterFailure
  <2>2. pool[p] \in Pool  BY <1>3, <2>1
  <2>3. [pool[p] EXCEPT !.state = "failed"] \in Pool  BY <2>2 DEF Pool
  <2>4. pool' \in [Pools -> Pool \cup {NoValue}]  BY <1>3, <2>1, <2>3
  <2> QED  BY <1>1, <2>1, <2>4 DEF EduInv, EduTypeOK, FailedPoolsAreForgotten
<1>10. ASSUME NEW s \in Streams, StreamRoster(s) PROVE EduInv'
  <2>1. UNCHANGED <<creds, newest, crossYear>>  BY <1>10 DEF StreamRoster
  <2>2. ASSUME NEW pc \in {"conflict", "pool"}, NEW p \in Pools \cup {NoValue}
        PROVE  StreamHolds([pc |-> pc, pool |-> p, rows |-> 0])
    <3>1. [pc |-> pc, pool |-> p, rows |-> 0] \in Stream  BY DEF Stream, Answers
    <3> QED  BY <3>1 DEF StreamHolds
  <2>3. CASE UNCHANGED <<entry, pool>> /\ NewStream(s, "conflict", NoValue)
    <3>1. PICK x : x = [pc |-> "conflict", pool |-> NoValue, rows |-> 0]  OBVIOUS
    <3>2. StreamHolds(x) /\ stream' = [stream EXCEPT ![s] = x]
      BY <2>2, <2>3, <3>1 DEF NewStream
    <3>3. /\ stream' \in [Streams -> Stream \cup {NoValue}]
          /\ \A t \in Streams : stream'[t] # NoValue =>
               /\ stream'[t].pc \in {"pool", "acquire"} => stream'[t].rows = 0
               /\ stream'[t].pc = "rows" => stream'[t].rows <= 1
               /\ stream'[t].pc = "complete" => stream'[t].rows = 2
      BY <3>2, OneStreamMoves
    <3> QED  BY <1>1, <2>1, <2>3, <3>3 DEF EduInv, EduTypeOK, FailedPoolsAreForgotten
  <2>4. CASE crossYear /\ GetOrCreatePool /\ NewStream(s, "pool", entry')
    <3>1. /\ entry' \in Pools \cup {NoValue} /\ pool' \in [Pools -> Pool \cup {NoValue}]
          /\ FailedPoolsAreForgotten'
      <4>1. CASE entry # NoValue
        <5>1. UNCHANGED <<entry, pool>>  BY <2>4, <4>1 DEF GetOrCreatePool
        <5> QED  BY <1>1, <1>3, <5>1 DEF EduInv, EduTypeOK, FailedPoolsAreForgotten
      <4>2. CASE entry = NoValue
        <5>1. PICK p \in Pools :
                /\ pool' = [pool EXCEPT ![p] = [state |-> "creating", creds |-> NoValue]]
                /\ entry' = p
          BY <2>4, <4>2 DEF GetOrCreatePool
        <5>2. [state |-> "creating", creds |-> NoValue] \in Pool  BY DEF Pool
        <5>3. pool' \in [Pools -> Pool \cup {NoValue}]  BY <1>3, <5>1, <5>2
        <5>4. pool'[p].state = "creating"  BY <1>3, <5>1
        <5> QED  BY <5>1, <5>3, <5>4 DEF FailedPoolsAreForgotten
      <4> QED  BY <4>1, <4>2
    <3>2. PICK p \in Pools \cup {NoValue} : p = entry'  BY <3>1
    <3>3. PICK x : x = [pc |-> "pool", pool |-> p, rows |-> 0]  OBVIOUS
    <3>4. StreamHolds(x) /\ stream' = [stream EXCEPT ![s] = x]
      BY <2>2, <2>4, <3>2, <3>3 DEF NewStream
    <3>5. /\ stream' \in [Streams -> Stream \cup {NoValue}]
          /\ \A t \in Streams : stream'[t] # NoValue =>
               /\ stream'[t].pc \in {"pool", "acquire"} => stream'[t].rows = 0
               /\ stream'[t].pc = "rows" => stream'[t].rows <= 1
               /\ stream'[t].pc = "complete" => stream'[t].rows = 2
      BY <3>4, OneStreamMoves
    <3>6. newest' > 0  BY <2>1, <2>4 DEF EduInv
    <3>7. EduTypeOK'  BY <1>1, <2>1, <3>1, <3>5 DEF EduTypeOK
    <3> QED  BY <3>1, <3>5, <3>6, <3>7 DEF EduInv
  <2> QED  BY <1>10, <2>3, <2>4 DEF StreamRoster
<1>11. ASSUME NEW s \in Streams, NEW x, StreamHolds(x), stream' = [stream EXCEPT ![s] = x],
              UNCHANGED <<creds, newest, crossYear, entry, pool>>
       PROVE  EduInv'
  <2>1. /\ stream' \in [Streams -> Stream \cup {NoValue}]
        /\ \A t \in Streams : stream'[t] # NoValue =>
             /\ stream'[t].pc \in {"pool", "acquire"} => stream'[t].rows = 0
             /\ stream'[t].pc = "rows" => stream'[t].rows <= 1
             /\ stream'[t].pc = "complete" => stream'[t].rows = 2
    BY <1>11, OneStreamMoves
  <2> QED  BY <1>1, <1>11, <2>1 DEF EduInv, EduTypeOK, FailedPoolsAreForgotten
<1>12. ASSUME NEW s \in Streams, AwaitPool(s) \/ Acquire(s) \/ StreamFails(s) PROVE EduInv'
  <2>1. stream[s] # NoValue /\ UNCHANGED <<creds, newest, crossYear, entry, pool>>
    BY <1>12 DEF AwaitPool, Acquire, StreamFails, StreamAt
  <2>2. PICK pc : /\ Goes(s, pc)
                  /\ pc \in {"error", "torn"} \cup
                       (IF stream[s].pc = "pool" THEN {"acquire"}
                        ELSE IF stream[s].pc = "acquire" THEN {"rows"} ELSE {})
    <3>1. CASE AwaitPool(s)
      BY <3>1 DEF AwaitPool, StreamAt
    <3>2. CASE Acquire(s)
      BY <3>2 DEF Acquire, StreamAt
    <3>3. CASE StreamFails(s)
      <4>1. Goes(s, AnswerOfFailure(s)) /\ stream[s] # NoValue  BY <3>3 DEF StreamFails, StreamAt
      <4>2. AnswerOfFailure(s) \in {"error", "torn"}
        BY <4>1 DEF AnswerOfFailure
      <4> QED  BY <4>1, <4>2
    <3> QED  BY <1>12, <3>1, <3>2, <3>3
  <2>3. StreamHolds([stream[s] EXCEPT !.pc = pc])  BY <2>1, <2>2, StreamGoes
  <2>4. PICK x : x = [stream[s] EXCEPT !.pc = pc]  OBVIOUS
  <2>5. stream' = [stream EXCEPT ![s] = x]  BY <2>2, <2>4 DEF Goes
  <2> QED  BY <1>11, <2>1, <2>3, <2>4, <2>5
<1>13. ASSUME NEW s \in Streams, SendRows(s) PROVE EduInv'
  <2>1. /\ stream[s] # NoValue /\ stream[s].pc = "rows"
        /\ UNCHANGED <<creds, newest, crossYear, entry, pool>>
    BY <1>13 DEF SendRows, StreamAt
  <2>2. stream[s] \in Stream  BY <1>3, <2>1
  <2>3. stream[s].rows \in {0, 1}
    <3>1. stream[s].rows \in 0..2 /\ stream[s].rows <= 1  BY <2>1, <2>2 DEF Stream, EduInv
    <3> QED  BY <3>1
  <2>a. PICK y : y = [stream[s] EXCEPT !.rows = @ + 1]  OBVIOUS
  <2>4. PICK x : x = [y EXCEPT !.pc = IF stream[s].rows = 1 THEN "complete" ELSE @]  OBVIOUS
  <2>5. /\ x \in [pc : {"rows", "complete"}, pool : Pools \cup {NoValue}, rows : {1, 2}]
        /\ x.pc = "complete" => x.rows = 2
        /\ x.pc = "rows" => x.rows = 1
    <3>1. PICK q \in Pools \cup {NoValue}, n \in {0, 1} : stream[s] = [pc |-> "rows", pool |-> q, rows |-> n]
      BY <2>1, <2>2, <2>3 DEF Stream
    <3>2. CASE n = 0
      <4>1. y = [pc |-> "rows", pool |-> q, rows |-> 1]  BY <2>a, <3>1, <3>2
      <4>2. y.pc = "rows" /\ stream[s].rows = 0  BY <4>1, <3>1, <3>2
      <4>3. x = [pc |-> "rows", pool |-> q, rows |-> 1]  BY <2>4, <4>1, <4>2
      <4> QED  BY <4>3
    <3>3. CASE n = 1
      <4>1. y = [pc |-> "rows", pool |-> q, rows |-> 2]  BY <2>a, <3>1, <3>3
      <4>2. stream[s].rows = 1  BY <3>1, <3>3
      <4>3. x = [pc |-> "complete", pool |-> q, rows |-> 2]  BY <2>4, <4>1, <4>2
      <4> QED  BY <4>3
    <3> QED  BY <2>3, <3>2, <3>3
  <2>6. StreamHolds(x)
    <3>1. x \in Stream  BY <2>5 DEF Stream, Answers
    <3>2. x.pc \in {"rows", "complete"}  BY <2>5
    <3> QED  BY <2>5, <3>1, <3>2 DEF StreamHolds
  <2>7. stream' = [stream EXCEPT ![s] = x]  BY <1>3, <1>13, <2>a, <2>4 DEF SendRows
  <2> QED  BY <1>11, <2>1, <2>6, <2>7
<1>14. CASE UNCHANGED eduVars
  BY <1>14 DEF eduVars, EduInv, EduTypeOK, FailedPoolsAreForgotten
<1> QED
  BY <1>4, <1>5, <1>6, <1>7, <1>8, <1>9, <1>10, <1>12, <1>13, <1>14 DEF EduNext

(* No half answer passes as a roster, a pool that failed is not used again, *)
(* and the switch is on only for a partner who has had credentials.         *)
THEOREM EduIsSoundAlways == EduSpec => []EduIsSound
<1>1. EduInit => EduInv  BY EduInitHolds
<1>2. EduInv /\ [EduNext]_eduVars => EduInv'  BY EduStep
<1>3. EduInv => EduIsSound
  BY DEF EduInv, EduIsSound, RostersAreWhole, StreamAt, SwitchHadCredentials
<1> QED
  BY <1>1, <1>2, <1>3, PTL DEF EduSpec

-----------------------------------------------------------------------------
(* The bundle cache.                                                        *)

(* A version that was read at some time had not been replaced by then: if  *)
(* it has been since, that was later.                                      *)
CurrentSince(v, time) == ended[v] # 0 => time <= ended[v]

(* Versions have been replaced one after the other; what is under way, in  *)
(* the copy or served was current when its fetch began.                    *)
BundleInv ==
  /\ BundleTypeOK /\ now > 0
  /\ \A v \in BundleVersions : v >= registry => ended[v] = 0
  /\ \A c \in Callers : fetch[c] # NoFetch =>
       /\ fetch[c].since <= now /\ now <= fetch[c].since + Patience
       /\ fetch[c].version # 0 => fetch[c].version <= registry /\ CurrentSince(fetch[c].version, fetch[c].since)
  /\ bundles.updated <= now
  /\ ended[bundles.version] # 0 => bundles.updated <= ended[bundles.version] + Patience
  /\ \A c \in Callers : served[c].at <= now
  /\ BundlesAreRecent

LEMMA BundleTypes ==
  ASSUME BundleTypeOK
  PROVE  /\ now \in Nat /\ registry \in Nat /\ TTL \in Nat /\ Patience \in Nat
         /\ registry \in BundleVersions
         /\ \A v \in BundleVersions : v \in Nat /\ v # 0 /\ ended[v] \in Nat
         /\ bundles.version \in BundleVersions /\ bundles.updated \in Nat
         /\ \A c \in Callers : /\ served[c].version \in BundleVersions /\ served[c].at \in Nat
                               /\ fetch[c] # NoFetch =>
                                    /\ fetch[c].since \in Nat
                                    /\ fetch[c].version \in BundleVersions \cup {0}
<1>1. TTL \in Nat /\ Patience \in Nat  BY BundleConstantsOK
<1>2. \A v \in BundleVersions : v \in Nat /\ v # 0  BY BundleConstantsOK DEF BundleVersions
<1>3. \A x \in Times : x \in Nat  BY BundleConstantsOK DEF Times
<1>4. now \in Nat /\ registry \in Nat /\ registry \in BundleVersions  BY <1>2, <1>3 DEF BundleTypeOK
<1>5. \A v \in BundleVersions : ended[v] \in Nat  BY <1>3 DEF BundleTypeOK
<1>6. bundles.version \in BundleVersions /\ bundles.updated \in Nat  BY <1>3 DEF BundleTypeOK
<1>7. ASSUME NEW c \in Callers PROVE served[c].version \in BundleVersions /\ served[c].at \in Nat
  <2>1. served[c] \in [version : BundleVersions, at : Times]  BY DEF BundleTypeOK
  <2> QED  BY <1>3, <2>1
<1>8. ASSUME NEW c \in Callers, fetch[c] # NoFetch
      PROVE  fetch[c].since \in Nat /\ fetch[c].version \in BundleVersions \cup {0}
  <2>1. fetch[c] \in Fetch  BY <1>8 DEF BundleTypeOK
  <2> QED  BY <1>3, <2>1 DEF Fetch
<1> QED  BY <1>1, <1>2, <1>4, <1>5, <1>6, <1>7, <1>8

LEMMA BundleInitHolds == BundleInit => BundleInv
<1> SUFFICES ASSUME BundleInit PROVE BundleInv
  OBVIOUS
<1>1. 1 \in BundleVersions /\ 1 \in Times /\ 0 \in Times
  BY BundleConstantsOK DEF BundleVersions, Times
<1>2. /\ now = 1 /\ registry = 1 /\ ended = [v \in BundleVersions |-> 0]
      /\ bundles = [version |-> 1, updated |-> 1]
      /\ fetch = [c \in Callers |-> NoFetch]
      /\ served = [c \in Callers |-> [version |-> 1, at |-> 1]]
  BY DEF BundleInit
<1>3. BundleTypeOK  BY <1>1, <1>2 DEF BundleTypeOK
<1>4. now > 0 /\ bundles.updated <= now  BY <1>2
<1>5. \A v \in BundleVersions : ended[v] = 0  BY <1>2
<1>6. \A c \in Callers : fetch[c] = NoFetch /\ served[c].version = 1 /\ served[c].at = 1  BY <1>2
<1>7. bundles.version = 1  BY <1>2
<1>8. \A c \in Callers : served[c].at <= now  BY <1>2, <1>6
<1> QED  BY <1>1, <1>3, <1>4, <1>5, <1>6, <1>7, <1>8 DEF BundleInv, BundlesAreRecent

LEMMA BundleStep == BundleInv /\ [BundlesNext]_bundleVars => BundleInv'
<1> SUFFICES ASSUME BundleInv, [BundlesNext]_bundleVars PROVE BundleInv'
  OBVIOUS
<1>1. BundleTypeOK  BY DEF BundleInv
<1>2. /\ now \in Nat /\ registry \in Nat /\ TTL \in Nat /\ Patience \in Nat
      /\ registry \in BundleVersions
      /\ \A v \in BundleVersions : v \in Nat /\ v # 0 /\ ended[v] \in Nat
      /\ bundles.version \in BundleVersions /\ bundles.updated \in Nat
  BY <1>1, BundleTypes
<1>3. \A c \in Callers : served[c].version \in BundleVersions /\ served[c].at \in Nat
  BY <1>1, BundleTypes
<1>4. \A c \in Callers : fetch[c] # NoFetch =>
        fetch[c] \in Fetch /\ fetch[c].since \in Nat /\ fetch[c].version \in BundleVersions \cup {0}
  BY <1>1, BundleTypes DEF BundleTypeOK
<1>5. CASE Tick
  <2>1. /\ now' = now + 1 /\ now < MaxTime
        /\ UNCHANGED <<registry, ended, bundles, fetch, served>>
    BY <1>5 DEF Tick
  <2>2. now' \in Times /\ now' > 0
    <3>1. MaxTime \in Nat  BY BundleConstantsOK
    <3> QED  BY <1>2, <2>1, <3>1 DEF Times
  <2>3. BundleTypeOK'  BY <1>1, <2>1, <2>2 DEF BundleTypeOK
  <2>4. ASSUME NEW c \in Callers, fetch[c] # NoFetch
        PROVE  fetch[c].since <= now' /\ now' <= fetch[c].since + Patience
    <3>1. now < fetch[c].since + Patience /\ fetch[c].since <= now  BY <1>5, <2>4 DEF Tick, BundleInv
    <3> QED  BY <1>2, <1>4, <2>1, <2>4, <3>1
  <2>5. bundles.updated <= now'
    <3>1. bundles.updated <= now  BY DEF BundleInv
    <3> QED  BY <1>2, <2>1, <3>1
  <2>6. ASSUME NEW c \in Callers PROVE served[c].at <= now'
    <3>1. served[c].at <= now  BY DEF BundleInv
    <3> QED  BY <1>2, <1>3, <2>1, <3>1
  <2> QED  BY <2>1, <2>2, <2>3, <2>4, <2>5, <2>6 DEF BundleInv, BundlesAreRecent, CurrentSince
<1>6. CASE Publish
  <2>1. /\ registry < MaxVersion /\ registry' = registry + 1
        /\ ended' = [ended EXCEPT ![registry] = now]
        /\ UNCHANGED <<now, bundles, fetch, served>>
    BY <1>6 DEF Publish
  <2>2. ended \in [BundleVersions -> Times] /\ now \in Times  BY <1>1 DEF BundleTypeOK
  <2>3. /\ ended' \in [BundleVersions -> Times] /\ ended'[registry] = now
        /\ \A v \in BundleVersions \ {registry} : ended'[v] = ended[v]
    BY <1>2, <2>1, <2>2
  <2>4. registry' \in BundleVersions
    <3>1. MaxVersion \in Nat  BY BundleConstantsOK
    <3> QED  BY <1>2, <2>1, <3>1 DEF BundleVersions
  <2>5. BundleTypeOK'  BY <1>1, <2>1, <2>3, <2>4 DEF BundleTypeOK
  <2>6. \A v \in BundleVersions : v >= registry' => ended'[v] = 0
    <3>1. ASSUME NEW v \in BundleVersions, v >= registry' PROVE v # registry /\ v >= registry
      BY <1>2, <2>1, <3>1
    <3> QED  BY <2>3, <3>1 DEF BundleInv
  <2>7. ASSUME NEW c \in Callers, fetch[c] # NoFetch, fetch[c].version # 0
        PROVE  fetch[c].version <= registry' /\ CurrentSince(fetch[c].version, fetch[c].since)'
    <3>1. /\ fetch[c].version <= registry /\ CurrentSince(fetch[c].version, fetch[c].since)
          /\ fetch[c].since <= now
      BY <2>7 DEF BundleInv
    <3>2. PICK v \in BundleVersions : v = fetch[c].version  BY <1>4, <2>7
    <3>3. v <= registry'  BY <1>2, <2>1, <3>1, <3>2
    <3>4. ended'[v] # 0 => fetch[c].since <= ended'[v]
      <4>1. CASE v = registry  BY <2>3, <3>1, <4>1
      <4>2. CASE v # registry  BY <2>3, <3>1, <3>2, <4>2 DEF CurrentSince
      <4> QED  BY <4>1, <4>2
    <3> QED  BY <2>1, <3>2, <3>3, <3>4 DEF CurrentSince
  <2>8. ended'[bundles.version] # 0 => bundles.updated <= ended'[bundles.version] + Patience
    <3>1. bundles.updated <= now  BY DEF BundleInv
    <3>2. CASE bundles.version = registry  BY <1>2, <2>3, <3>1, <3>2
    <3>3. CASE bundles.version # registry  BY <1>2, <2>3, <3>3 DEF BundleInv
    <3> QED  BY <3>2, <3>3
  <2>9. BundlesAreRecent'
    <3>1. ASSUME NEW c \in Callers, NEW v \in BundleVersions, v = served[c].version, ended'[v] # 0
          PROVE  served[c].at <= ended'[v] + TTL + Patience
      <4>1. served[c].at <= now  BY DEF BundleInv
      <4>2. CASE v = registry
        <5>1. \A a, n, x, y \in Nat : a <= n => a <= n + x + y  OBVIOUS
        <5> QED  BY <1>2, <1>3, <2>3, <4>1, <4>2, <5>1
      <4>3. CASE v # registry
        <5>1. ended'[v] = ended[v]  BY <2>3, <4>3
        <5> QED  BY <3>1, <5>1 DEF BundleInv, BundlesAreRecent
      <4> QED  BY <4>2, <4>3
    <3> QED  BY <1>3, <2>1, <3>1 DEF BundlesAreRecent
  <2>10. \A c \in Callers : fetch[c] # NoFetch =>
           fetch[c].since <= now /\ now <= fetch[c].since + Patience
    BY DEF BundleInv
  <2>11. now > 0 /\ bundles.updated <= now /\ \A c \in Callers : served[c].at <= now
    BY DEF BundleInv
  <2> QED  BY <2>1, <2>5, <2>6, <2>7, <2>8, <2>9, <2>10, <2>11 DEF BundleInv, CurrentSince
<1>7. ASSUME NEW c \in Callers, GetBundles(c) PROVE BundleInv'
  <2>1. fetch[c] = NoFetch /\ UNCHANGED <<now, registry, ended, bundles>>  BY <1>7 DEF GetBundles
  <2>2. CASE BundleCacheExpired
    <3>1. PICK f : f = [since |-> now, version |-> 0]  OBVIOUS
    <3>2. fetch' = [fetch EXCEPT ![c] = f] /\ served' = served
      BY <1>7, <2>2, <3>1 DEF GetBundles
    <3>3. fetch \in [Callers -> Fetch \cup {NoFetch}] /\ now \in Times  BY <1>1 DEF BundleTypeOK
    <3>4. f \in Fetch /\ f.since = now /\ f.version = 0  BY <3>1, <3>3 DEF Fetch
    <3>5. fetch' \in [Callers -> Fetch \cup {NoFetch}]  BY <3>2, <3>3, <3>4
    <3>6. fetch'[c] = f /\ \A d \in Callers \ {c} : fetch'[d] = fetch[d]  BY <3>2, <3>3
    <3>7. BundleTypeOK'  BY <1>1, <2>1, <3>2, <3>5 DEF BundleTypeOK
    <3>8. f.since <= now /\ now <= f.since + Patience  BY <1>2, <3>4
    <3>9. ASSUME NEW d \in Callers, fetch'[d] # NoFetch
          PROVE  /\ fetch'[d].since <= now /\ now <= fetch'[d].since + Patience
                 /\ fetch'[d].version # 0 =>
                      fetch'[d].version <= registry /\ CurrentSince(fetch'[d].version, fetch'[d].since)
      <4>1. CASE d = c  BY <3>4, <3>6, <3>8, <4>1
      <4>2. CASE d # c
        <5>1. fetch'[d] = fetch[d]  BY <3>6, <4>2
        <5> QED  BY <3>9, <5>1 DEF BundleInv
      <4> QED  BY <4>1, <4>2
    <3> QED  BY <2>1, <3>2, <3>7, <3>9 DEF BundleInv, BundlesAreRecent, CurrentSince
  <2>3. CASE ~BundleCacheExpired
    <3>1. PICK x : x = [version |-> bundles.version, at |-> now]  OBVIOUS
    <3>2. served' = [served EXCEPT ![c] = x] /\ fetch' = fetch
      BY <1>7, <2>3, <3>1 DEF GetBundles
    <3>3. served \in [Callers -> [version : BundleVersions, at : Times]] /\ now \in Times
      BY <1>1 DEF BundleTypeOK
    <3>4. x \in [version : BundleVersions, at : Times] /\ x.version = bundles.version /\ x.at = now
      BY <1>2, <3>1, <3>3
    <3>5. served' \in [Callers -> [version : BundleVersions, at : Times]]  BY <3>2, <3>3, <3>4
    <3>6. served'[c] = x /\ \A d \in Callers \ {c} : served'[d] = served[d]  BY <3>2, <3>3
    <3>7. BundleTypeOK'  BY <1>1, <2>1, <3>2, <3>5 DEF BundleTypeOK
    <3>8. ended[x.version] # 0 => x.at <= ended[x.version] + TTL + Patience
      <4>1. PICK u \in Nat : u = bundles.updated  BY <1>2
      <4>2. PICK e \in Nat : e = ended[bundles.version]  BY <1>2
      <4>3. ~(now - u > TTL)  BY <2>3, <4>1 DEF BundleCacheExpired
      <4>4. e # 0 => u <= e + Patience  BY <4>1, <4>2 DEF BundleInv
      <4>5. e # 0 => now <= e + TTL + Patience  BY <1>2, <4>3, <4>4
      <4> QED  BY <3>4, <4>2, <4>5
    <3>9. BundlesAreRecent'
      <4>1. ASSUME NEW d \in Callers, ended[served'[d].version] # 0
            PROVE  served'[d].at <= ended[served'[d].version] + TTL + Patience
        <5>1. CASE d = c  BY <3>6, <3>8, <4>1, <5>1
        <5>2. CASE d # c
          <6>1. served'[d] = served[d]  BY <3>6, <5>2
          <6> QED  BY <4>1, <6>1 DEF BundleInv, BundlesAreRecent
        <5> QED  BY <5>1, <5>2
      <4> QED  BY <2>1, <4>1 DEF BundlesAreRecent
    <3>10. \A d \in Callers : served'[d].at <= now'
      <4>1. \A d \in Callers : served[d].at <= now  BY DEF BundleInv
      <4> QED  BY <1>2, <2>1, <3>4, <3>6, <4>1
    <3> QED  BY <2>1, <3>2, <3>7, <3>9, <3>10 DEF BundleInv, CurrentSince
  <2> QED  BY <2>2, <2>3
<1>8. ASSUME NEW c \in Callers, RegistryAnswers(c) PROVE BundleInv'
  <2>1. /\ fetch[c] # NoFetch /\ fetch' = [fetch EXCEPT ![c].version = registry]
        /\ UNCHANGED <<now, registry, ended, bundles, served>>
    BY <1>8 DEF RegistryAnswers
  <2>2. fetch \in [Callers -> Fetch \cup {NoFetch}]  BY <1>1 DEF BundleTypeOK
  <2>3. PICK f : f = [fetch[c] EXCEPT !.version = registry]  OBVIOUS
  <2>4. f \in Fetch /\ f.since = fetch[c].since /\ f.version = registry
    BY <1>2, <1>4, <2>1, <2>3 DEF Fetch
  <2>5. fetch' = [fetch EXCEPT ![c] = f]  BY <2>1, <2>3
  <2>6. fetch' \in [Callers -> Fetch \cup {NoFetch}]  BY <2>2, <2>4, <2>5
  <2>7. fetch'[c] = f /\ \A d \in Callers \ {c} : fetch'[d] = fetch[d]  BY <2>2, <2>5
  <2>8. BundleTypeOK'  BY <1>1, <2>1, <2>6 DEF BundleTypeOK
  <2>9. ended[registry] = 0  BY <1>2 DEF BundleInv
  <2>10. ASSUME NEW d \in Callers, fetch'[d] # NoFetch
         PROVE  /\ fetch'[d].since <= now /\ now <= fetch'[d].since + Patience
                /\ fetch'[d].version # 0 =>
                     fetch'[d].version <= registry /\ CurrentSince(fetch'[d].version, fetch'[d].since)
    <3>1. CASE d = c
      <4>1. fetch[c].since <= now /\ now <= fetch[c].since + Patience  BY <2>1 DEF BundleInv
      <4>2. f.version <= registry  BY <1>2, <2>4
      <4>3. CurrentSince(f.version, f.since)  BY <2>4, <2>9 DEF CurrentSince
      <4> QED  BY <2>4, <2>7, <3>1, <4>1, <4>2, <4>3
    <3>2. CASE d # c
      <4>1. fetch'[d] = fetch[d]  BY <2>7, <3>2
      <4> QED  BY <2>10, <4>1 DEF BundleInv
    <3> QED  BY <3>1, <3>2
  <2> QED  BY <2>1, <2>8, <2>10 DEF BundleInv, BundlesAreRecent, CurrentSince
<1>9. ASSUME NEW c \in Callers, fetch' = [fetch EXCEPT ![c] = NoFetch]
      PROVE  /\ fetch' \in [Callers -> Fetch \cup {NoFetch}]
             /\ \A d \in Callers : fetch'[d] # NoFetch => fetch'[d] = fetch[d]
  BY <1>1, <1>9 DEF BundleTypeOK
<1>10. ASSUME NEW c \in Callers, FetchBundles(c) PROVE BundleInv'
  <2>1. /\ fetch[c] # NoFetch /\ fetch[c].version # 0
        /\ bundles' = [version |-> fetch[c].version, updated |-> now]
        /\ fetch' = [fetch EXCEPT ![c] = NoFetch]
        /\ UNCHANGED <<now, registry, ended>>
    BY <1>10 DEF FetchBundles
  <2>2. PICK v \in BundleVersions : v = fetch[c].version  BY <1>4, <2>1
  <2>3. PICK x : x = [version |-> v, at |-> now]  OBVIOUS
  <2>4. served' = [served EXCEPT ![c] = x]  BY <1>10, <2>2, <2>3 DEF FetchBundles
  <2>5. served \in [Callers -> [version : BundleVersions, at : Times]] /\ now \in Times
    BY <1>1 DEF BundleTypeOK
  <2>6. x \in [version : BundleVersions, at : Times] /\ x.version = v /\ x.at = now
    BY <2>3, <2>5
  <2>7. served' \in [Callers -> [version : BundleVersions, at : Times]]  BY <2>4, <2>5, <2>6
  <2>8. served'[c] = x /\ \A d \in Callers \ {c} : served'[d] = served[d]  BY <2>4, <2>5
  <2>9. /\ bundles' \in [version : BundleVersions, updated : Times]
        /\ bundles'.version = v /\ bundles'.updated = now
    BY <2>1, <2>2, <2>5
  <2>10. /\ fetch' \in [Callers -> Fetch \cup {NoFetch}]
         /\ \A d \in Callers : fetch'[d] # NoFetch => fetch'[d] = fetch[d]
    BY <1>9, <2>1
  <2>11. BundleTypeOK'  BY <1>1, <2>1, <2>7, <2>9, <2>10 DEF BundleTypeOK
  <2>12. ended[v] # 0 => now <= ended[v] + Patience
    <3>1. CurrentSince(v, fetch[c].since) /\ now <= fetch[c].since + Patience
      BY <2>1, <2>2 DEF BundleInv
    <3>2. PICK s \in Nat : s = fetch[c].since  BY <1>4, <2>1
    <3>3. PICK e \in Nat : e = ended[v]  BY <1>2
    <3>4. now <= s + Patience /\ (e # 0 => s <= e)  BY <3>1, <3>2, <3>3 DEF CurrentSince
    <3>5. e # 0 => now <= e + Patience  BY <1>2, <3>4
    <3> QED  BY <3>3, <3>5
  <2>13. ended[v] # 0 => now <= ended[v] + TTL + Patience
    <3>1. \A n, e, t, q \in Nat : n <= e + q => n <= e + t + q  OBVIOUS
    <3> QED  BY <1>2, <2>12, <3>1
  <2>14. BundlesAreRecent'
    <3>1. ASSUME NEW d \in Callers, ended[served'[d].version] # 0
          PROVE  served'[d].at <= ended[served'[d].version] + TTL + Patience
      <4>1. CASE d = c  BY <2>6, <2>8, <2>13, <3>1, <4>1
      <4>2. CASE d # c
        <5>1. served'[d] = served[d]  BY <2>8, <4>2
        <5> QED  BY <3>1, <5>1 DEF BundleInv, BundlesAreRecent
      <4> QED  BY <4>1, <4>2
    <3> QED  BY <2>1, <3>1 DEF BundlesAreRecent
  <2>15. \A d \in Callers : served'[d].at <= now'
    <3>1. \A d \in Callers : served[d].at <= now  BY DEF BundleInv
    <3> QED  BY <1>2, <2>1, <2>6, <2>8, <3>1
  <2>16. /\ bundles'.updated <= now'
         /\ ended'[bundles'.version] # 0 => bundles'.updated <= ended'[bundles'.version] + Patience
    BY <1>2, <2>1, <2>9, <2>12
  <2> QED  BY <2>1, <2>10, <2>11, <2>14, <2>15, <2>16 DEF BundleInv, CurrentSince
<1>11. ASSUME NEW c \in Callers, FetchFails(c) PROVE BundleInv'
  <2>1. /\ fetch' = [fetch EXCEPT ![c] = NoFetch]
        /\ UNCHANGED <<now, registry, ended, bundles, served>>
    BY <1>11 DEF FetchFails, AfterFailedFetch
  <2>2. /\ fetch' \in [Callers -> Fetch \cup {NoFetch}]
        /\ \A d \in Callers : fetch'[d] # NoFetch => fetch'[d] = fetch[d]
    BY <1>9, <2>1
  <2>3. BundleTypeOK'  BY <1>1, <2>1, <2>2 DEF BundleTypeOK
  <2> QED  BY <2>1, <2>2, <2>3 DEF BundleInv, BundlesAreRecent, CurrentSince
<1>12. CASE UNCHANGED bundleVars
  BY <1>12 DEF bundleVars, BundleInv, BundleTypeOK, BundlesAreRecent, CurrentSince
<1> QED
  BY <1>5, <1>6, <1>7, <1>8, <1>10, <1>11, <1>12 DEF BundlesNext

(* However fetches overlap, fail and come back late, a job is checked       *)
(* against a bundle that was current no longer ago than the copy lives and  *)
(* a fetch takes.                                                           *)
THEOREM BundlesAreRecentAlways == BundleSpec => []BundlesAreRecent
<1>1. BundleInit => BundleInv  BY BundleInitHolds
<1>2. BundleInv /\ [BundlesNext]_bundleVars => BundleInv'  BY BundleStep
<1>3. BundleInv => BundlesAreRecent  BY DEF BundleInv
<1> QED
  BY <1>1, <1>2, <1>3, PTL DEF BundleSpec

-----------------------------------------------------------------------------
(* Partner settings.                                                        *)

(* What the dialog announced is what the draft has while it is open, and   *)
(* what a save sends.                                                       *)
PartnerInv ==
  /\ PartnerTypeOK
  /\ mode = "confirm" => draftConfig = listed
  /\ UpdateIsPending /\ update.pc \in {"sent", "checked"} => update.enabled = update.listed

LEMMA PartnerUpdateFields ==
  ASSUME NEW u \in PartnerUpdate
  PROVE  /\ u.pc \in {"sent", "checked", "saved", "refused"}
         /\ u.pc \in {"sent", "checked"} =>
              u \in [pc : {"sent", "checked"}, enabled : BOOLEAN, listed : BOOLEAN]
<1>1. CASE u \in [pc : {"sent", "checked"}, enabled : BOOLEAN, listed : BOOLEAN]
  BY <1>1
<1>2. CASE u \in [pc : {"saved", "refused"}]
  BY <1>2
<1> QED
  BY <1>1, <1>2 DEF PartnerUpdate

LEMMA PartnerStep == PartnerInv /\ [PartnerNext]_partnerVars => PartnerInv'
<1> SUFFICES ASSUME PartnerInv, [PartnerNext]_partnerVars PROVE PartnerInv'
  OBVIOUS
<1> USE DEF PartnerInv, PartnerTypeOK, UpdateIsPending
<1>1. CASE ReloadPartner
  BY <1>1 DEF ReloadPartner, DraftAfterReload, Loaded
<1>2. CASE EditPartner
  <2>1. loaded.enabled \in BOOLEAN  BY DEF Loaded
  <2> QED  BY <1>2, <2>1 DEF EditPartner
<1>3. CASE FlipCrossYear
  BY <1>3 DEF FlipCrossYear
<1>4. CASE OpenSave
  BY <1>4, PartnerFormConstantsOK DEF OpenSave, HasChanges
<1>5. CASE CloseSave \/ CancelPartner \/ LeavePartner
  BY <1>5 DEF CloseSave, CancelPartner, LeavePartner, DiscardEdits
<1>6. CASE ConfirmSave
  <2>1. /\ update' = [pc |-> "sent", enabled |-> draftConfig, listed |-> listed]
        /\ draftConfig = listed /\ listed \in BOOLEAN
        /\ UNCHANGED <<enabled, connected, loaded, mode, draftConfig, listed>>
    BY <1>6 DEF ConfirmSave, SettingSent
  <2>2. update' \in PartnerUpdate  BY <2>1 DEF PartnerUpdate
  <2>3. update'.enabled = update'.listed  BY <2>1
  <2> QED  BY <2>1, <2>2, <2>3
<1>7. CASE SaveSucceeds \/ SaveFails
  BY <1>7 DEF SaveSucceeds, SaveFails, DiscardEdits
<1>8. CASE CheckConnection
  <2>1. update \in PartnerUpdate /\ update.pc = "sent"
    BY <1>8, PartnerFormConstantsOK DEF CheckConnection
  <2>2. update \in [pc : {"sent", "checked"}, enabled : BOOLEAN, listed : BOOLEAN]
    BY <2>1, PartnerUpdateFields
  <2>3. update.enabled = update.listed  BY <1>8, <2>1 DEF CheckConnection
  <2>4. \/ update' = [pc |-> "refused"]
        \/ update' = [update EXCEPT !.pc = "checked"]
    BY <1>8 DEF CheckConnection
  <2>5. /\ update' \in PartnerUpdate
        /\ update'.pc \in {"sent", "checked"} => update'.enabled = update'.listed
    <3>1. CASE update' = [pc |-> "refused"]  BY <3>1 DEF PartnerUpdate
    <3>2. CASE update' = [update EXCEPT !.pc = "checked"]
      <4>1. update' \in [pc : {"sent", "checked"}, enabled : BOOLEAN, listed : BOOLEAN]
        BY <2>2, <3>2
      <4>2. update'.enabled = update'.listed  BY <2>2, <2>3, <3>2
      <4> QED  BY <4>1, <4>2 DEF PartnerUpdate
    <3> QED  BY <2>4, <3>1, <3>2
  <2> QED  BY <1>8, <2>5 DEF CheckConnection
<1>9. CASE WritePartner
  <2>1. update \in PartnerUpdate /\ update.pc = "checked"
    BY <1>9, PartnerFormConstantsOK DEF WritePartner
  <2>2. update.enabled \in BOOLEAN  BY <2>1, PartnerUpdateFields
  <2>3. update' \in PartnerUpdate /\ update'.pc = "saved"
    BY <1>9 DEF WritePartner, PartnerUpdate
  <2> QED  BY <1>9, <2>2, <2>3 DEF WritePartner
<1>10. CASE (\E on \in BOOLEAN : OthersSave(on)) \/ CredentialsChange
  BY <1>10 DEF OthersSave, CredentialsChange
<1>11. CASE UNCHANGED partnerVars
  BY <1>11 DEF partnerVars
<1> QED
  BY <1>1, <1>2, <1>3, <1>4, <1>5, <1>6, <1>7, <1>8, <1>9, <1>10, <1>11 DEF PartnerNext

(* The setting becomes what the dialog announced when it was opened,       *)
(* whatever is read again or saved by others meanwhile.                     *)
LEMMA SettingIsAsListedAlways == PartnerSpec => []PartnerTypeOK /\ SettingIsAsListed
<1>1. PartnerInit => PartnerInv
  <2> SUFFICES ASSUME PartnerInit PROVE PartnerInv
    OBVIOUS
  <2>1. loaded = [enabled |-> FALSE, connected |-> FALSE]
    BY DEF PartnerInit
  <2>2. loaded \in Loaded  BY <2>1 DEF Loaded
  <2> QED  BY <2>2 DEF PartnerInit, PartnerInv, PartnerTypeOK, UpdateIsPending
<1>2. PartnerInv /\ [PartnerNext]_partnerVars => PartnerInv'
  BY PartnerStep
<1>3. PartnerInv /\ [PartnerNext]_partnerVars =>
        [UpdateIsPending /\ update.pc = "checked" /\ update' = [pc |-> "saved"] =>
           enabled' = update.listed]_partnerVars
  <2> SUFFICES ASSUME PartnerInv, PartnerNext, UpdateIsPending, update.pc = "checked",
                      update' = [pc |-> "saved"]
               PROVE  enabled' = update.listed
    OBVIOUS
  <2>1. update' # update  OBVIOUS
  <2>2. update' \in PartnerUpdate /\ update'.pc = "saved"  BY DEF PartnerUpdate
  <2>3. update' # NoUpdate  BY <2>2, PartnerFormConstantsOK
  <2>4. ~(SaveSucceeds \/ SaveFails)  BY <2>3 DEF SaveSucceeds, SaveFails
  <2>5. ~ConfirmSave /\ ~CheckConnection
    BY DEF ConfirmSave, CheckConnection
  <2>6. ~UNCHANGED update  BY <2>1
  <2>7. WritePartner
    BY <2>4, <2>5, <2>6 DEF PartnerNext, ReloadPartner, EditPartner, FlipCrossYear, OpenSave,
       CloseSave, CancelPartner, LeavePartner, OthersSave, CredentialsChange
  <2> QED  BY <2>7 DEF WritePartner, PartnerInv
<1>4. PartnerInv => PartnerTypeOK
  BY DEF PartnerInv
<1> QED
  BY <1>1, <1>2, <1>3, <1>4, PTL DEF PartnerSpec, SettingIsAsListed

-----------------------------------------------------------------------------
(* School year configuration.  The time of the last change names the rows: *)
(* transactions that overlap may commit in the other order, so that the    *)
(* time can go back, but it never comes back to one that was read before.   *)

SaveIn(e, pcs) == save[e] # NoSave /\ save[e].pc \in pcs
Unwritten == {"sent", "checked", "writing"}

\* The time at which e's transaction began is nobody else's.
OwnTime(e) ==
  /\ save[e].at <= clock /\ save[e].at # stamp
  /\ \A d \in Editors :
       /\ cache[d].stamp # save[e].at
       /\ SaveIn(d, Unwritten) => save[d].since # save[e].at
       /\ SaveIn(d, {"writing"}) /\ d # e => save[d].at # save[e].at

YearsInv ==
  /\ YearsTypeOK
  /\ stamp <= clock
  /\ \A e \in Editors : cache[e].stamp <= clock /\ (cache[e].stamp = stamp => cache[e].row = row)
  /\ \A e \in Editors : SaveIn(e, Unwritten) =>
       /\ save[e].since <= clock
       /\ save[e].since = stamp => Differences(row, save[e].rows) \subseteq save[e].listed
  /\ \A e \in Editors : SaveIn(e, {"writing"}) => OwnTime(e)

SentSave == [pc : Unwritten, rows : Rows, since : Stamps, listed : SUBSET Switches, at : Stamps]

LEMMA SaveFields ==
  ASSUME NEW s \in Save
  PROVE  /\ s.pc \in Unwritten => s \in SentSave
         /\ s.pc \in Unwritten \/ s.pc \in {"saved", "refused"}
<1>1. CASE s \in SentSave
  BY <1>1 DEF SentSave, Unwritten
<1>2. CASE s \in [pc : {"saved", "refused"}]
  BY <1>2 DEF Unwritten
<1> QED
  BY <1>1, <1>2 DEF Save, SentSave, Unwritten

LEMMA StampsAreNumbers == \A n \in Stamps : n \in Nat /\ n <= MaxSaves
BY SchoolYearConstantsOK DEF Stamps

(* A step that only drops or finishes the save of an editor, or goes on    *)
(* with one that has not begun to write, and only touches forms.            *)
LEMMA QuietSaveStep ==
  ASSUME YearsInv, NEW e \in Editors, UNCHANGED <<row, stamp, clock, cache>>,
         YearsTypeOK',
         \A d \in Editors \ {e} : save'[d] = save[d],
         \/ save' = save
         \/ ~SaveIn(e, Unwritten)'
         \/ /\ save'[e].pc \in {"sent", "checked"}
            /\ \/ save'[e].since = cache[e].stamp
               \/ SaveIn(e, Unwritten) /\ save'[e].since = save[e].since
            /\ save'[e].since = stamp =>
                 Differences(row, save'[e].rows) \subseteq save'[e].listed
  PROVE  YearsInv'
<1>1. ASSUME NEW d \in Editors, SaveIn(d, {"writing"})'
      PROVE  save'[d] = save[d] /\ SaveIn(d, {"writing"})
  <2>1. CASE d # e  BY <1>1, <2>1 DEF SaveIn
  <2>2. CASE d = e
    <3>1. SaveIn(e, Unwritten)' /\ save'[e].pc \notin {"sent", "checked"}
      BY <1>1, <2>2 DEF SaveIn, Unwritten
    <3>2. save' = save  BY <3>1
    <3> QED  BY <1>1, <3>2 DEF SaveIn
  <2> QED  BY <2>1, <2>2
<1>2. ASSUME NEW d \in Editors, SaveIn(d, Unwritten)'
      PROVE  /\ \/ SaveIn(d, Unwritten) /\ save'[d].since = save[d].since
                \/ save'[d].since = cache[d].stamp
             /\ save'[d].since = stamp =>
                  Differences(row, save'[d].rows) \subseteq save'[d].listed
  <2>1. CASE save'[d] = save[d]
    <3>1. SaveIn(d, Unwritten)  BY <1>2, <2>1 DEF SaveIn
    <3> QED  BY <2>1, <3>1 DEF YearsInv
  <2>2. CASE save'[d] # save[d]
    <3>1. d = e /\ save' # save  BY <2>2
    <3> QED  BY <1>2, <3>1
  <2> QED  BY <2>1, <2>2
<1>3. ASSUME NEW d \in Editors, SaveIn(d, Unwritten)'
      PROVE  save'[d].since <= clock
  BY <1>2, <1>3 DEF YearsInv
<1>4. ASSUME NEW d \in Editors, SaveIn(d, {"writing"})' PROVE OwnTime(d)'
  <2>1. OwnTime(d) /\ save'[d] = save[d]  BY <1>1, <1>4 DEF YearsInv
  <2>2. ASSUME NEW q \in Editors, SaveIn(q, Unwritten)'
        PROVE  save'[q].since # save[d].at
    BY <1>2, <2>1, <2>2 DEF OwnTime
  <2>3. ASSUME NEW q \in Editors, SaveIn(q, {"writing"})', q # d
        PROVE  save'[q].at # save[d].at
    <3>1. SaveIn(q, {"writing"}) /\ save'[q] = save[q]  BY <1>1, <2>3
    <3> QED  BY <2>1, <2>3, <3>1 DEF OwnTime
  <2> QED  BY <2>1, <2>2, <2>3 DEF OwnTime
<1>5. stamp' <= clock'  BY DEF YearsInv
<1>6. \A d \in Editors : cache'[d].stamp <= clock' /\ (cache'[d].stamp = stamp' => cache'[d].row = row')
  BY DEF YearsInv
<1>7. \A d \in Editors : SaveIn(d, Unwritten)' =>
        /\ save'[d].since <= clock'
        /\ save'[d].since = stamp' => Differences(row', save'[d].rows) \subseteq save'[d].listed
  BY <1>2, <1>3
<1> QED
  BY <1>4, <1>5, <1>6, <1>7 DEF YearsInv

LEMMA YearsStep == YearsInv /\ [YearsNext]_yearVars => YearsInv'
<1> SUFFICES ASSUME YearsInv, [YearsNext]_yearVars PROVE YearsInv'
  OBVIOUS
<1>1. YearsTypeOK  BY DEF YearsInv
<1>2. stamp \in Nat /\ clock \in Nat /\ stamp <= clock
  BY <1>1, StampsAreNumbers DEF YearsTypeOK, YearsInv
<1>3. \A e \in Editors : cache[e] \in Fetched /\ cache[e].stamp \in Stamps /\ cache[e].row \in Rows
  BY <1>1 DEF YearsTypeOK, Fetched
<1>4. ASSUME NEW e \in Editors, SaveIn(e, Unwritten)
      PROVE  save[e] \in SentSave
  BY <1>1, <1>4, SaveFields DEF YearsTypeOK, SaveIn
<1>5. ASSUME NEW e \in Editors, NEW s \in Save \cup {NoSave},
             save' = [save EXCEPT ![e] = s],
             UNCHANGED <<row, stamp, clock, cache>>,
             page' \in [Editors -> {"view", "edit", "confirm"}],
             edit' \in [Editors -> Rows],
             \/ s = NoSave
             \/ s.pc \notin Unwritten
             \/ /\ s.pc \in {"sent", "checked"}
                /\ \/ s.since = cache[e].stamp
                   \/ SaveIn(e, Unwritten) /\ s.since = save[e].since
                /\ s.since = stamp => Differences(row, s.rows) \subseteq s.listed
      PROVE  YearsInv'
  <2>1. YearsTypeOK'  BY <1>1, <1>5 DEF YearsTypeOK
  <2>2. save'[e] = s /\ \A d \in Editors \ {e} : save'[d] = save[d]
    BY <1>1, <1>5 DEF YearsTypeOK
  <2>3. s = NoSave \/ s.pc \notin Unwritten => ~SaveIn(e, Unwritten)'
    BY <2>2 DEF SaveIn
  <2> QED  BY <1>5, <2>1, <2>2, <2>3, QuietSaveStep
<1>6. ASSUME NEW e \in Editors, UNCHANGED <<row, stamp, clock, cache, save>>,
             page' \in [Editors -> {"view", "edit", "confirm"}],
             edit' \in [Editors -> Rows]
      PROVE  YearsInv'
  <2>1. YearsTypeOK'  BY <1>1, <1>6 DEF YearsTypeOK
  <2> QED  BY <1>6, <2>1, QuietSaveStep
<1>7. ASSUME NEW e \in Editors, Refetch(e) PROVE YearsInv'
  <2>1. PICK f : f = [row |-> row, stamp |-> stamp]  OBVIOUS
  <2>2. /\ cache' = [cache EXCEPT ![e] = f]
        /\ UNCHANGED <<row, stamp, clock, page, edit, save>>
    BY <1>7, <2>1 DEF Refetch
  <2>3. f \in Fetched /\ f.row = row /\ f.stamp = stamp  BY <1>1, <2>1 DEF Fetched, YearsTypeOK
  <2>4. YearsTypeOK'  BY <1>1, <2>2, <2>3 DEF YearsTypeOK
  <2>5. cache'[e] = f /\ \A d \in Editors \ {e} : cache'[d] = cache[d]
    BY <1>1, <2>2 DEF YearsTypeOK
  <2>6. ASSUME NEW d \in Editors
        PROVE  cache'[d].stamp <= clock /\ (cache'[d].stamp = stamp => cache'[d].row = row)
    BY <1>2, <2>3, <2>5 DEF YearsInv
  <2>7. ASSUME NEW d \in Editors, SaveIn(d, {"writing"}) PROVE OwnTime(d)'
    <3>1. OwnTime(d)  BY <2>7 DEF YearsInv
    <3>2. \A q \in Editors : cache'[q].stamp # save[d].at
      BY <2>3, <2>5, <3>1 DEF OwnTime
    <3> QED  BY <2>2, <3>1, <3>2 DEF OwnTime, SaveIn
  <2> QED  BY <2>2, <2>4, <2>6, <2>7 DEF YearsInv, SaveIn, Differences
<1>8. ASSUME NEW e \in Editors, StartEdit(e) PROVE YearsInv'
  <2>1. /\ page' \in [Editors -> {"view", "edit", "confirm"}] /\ edit' \in [Editors -> Rows]
        /\ UNCHANGED <<row, stamp, clock, cache, save>>
    BY <1>1, <1>3, <1>8 DEF StartEdit, YearsTypeOK
  <2> QED  BY <1>6, <2>1
<1>9. ASSUME NEW e \in Editors, NEW s \in Switches, UpdateRow(e, s) PROVE YearsInv'
  <2>1. PICK r : r = [edit[e] EXCEPT ![s] = ~@]  OBVIOUS
  <2>2. edit[e] \in Rows  BY <1>1 DEF YearsTypeOK
  <2>3. r \in Rows  BY <2>1, <2>2 DEF Rows
  <2>4. edit' = [edit EXCEPT ![e] = r]  BY <1>9, <2>1 DEF UpdateRow
  <2>5. /\ page' \in [Editors -> {"view", "edit", "confirm"}] /\ edit' \in [Editors -> Rows]
        /\ UNCHANGED <<row, stamp, clock, cache, save>>
    BY <1>1, <1>9, <2>3, <2>4 DEF UpdateRow, YearsTypeOK
  <2> QED  BY <1>6, <2>5
<1>10. Default \in Rows  BY DEF Default, Rows
<1>11. ASSUME NEW e \in Editors,
              HandleSave(e) \/ CloseConfirm(e) \/ Cancel(e) \/ Leave(e)
       PROVE  YearsInv'
  <2>1. page' \in [Editors -> {"view", "edit", "confirm"}] /\ edit' \in [Editors -> Rows]
    BY <1>1, <1>10, <1>11 DEF HandleSave, CloseConfirm, Cancel, Leave, CloseForm, YearsTypeOK
  <2>2. UNCHANGED <<row, stamp, clock, cache, save>>
    BY <1>11 DEF HandleSave, CloseConfirm, Cancel, Leave
  <2> QED  BY <1>6, <2>1, <2>2
<1>12. ASSUME NEW e \in Editors, HandleSaveConfirm(e) PROVE YearsInv'
  <2>1. PICK s : s = [pc |-> "sent", rows |-> edit[e], since |-> cache[e].stamp,
                      listed |-> Changes(e), at |-> 0]
    OBVIOUS
  <2>2. save' = [save EXCEPT ![e] = s] /\ UNCHANGED <<row, stamp, clock, page, cache, edit>>
    BY <1>12, <2>1 DEF HandleSaveConfirm
  <2>3. Changes(e) \in SUBSET Switches  BY DEF Changes, Differences
  <2>4. 0 \in Stamps  BY SchoolYearConstantsOK DEF Stamps
  <2>5. edit[e] \in Rows  BY <1>1 DEF YearsTypeOK
  <2>6. s \in SentSave  BY <1>3, <2>1, <2>3, <2>4, <2>5 DEF SentSave, Unwritten
  <2>7. s \in Save  BY <2>6 DEF SentSave, Save, Unwritten
  <2>8. /\ s.pc = "sent" /\ s.since = cache[e].stamp /\ s.rows = edit[e]
        /\ s.listed = Differences(cache[e].row, edit[e])
    BY <2>1 DEF Changes
  <2>9. s.since = stamp => cache[e].row = row  BY <2>8 DEF YearsInv
  <2>10. s.since = stamp => Differences(row, s.rows) \subseteq s.listed  BY <2>8, <2>9
  <2>11. page' \in [Editors -> {"view", "edit", "confirm"}] /\ edit' \in [Editors -> Rows]
    BY <1>1, <2>2 DEF YearsTypeOK
  <2>12. s.pc \in {"sent", "checked"}  BY <2>8
  <2>13. s \in Save \cup {NoSave}  BY <2>7
  <2>14. s.since = cache[e].stamp  BY <2>8
  <2> QED  BY ONLY <1>5, <2>2, <2>10, <2>11, <2>12, <2>13, <2>14, <1>12
<1>13. ASSUME NEW e \in Editors, OnSuccess(e) \/ OnError(e) PROVE YearsInv'
  <2>1. /\ save' = [save EXCEPT ![e] = NoSave] /\ UNCHANGED <<row, stamp, clock, cache>>
        /\ page' \in [Editors -> {"view", "edit", "confirm"}] /\ edit' \in [Editors -> Rows]
    <3>1. CASE OnSuccess(e)
      BY <1>1, <1>10, <3>1 DEF OnSuccess, CloseForm, YearsTypeOK
    <3>2. CASE OnError(e)
      BY <1>1, <3>2 DEF OnError, YearsTypeOK
    <3> QED  BY <1>13, <3>1, <3>2
  <2> QED  BY <1>5, <2>1
<1>14. ASSUME NEW e \in Editors, CheckModified(e) PROVE YearsInv'
  <2>1. SaveIn(e, Unwritten) /\ save[e].pc = "sent"
    BY <1>14 DEF CheckModified, At, SaveIn, Unwritten
  <2>2. save[e] \in SentSave  BY <1>4, <2>1
  <2>3. page' \in [Editors -> {"view", "edit", "confirm"}] /\ edit' \in [Editors -> Rows]
    BY <1>1, <1>14 DEF CheckModified, YearsTypeOK
  <2>4. CASE UpToDate(e)
    <3>1. PICK t : t = [save[e] EXCEPT !.pc = "checked"]  OBVIOUS
    <3>2. PICK s : s = [t EXCEPT !.since = stamp]  OBVIOUS
    <3>3. save' = [save EXCEPT ![e] = s] /\ UNCHANGED <<row, stamp, clock, cache>>
      BY <1>14, <2>4, <3>1, <3>2 DEF CheckModified
    <3>4. t \in SentSave /\ t.pc = "checked" /\ t.rows = save[e].rows /\ t.listed = save[e].listed
      BY <2>2, <3>1 DEF SentSave, Unwritten
    <3>5. s \in SentSave /\ s.pc = "checked" /\ s.rows = save[e].rows /\ s.listed = save[e].listed
          /\ s.since = stamp
      BY <1>1, <3>2, <3>4 DEF SentSave, YearsTypeOK
    <3>6. save[e].since = stamp  BY <2>4 DEF UpToDate
    <3>7. Differences(row, s.rows) \subseteq s.listed  BY <2>1, <3>5, <3>6 DEF YearsInv
    <3>8. s \in Save  BY <3>5 DEF SentSave, Save, Unwritten
    <3> QED  BY <1>5, <2>1, <2>3, <3>3, <3>5, <3>6, <3>7, <3>8
  <2>5. CASE ~UpToDate(e)
    <3>1. PICK s : s = [pc |-> "refused"]  OBVIOUS
    <3>2. save' = [save EXCEPT ![e] = s] /\ UNCHANGED <<row, stamp, clock, cache>>
      BY <1>14, <2>5, <3>1 DEF CheckModified
    <3>3. s \in Save /\ s.pc \notin Unwritten  BY <3>1 DEF Save, Unwritten
    <3> QED  BY <1>5, <2>3, <3>2, <3>3
  <2> QED  BY <2>4, <2>5
<1>15. ASSUME NEW e \in Editors, BeginUpserts(e) PROVE YearsInv'
  <2>1. SaveIn(e, Unwritten) /\ save[e].pc = "checked"
    BY <1>15 DEF BeginUpserts, At, SaveIn, Unwritten
  <2>2. save[e] \in SentSave  BY <1>4, <2>1
  <2>3. PICK t : t = [save[e] EXCEPT !.pc = "writing"]  OBVIOUS
  <2>4. PICK s : s = [t EXCEPT !.at = clock']  OBVIOUS
  <2>5. /\ clock < MaxSaves /\ clock' = clock + 1
        /\ save' = [save EXCEPT ![e] = s] /\ UNCHANGED <<row, stamp, page, cache, edit>>
    <3>1. save' = [save EXCEPT ![e].pc = "writing", ![e].at = clock']
      BY <1>15 DEF BeginUpserts
    <3>2. save \in [Editors -> Save \cup {NoSave}]  BY <1>1 DEF YearsTypeOK
    <3>3. save' = [save EXCEPT ![e] = s]  BY <2>3, <2>4, <3>1, <3>2
    <3> QED  BY <1>15, <3>3 DEF BeginUpserts
  <2>6. clock' \in Stamps /\ clock' \in Nat /\ clock < clock'
    BY <1>2, <2>5, SchoolYearConstantsOK DEF Stamps
  <2>7. t \in SentSave /\ t.pc = "writing" /\ t.rows = save[e].rows /\ t.listed = save[e].listed
        /\ t.since = save[e].since
    BY <2>2, <2>3 DEF SentSave, Unwritten
  <2>8. s \in SentSave /\ s.pc = "writing" /\ s.rows = save[e].rows /\ s.listed = save[e].listed
        /\ s.since = save[e].since /\ s.at = clock'
    BY <2>4, <2>6, <2>7 DEF SentSave
  <2>9. s \in Save  BY <2>8 DEF SentSave, Save, Unwritten
  <2>10. YearsTypeOK'  BY <1>1, <2>5, <2>6, <2>9 DEF YearsTypeOK
  <2>11. save'[e] = s /\ \A d \in Editors \ {e} : save'[d] = save[d]
    BY <1>1, <2>5 DEF YearsTypeOK
  <2>12. \A n \in Nat : n <= clock => n <= clock' /\ n # clock'
    BY <1>2, <2>5
  <2>13. stamp <= clock' /\ stamp # clock'  BY <1>2, <2>12
  <2>14. ASSUME NEW d \in Editors
         PROVE  /\ cache[d].stamp <= clock' /\ cache[d].stamp # clock'
                /\ cache[d].stamp = stamp => cache[d].row = row
    <3>1. cache[d].stamp \in Nat /\ cache[d].stamp <= clock
      BY <1>3, StampsAreNumbers DEF YearsInv
    <3> QED  BY <2>12, <3>1 DEF YearsInv
  <2>15. ASSUME NEW d \in Editors, SaveIn(d, Unwritten)'
         PROVE  /\ save'[d].since <= clock' /\ save'[d].since # clock'
                /\ SaveIn(d, Unwritten) /\ save'[d].since = save[d].since
                /\ save'[d].since = stamp =>
                     Differences(row, save'[d].rows) \subseteq save'[d].listed
    <3>1. /\ SaveIn(d, Unwritten) /\ save'[d].since = save[d].since
          /\ save'[d].rows = save[d].rows /\ save'[d].listed = save[d].listed
      BY <2>1, <2>8, <2>11, <2>15 DEF SaveIn
    <3>2. save[d].since \in Stamps  BY <1>4, <3>1 DEF SentSave
    <3>3. save[d].since \in Nat /\ save[d].since <= clock
      BY <3>1, <3>2, StampsAreNumbers DEF YearsInv
    <3> QED  BY <2>12, <3>1, <3>3 DEF YearsInv
  <2>16. ASSUME NEW d \in Editors, SaveIn(d, {"writing"}), d # e
         PROVE  save'[d] = save[d] /\ save[d].at <= clock' /\ save[d].at # clock'
    <3>1. SaveIn(d, Unwritten)  BY <2>16 DEF SaveIn, Unwritten
    <3>2. save[d].at \in Nat  BY <1>4, <3>1, StampsAreNumbers DEF SentSave
    <3>3. save[d].at <= clock  BY <2>16 DEF YearsInv, OwnTime
    <3> QED  BY <2>11, <2>12, <2>16, <3>2, <3>3
  <2>17. ASSUME NEW d \in Editors, SaveIn(d, {"writing"})' PROVE OwnTime(d)'
    <3>1. CASE d = e
      <4>1. save'[d].at = clock' /\ clock' <= clock'  BY <2>6, <2>8, <2>11, <3>1
      <4>2. ASSUME NEW q \in Editors, SaveIn(q, {"writing"})', q # d
            PROVE  save'[q].at # clock'
        <5>1. SaveIn(q, {"writing"})  BY <2>11, <3>1, <4>2 DEF SaveIn
        <5> QED  BY <2>16, <3>1, <4>2, <5>1
      <4> QED  BY <2>5, <2>13, <2>14, <2>15, <4>1, <4>2 DEF OwnTime
    <3>2. CASE d # e
      <4>1. SaveIn(d, {"writing"}) /\ save'[d] = save[d]  BY <2>11, <2>17, <3>2 DEF SaveIn
      <4>2. OwnTime(d)  BY <4>1 DEF YearsInv
      <4>3. ASSUME NEW q \in Editors, SaveIn(q, {"writing"})', q # d
            PROVE  save'[q].at # save[d].at
        <5>1. CASE q = e  BY <2>8, <2>11, <2>16, <3>2, <4>1, <5>1
        <5>2. CASE q # e
          <6>1. SaveIn(q, {"writing"}) /\ save'[q] = save[q]  BY <2>11, <4>3, <5>2 DEF SaveIn
          <6> QED  BY <4>2, <4>3, <6>1 DEF OwnTime
        <5> QED  BY <5>1, <5>2
      <4>4. ASSUME NEW q \in Editors, SaveIn(q, Unwritten)'
            PROVE  save'[q].since # save[d].at
        BY <2>15, <4>2, <4>4 DEF OwnTime
      <4>5. save[d].at <= clock'  BY <2>16, <3>2, <4>1
      <4> QED  BY <2>5, <4>1, <4>2, <4>3, <4>4, <4>5 DEF OwnTime
    <3> QED  BY <3>1, <3>2
  <2> QED  BY <2>5, <2>10, <2>13, <2>14, <2>15, <2>17 DEF YearsInv
<1>16. ASSUME NEW e \in Editors, CommitUpserts(e) PROVE YearsInv'
  <2>1. SaveIn(e, Unwritten) /\ SaveIn(e, {"writing"})
    BY <1>16 DEF CommitUpserts, At, SaveIn, Unwritten
  <2>2. save[e] \in SentSave /\ OwnTime(e)  BY <1>4, <2>1 DEF YearsInv
  <2>3. PICK s : s = [pc |-> "saved"]  OBVIOUS
  <2>4. /\ save' = [save EXCEPT ![e] = s] /\ row' = save[e].rows /\ stamp' = save[e].at
        /\ UNCHANGED <<clock, page, cache, edit>>
    BY <1>16, <2>3 DEF CommitUpserts
  <2>5. s \in Save /\ s.pc \notin Unwritten  BY <2>3 DEF Save, Unwritten
  <2>6. row' \in Rows /\ stamp' \in Stamps  BY <2>2, <2>4 DEF SentSave
  <2>7. YearsTypeOK'  BY <1>1, <2>4, <2>5, <2>6 DEF YearsTypeOK
  <2>8. save'[e] = s /\ \A d \in Editors \ {e} : save'[d] = save[d]
    BY <1>1, <2>4 DEF YearsTypeOK
  <2>9. stamp' <= clock /\ \A d \in Editors : cache[d].stamp # stamp'
    BY <2>2, <2>4 DEF OwnTime
  <2>10. ASSUME NEW d \in Editors, SaveIn(d, Unwritten)'
         PROVE  /\ d # e /\ SaveIn(d, Unwritten) /\ save'[d] = save[d]
                /\ save[d].since # stamp'
    <3>1. d # e  BY <2>5, <2>8, <2>10 DEF SaveIn
    <3>2. SaveIn(d, Unwritten) /\ save'[d] = save[d]  BY <2>8, <2>10, <3>1 DEF SaveIn
    <3> QED  BY <2>2, <2>4, <3>1, <3>2 DEF OwnTime
  <2>11. ASSUME NEW d \in Editors, SaveIn(d, {"writing"})'
         PROVE  d # e /\ SaveIn(d, {"writing"}) /\ save'[d] = save[d]
    <3>1. SaveIn(d, Unwritten)'  BY <2>11 DEF SaveIn, Unwritten
    <3> QED  BY <2>10, <2>11, <3>1 DEF SaveIn
  <2>12. ASSUME NEW d \in Editors, SaveIn(d, {"writing"})' PROVE OwnTime(d)'
    <3>1. d # e /\ SaveIn(d, {"writing"}) /\ save'[d] = save[d]  BY <2>11, <2>12
    <3>2. OwnTime(d)  BY <3>1 DEF YearsInv
    <3>3. save[d].at # stamp'  BY <2>2, <2>4, <3>1 DEF OwnTime
    <3>4. ASSUME NEW q \in Editors, SaveIn(q, {"writing"})', q # d
          PROVE  save'[q].at # save[d].at
      <4>1. SaveIn(q, {"writing"}) /\ save'[q] = save[q]  BY <2>11, <3>4
      <4> QED  BY <3>2, <3>4, <4>1 DEF OwnTime
    <3>5. ASSUME NEW q \in Editors, SaveIn(q, Unwritten)'
          PROVE  save'[q].since # save[d].at
      BY <2>10, <3>2, <3>5 DEF OwnTime
    <3> QED  BY <2>4, <3>1, <3>2, <3>3, <3>4, <3>5 DEF OwnTime
  <2>13. ASSUME NEW d \in Editors, SaveIn(d, Unwritten)'
         PROVE  save'[d].since <= clock /\ save'[d].since # stamp'
    BY <2>10, <2>13 DEF YearsInv
  <2>14. \A d \in Editors : cache[d].stamp <= clock  BY DEF YearsInv
  <2> QED  BY <2>4, <2>7, <2>9, <2>12, <2>13, <2>14 DEF YearsInv
<1>17. CASE UNCHANGED yearVars
  BY <1>17 DEF yearVars, YearsInv, YearsTypeOK, SaveIn, OwnTime
<1> QED
  BY <1>7, <1>8, <1>9, <1>11, <1>12, <1>13, <1>14, <1>15, <1>16, <1>17
  DEF YearsNext, Page, UpdateConfig

(* A save changes only what its dialog has listed, unless another save was *)
(* committed between its check and its transaction.                         *)
LEMMA OnlyConfirmedChangesAlways == YearsSpec => []YearsTypeOK /\ OnlyConfirmedChanges
<1>1. YearsInit => YearsInv
  <2> SUFFICES ASSUME YearsInit PROVE YearsInv
    OBVIOUS
  <2>1. PICK f : f = [row |-> row, stamp |-> stamp]  OBVIOUS
  <2>2. Default \in Rows  BY DEF Default, Rows
  <2>3. 0 \in Stamps  BY SchoolYearConstantsOK DEF Stamps
  <2>4. f \in Fetched /\ f.row = row /\ f.stamp = stamp
    BY <2>1, <2>2, <2>3 DEF Fetched, YearsInit
  <2>5. cache = [e \in Editors |-> f]  BY <2>1 DEF YearsInit
  <2>6. YearsTypeOK  BY <2>2, <2>3, <2>4, <2>5 DEF YearsInit, YearsTypeOK
  <2>7. stamp <= clock  BY DEF YearsInit
  <2>8. \A e \in Editors : ~SaveIn(e, Unwritten) /\ ~SaveIn(e, {"writing"})
    BY DEF SaveIn, YearsInit
  <2> QED  BY <2>4, <2>5, <2>6, <2>7, <2>8 DEF YearsInv, YearsInit
<1>2. YearsInv /\ [YearsNext]_yearVars => YearsInv'
  BY YearsStep
<1>3. YearsInv /\ [YearsNext]_yearVars =>
        [\A e \in Editors : Commits(e) /\ stamp = save[e].since =>
           Differences(row, row') \subseteq save[e].listed]_yearVars
  <2> SUFFICES ASSUME YearsInv, YearsNext, NEW e \in Editors, Commits(e),
                      stamp = save[e].since
               PROVE  Differences(row, row') \subseteq save[e].listed
    OBVIOUS
  <2>1. SaveIn(e, Unwritten) /\ SaveIn(e, {"writing"})
    BY DEF Commits, At, SaveIn, Unwritten
  <2>2. Differences(row, save[e].rows) \subseteq save[e].listed  BY <2>1 DEF YearsInv
  <2>3. CASE row' = row
    <3>1. Differences(row, row') = {}  BY <2>3 DEF Differences
    <3> QED  BY <3>1
  <2>4. CASE row' # row
    <3>1. PICK d \in Editors : CommitUpserts(d)
      BY <2>4 DEF YearsNext, Page, UpdateConfig, Refetch, StartEdit, UpdateRow, HandleSave,
         CloseConfirm, Cancel, Leave, HandleSaveConfirm, OnSuccess, OnError, CheckModified,
         BeginUpserts
    <3>2. d = e  BY <3>1 DEF CommitUpserts, Commits, YearsInv, YearsTypeOK
    <3> QED  BY <2>2, <3>1, <3>2 DEF CommitUpserts
  <2> QED  BY <2>3, <2>4
<1>4. YearsInv => YearsTypeOK
  BY DEF YearsInv
<1> QED
  BY <1>1, <1>2, <1>3, <1>4, PTL DEF YearsSpec, OnlyConfirmedChanges

-----------------------------------------------------------------------------
(* Notes.  A connection has a person in its transaction only while the one *)
(* request that has it is to write, as that person; its session has none.  *)

CallHolds(r) ==
  call[r] # NoCall =>
    /\ call[r].on # Waiting => appUser[call[r].on].local = call[r].as
    /\ call[r].op \in {"put", "delete"} => call[r].note \in NoteIds
    /\ call[r].op # "job" => call[r].as # Nobody

OneCallEach ==
  \A r \in NoteCalls : \A q \in NoteCalls :
    call[r] # NoCall /\ call[q] # NoCall /\ r # q /\ call[r].on = call[q].on => call[r].on = Waiting

NobodyLeft ==
  \A k \in PgConnections :
    /\ appUser[k].session = Nobody
    /\ IsFree(k) => appUser[k].local = Nobody

CallsInv ==
  /\ appUser \in [PgConnections -> Setting]
  /\ call \in [NoteCalls -> Call \cup {NoCall}]
  /\ \A r \in NoteCalls : CallHolds(r)
  /\ OneCallEach
  /\ NobodyLeft

TablesTypeOK ==
  /\ jobNote \in [NoteIds -> Note \cup {NoNote, Deleted}]
  /\ jobEditor \in Writers

NotesPageTypeOK ==
  /\ shownNotes \in [NoteIds -> NoteTexts \cup {NoNote}]
  /\ editor \in EditForm \cup {NoForm}
  /\ question \in Question \cup {NoQuestion}

NotesInv == CallsInv /\ TablesTypeOK /\ NotesPageTypeOK

LEMMA CallFields ==
  ASSUME NEW c \in Call
  PROVE  /\ c.on \in PgConnections \cup {Waiting}
         /\ c.as \in Writers /\ c.op \in {"post", "put", "delete", "job"}
         /\ c.note \in NoteIds \cup {New} /\ c.noteText \in NoteTexts \cup {NoText}
         /\ c # NoCall
BY JobNotesConstantsOK DEF Call

LEMMA CallsAre ==
  ASSUME CallsInv, NEW r \in NoteCalls, call[r] # NoCall
  PROVE  /\ call[r] \in Call
         /\ call[r].on # Waiting => call[r].on \in PgConnections
<1>1. call[r] \in Call  BY DEF CallsInv
<1> QED  BY <1>1, CallFields

(* A call that is sent, begins on a connection or is over.                  *)
LEMMA CallsChange ==
  ASSUME CallsInv, NEW r \in NoteCalls, NEW c \in Call \cup {NoCall},
         call' = [call EXCEPT ![r] = c],
         appUser' \in [PgConnections -> Setting],
         \A k \in PgConnections : appUser'[k].session = Nobody,
         \* the others' connections, and those that nobody has, are as they were
         \A k \in PgConnections :
           \/ appUser'[k] = appUser[k]
           \/ call[r] # NoCall /\ call[r].on = k
           \/ c # NoCall /\ c.on = k,
         c # NoCall =>
           /\ c.on # Waiting => appUser'[c.on].local = c.as
           /\ c.op \in {"put", "delete"} => c.note \in NoteIds
           /\ c.op # "job" => c.as # Nobody,
         \* it takes a free connection, or waits for one
         c # NoCall => c.on = Waiting \/ IsFree(c.on),
         c # NoCall /\ call[r] # NoCall => call[r].on = Waiting,
         \* and gives it back as it was
         c = NoCall /\ call[r] # NoCall /\ call[r].on # Waiting => appUser'[call[r].on].local = Nobody
  PROVE  CallsInv'
<1>1. call' \in [NoteCalls -> Call \cup {NoCall}]  BY DEF CallsInv
<1>2. call'[r] = c /\ \A q \in NoteCalls : q # r => call'[q] = call[q]  BY DEF CallsInv
<1>3. \A q \in NoteCalls : call[q] # NoCall => call[q] \in Call  BY CallsAre
<1>4. ASSUME NEW q \in NoteCalls, q # r, call[q] # NoCall, call[q].on # Waiting
      PROVE  call[q].on \in PgConnections /\ appUser'[call[q].on] = appUser[call[q].on]
  <2>1. call[q].on \in PgConnections  BY <1>3, <1>4, CallFields
  <2>2. ~(call[r] # NoCall /\ call[r].on = call[q].on)  BY <1>4 DEF CallsInv, OneCallEach
  <2>3. ~(c # NoCall /\ c.on = call[q].on)  BY <1>4 DEF IsFree
  <2> QED  BY <2>1, <2>2, <2>3
<1>5. \A q \in NoteCalls : CallHolds(q)'
  <2> SUFFICES ASSUME NEW q \in NoteCalls PROVE CallHolds(q)'
    OBVIOUS
  <2>1. CASE q = r  BY <1>2, <2>1 DEF CallHolds
  <2>2. CASE q # r
    <3>1. CallHolds(q)  BY DEF CallsInv
    <3>2. CASE call[q] = NoCall  BY <1>2, <2>2, <3>2 DEF CallHolds
    <3>3. CASE call[q] # NoCall /\ call[q].on = Waiting
      BY <1>2, <2>2, <3>1, <3>3 DEF CallHolds
    <3>4. CASE call[q] # NoCall /\ call[q].on # Waiting
      <4>1. appUser'[call[q].on] = appUser[call[q].on]  BY <1>4, <2>2, <3>4
      <4> QED  BY <1>2, <2>2, <3>1, <3>4, <4>1 DEF CallHolds
    <3> QED  BY <3>2, <3>3, <3>4
  <2> QED  BY <2>1, <2>2
<1>6. ASSUME NEW q \in NoteCalls, q # r, c # NoCall, call[q] # NoCall, call[q].on = c.on
      PROVE  c.on = Waiting
  BY <1>6 DEF IsFree
<1>7. OneCallEach'
  <2> SUFFICES ASSUME NEW p \in NoteCalls, NEW q \in NoteCalls, call'[p] # NoCall, call'[q] # NoCall,
                      p # q, call'[p].on = call'[q].on
               PROVE  call'[p].on = Waiting
    BY DEF OneCallEach
  <2>1. CASE p = r  BY <1>2, <1>6, <2>1
  <2>2. CASE q = r  BY <1>2, <1>6, <2>2
  <2>3. CASE p # r /\ q # r  BY <1>2, <2>3 DEF CallsInv, OneCallEach
  <2> QED  BY <2>1, <2>2, <2>3
<1>8. NobodyLeft'
  <2> SUFFICES ASSUME NEW k \in PgConnections, IsFree(k)' PROVE appUser'[k].local = Nobody
    BY DEF NobodyLeft
  <2>1. \A q \in NoteCalls : call'[q] # NoCall => call'[q].on # k  BY DEF IsFree
  <2>2. CASE call[r] # NoCall /\ call[r].on = k
    <3>1. k # Waiting  BY JobNotesConstantsOK
    <3>2. c = NoCall  BY <1>2, <2>1, <2>2, <3>1
    <3> QED  BY <2>2, <3>1, <3>2
  <2>3. CASE ~(call[r] # NoCall /\ call[r].on = k)
    <3>1. appUser'[k] = appUser[k]  BY <1>2, <2>1, <2>3
    <3>2. IsFree(k)  BY <1>2, <2>1, <2>3 DEF IsFree
    <3> QED  BY <3>1, <3>2 DEF CallsInv, NobodyLeft
  <2> QED  BY <2>2, <2>3
<1> QED  BY <1>1, <1>5, <1>7, <1>8 DEF CallsInv

LEMMA SendKeeps ==
  ASSUME CallsInv, NEW op \in {"post", "put", "delete", "job"},
         NEW n \in NoteIds \cup {New}, NEW t \in NoteTexts \cup {NoText},
         op \in {"put", "delete"} => n \in NoteIds,
         Send(op, n, t), UNCHANGED appUser
  PROVE  CallsInv'
<1>1. PICK c : c = [on |-> Waiting, as |-> Me, op |-> op, note |-> n, noteText |-> t]
  OBVIOUS
<1>2. PICK r \in NoteCalls : call[r] = NoCall /\ call' = [call EXCEPT ![r] = c]
  BY <1>1 DEF Send
<1>3. Me \in Writers /\ Me # Nobody  BY JobNotesConstantsOK DEF Writers
<1>4. c \in Call  BY <1>1, <1>3 DEF Call
<1>5. c.on = Waiting /\ c.op = op /\ c.note = n /\ c.as = Me  BY <1>1
<1>6. /\ appUser' \in [PgConnections -> Setting]
      /\ \A k \in PgConnections : appUser'[k].session = Nobody
      /\ \A k \in PgConnections : appUser'[k] = appUser[k]
  BY DEF CallsInv, NobodyLeft
<1> QED  BY <1>2, <1>3, <1>4, <1>5, <1>6, CallsChange

LEMMA BeginKeeps ==
  ASSUME CallsInv, NEW r \in NoteCalls, NEW k \in PgConnections, NEW c \in Call,
         call[r] # NoCall => call[r].on = Waiting,
         c.op \in {"put", "delete"} => c.note \in NoteIds, c.op # "job" => c.as # Nobody,
         Begin(r, k, c)
  PROVE  CallsInv'
<1>1. IsFree(k) /\ k # Waiting  BY JobNotesConstantsOK DEF Begin
<1>2. appUser[k] \in Setting /\ appUser[k].session = Nobody /\ appUser[k].local = Nobody
  BY <1>1 DEF CallsInv, NobodyLeft
<1>3. c.as \in Writers  BY CallFields
<1>4. PICK s : s = IF c.as = Nobody THEN appUser[k] ELSE WithPerson(appUser[k], c.as)
  OBVIOUS
<1>5. s \in Setting /\ s.session = Nobody /\ s.local = c.as
  BY <1>2, <1>3, <1>4 DEF Setting, WithPerson
<1>6. appUser' = [appUser EXCEPT ![k] = s]  BY <1>4 DEF Begin
<1>7. /\ appUser' \in [PgConnections -> Setting] /\ appUser'[k] = s
      /\ \A l \in PgConnections : l # k => appUser'[l] = appUser[l]
  BY <1>5, <1>6 DEF CallsInv
<1>8. \A l \in PgConnections : appUser'[l].session = Nobody
  BY <1>5, <1>7 DEF CallsInv, NobodyLeft
<1>9. PICK d : d = [c EXCEPT !.on = k]  OBVIOUS
<1>10. d \in Call /\ d.on = k /\ d.as = c.as /\ d.op = c.op /\ d.note = c.note
  BY <1>9 DEF Call
<1>11. call' = [call EXCEPT ![r] = d]  BY <1>9 DEF Begin
<1>12. d # NoCall  BY <1>10, CallFields
<1>13. appUser'[d.on].local = d.as  BY <1>5, <1>7, <1>10
<1> QED  BY <1>1, <1>7, <1>8, <1>10, <1>11, <1>12, <1>13, CallsChange

LEMMA OthersCallsAre ==
  ASSUME NEW c \in OthersCalls
  PROVE  /\ c \in Call
         /\ c.op \in {"put", "delete"} => c.note \in NoteIds
         /\ c.op # "job" => c.as # Nobody
<1>1. \A u \in Persons : u \in Writers /\ u # Nobody  BY JobNotesConstantsOK DEF Writers
<1>2. CASE c \in [on : {Waiting}, as : Persons \ {Me}, op : {"post"}, note : {New}, noteText : NoteTexts]
  BY <1>1, <1>2 DEF Call
<1>3. CASE c \in [on : {Waiting}, as : Persons \ {Me}, op : {"put"}, note : NoteIds, noteText : NoteTexts]
  BY <1>1, <1>3 DEF Call
<1>4. CASE c \in [on : {Waiting}, as : Persons \ {Me}, op : {"delete"}, note : NoteIds, noteText : {NoText}]
  BY <1>1, <1>4 DEF Call
<1>5. CASE c \in [on : {Waiting}, as : Writers, op : {"job"}, note : {New}, noteText : {NoText}]
  BY <1>5 DEF Call
<1> QED  BY <1>2, <1>3, <1>4, <1>5 DEF OthersCalls

LEMMA BeginsKeep ==
  ASSUME NotesInv, NEW r \in NoteCalls, NEW k \in PgConnections,
         BeginRequest(r, k) \/ \E c \in OthersCalls : OthersRequest(r, k, c)
  PROVE  NotesInv' /\ UNCHANGED tableOfNotes
<1>1. CallsInv  BY DEF NotesInv
<1>2. ASSUME NEW c \in Call, Begin(r, k, c) PROVE UNCHANGED <<tableOfNotes, pageOfNotes>>
  BY <1>2 DEF Begin
<1>3. CASE BeginRequest(r, k)
  <2>1. call[r] # NoCall /\ call[r].on = Waiting /\ Begin(r, k, call[r])  BY <1>3 DEF BeginRequest
  <2>2. call[r] \in Call /\ CallHolds(r)  BY <1>1, <2>1, CallsAre DEF CallsInv
  <2>3. /\ call[r].op \in {"put", "delete"} => call[r].note \in NoteIds
        /\ call[r].op # "job" => call[r].as # Nobody
    BY <2>1, <2>2 DEF CallHolds
  <2>4. CallsInv'  BY <1>1, <2>1, <2>2, <2>3, BeginKeeps
  <2> QED  BY <1>2, <2>1, <2>2, <2>4
           DEF NotesInv, TablesTypeOK, NotesPageTypeOK, tableOfNotes, pageOfNotes
<1>4. ASSUME NEW c \in OthersCalls, OthersRequest(r, k, c)
      PROVE  NotesInv' /\ UNCHANGED tableOfNotes
  <2>1. call[r] = NoCall /\ Begin(r, k, c)  BY <1>4 DEF OthersRequest
  <2>2. CallsInv'  BY <1>1, <2>1, OthersCallsAre, BeginKeeps
  <2> QED  BY <1>2, <2>1, <2>2, OthersCallsAre
           DEF NotesInv, TablesTypeOK, NotesPageTypeOK, tableOfNotes, pageOfNotes
<1> QED  BY <1>3, <1>4

LEMMA EndKeeps ==
  ASSUME CallsInv, NEW r \in NoteCalls, call[r] # NoCall, EndRequest(r)
  PROVE  CallsInv'
<1>1. call' = [call EXCEPT ![r] = NoCall]  BY DEF EndRequest
<1>2. call[r] \in Call  BY CallsAre
<1>3. /\ appUser' \in [PgConnections -> Setting]
      /\ \A k \in PgConnections : appUser'[k].session = Nobody
      /\ \A k \in PgConnections : appUser'[k] = appUser[k] \/ call[r].on = k
      /\ call[r].on # Waiting => appUser'[call[r].on].local = Nobody
  <2>1. CASE call[r].on = Waiting  BY <2>1 DEF EndRequest, CallsInv, NobodyLeft
  <2>2. CASE call[r].on # Waiting
    <3>1. PICK k \in PgConnections : k = call[r].on  BY <1>2, <2>2, CallFields
    <3>2. appUser[k] \in Setting /\ appUser[k].session = Nobody  BY DEF CallsInv, NobodyLeft
    <3>3. PICK s : s = [appUser[k] EXCEPT !.local = Nobody]  OBVIOUS
    <3>4. s \in Setting /\ s.session = Nobody /\ s.local = Nobody
      BY <3>2, <3>3 DEF Setting, Writers
    <3>5. appUser' = [appUser EXCEPT ![k] = s]
      BY <2>2, <3>1, <3>3 DEF EndRequest, AfterTransaction
    <3>6. /\ appUser' \in [PgConnections -> Setting] /\ appUser'[k] = s
          /\ \A l \in PgConnections : l # k => appUser'[l] = appUser[l]
      BY <3>4, <3>5 DEF CallsInv
    <3> QED  BY <3>1, <3>4, <3>6 DEF CallsInv, NobodyLeft
  <2> QED  BY <2>1, <2>2
<1> QED  BY <1>1, <1>3, CallsChange

(* Whoever's the connection was: a request that may write has it set.       *)
LEMMA WriterIsCurrent ==
  ASSUME CallsInv, NEW r \in NoteCalls, MayWrite(r)
  PROVE  /\ CurrentUser(appUser[call[r].on]) = call[r].as
         /\ call[r] \in Call /\ call[r] # NoCall /\ call[r].as \in Writers
         /\ call[r].op \in {"put", "delete"} => call[r].note \in NoteIds
         /\ call[r].op # "job" => call[r].as # Nobody
<1>1. call[r] # NoCall /\ call[r].on # Waiting  BY DEF MayWrite
<1>2. call[r] \in Call /\ call[r].on \in PgConnections  BY <1>1, CallsAre
<1>3. CallHolds(r)  BY DEF CallsInv
<1>4. appUser[call[r].on].session = Nobody  BY <1>2 DEF CallsInv, NobodyLeft
<1>5. appUser[call[r].on].local = call[r].as  BY <1>1, <1>3 DEF CallHolds
<1>6. CurrentUser(appUser[call[r].on]) = call[r].as  BY <1>4, <1>5 DEF CurrentUser
<1>7. call[r].as \in Writers  BY <1>2, CallFields
<1> QED  BY <1>1, <1>2, <1>3, <1>6, <1>7 DEF CallHolds

LEMMA CreateNoteIs ==
  ASSUME NotesInv, NEW r \in NoteCalls, NEW n \in NoteIds, CreateNote(r, n)
  PROVE  /\ CallsInv' /\ TablesTypeOK'
         /\ call[r] # NoCall /\ call'[r] = NoCall
         /\ NamedBy(jobNote'[n]) = call[r].as /\ jobNote'[n].noteText = call[r].noteText
         /\ \A m \in NoteIds : m # n => jobNote'[m] = jobNote[m]
         /\ jobEditor' = jobEditor
<1>1. CallsInv /\ TablesTypeOK  BY DEF NotesInv
<1>2. MayWrite(r) /\ EndRequest(r) /\ call[r].op = "post" /\ call[r].noteText # NoText
  BY DEF CreateNote
<1>3. /\ CurrentUser(appUser[call[r].on]) = call[r].as /\ call[r] \in Call /\ call[r] # NoCall
      /\ call[r].as \in Writers
  BY <1>1, <1>2, WriterIsCurrent
<1>4. CallsInv'  BY <1>1, <1>2, <1>3, EndKeeps
<1>5. call'[r] = NoCall  BY <1>1, <1>2 DEF EndRequest, CallsInv
<1>6. PICK x : x = [noteText |-> call[r].noteText, createdBy |-> call[r].as, modifiedBy |-> Nobody]
  OBVIOUS
<1>7. call[r].noteText \in NoteTexts  BY <1>2, <1>3, CallFields
<1>8. x \in Note  BY <1>3, <1>6, <1>7 DEF Note, Writers
<1>9. x.noteText = call[r].noteText /\ NamedBy(x) = call[r].as  BY <1>6 DEF NamedBy
<1>10. jobNote' = [jobNote EXCEPT ![n] = x] /\ jobEditor' = jobEditor
  BY <1>3, <1>6 DEF CreateNote
<1>11. jobNote'[n] = x /\ \A m \in NoteIds : m # n => jobNote'[m] = jobNote[m]
  BY <1>1, <1>10 DEF TablesTypeOK
<1>12. TablesTypeOK'  BY <1>1, <1>8, <1>10 DEF TablesTypeOK
<1> QED  BY <1>3, <1>4, <1>5, <1>9, <1>10, <1>11, <1>12

LEMMA UpdateNoteIs ==
  ASSUME NotesInv, NEW r \in NoteCalls, UpdateNote(r)
  PROVE  /\ CallsInv' /\ TablesTypeOK'
         /\ call[r] # NoCall /\ call'[r] = NoCall /\ call[r].note \in NoteIds
         /\ NamedBy(jobNote'[call[r].note]) = call[r].as
         /\ jobNote'[call[r].note].noteText = call[r].noteText
         /\ \A m \in NoteIds : m # call[r].note => jobNote'[m] = jobNote[m]
         /\ jobEditor' = jobEditor
<1>1. CallsInv /\ TablesTypeOK  BY DEF NotesInv
<1>2. MayWrite(r) /\ EndRequest(r) /\ call[r].op = "put" /\ call[r].noteText # NoText
  BY DEF UpdateNote
<1>3. /\ CurrentUser(appUser[call[r].on]) = call[r].as /\ call[r] \in Call /\ call[r] # NoCall
      /\ call[r].as \in Writers /\ call[r].note \in NoteIds /\ call[r].as # Nobody
  BY <1>1, <1>2, WriterIsCurrent
<1>4. CallsInv'  BY <1>1, <1>2, <1>3, EndKeeps
<1>5. call'[r] = NoCall  BY <1>1, <1>2 DEF EndRequest, CallsInv
<1>6. PICK n \in NoteIds : n = call[r].note  BY <1>3
<1>7. jobNote[n] \in Note  BY <1>6 DEF UpdateNote
<1>8. PICK y : y = [jobNote[n] EXCEPT !.noteText = call[r].noteText]  OBVIOUS
<1>9. PICK x : x = [y EXCEPT !.modifiedBy = call[r].as]  OBVIOUS
<1>10. call[r].noteText \in NoteTexts  BY <1>2, <1>3, CallFields
<1>11. y \in Note /\ y.noteText = call[r].noteText  BY <1>7, <1>8, <1>10 DEF Note
<1>12. x \in Note /\ x.noteText = call[r].noteText /\ x.modifiedBy = call[r].as
  BY <1>3, <1>9, <1>11 DEF Note
<1>13. NamedBy(x) = call[r].as  BY <1>3, <1>12 DEF NamedBy
<1>14. x = Modified(jobNote[n], call[r].noteText, call[r].as)  BY <1>8, <1>9 DEF Modified
<1>15. jobNote' = [jobNote EXCEPT ![n] = x] /\ jobEditor' = jobEditor
  BY <1>3, <1>6, <1>14 DEF UpdateNote
<1>16. jobNote'[n] = x /\ \A m \in NoteIds : m # n => jobNote'[m] = jobNote[m]
  BY <1>1, <1>15 DEF TablesTypeOK
<1>17. TablesTypeOK'  BY <1>1, <1>12, <1>15 DEF TablesTypeOK
<1> QED  BY <1>3, <1>4, <1>5, <1>6, <1>12, <1>13, <1>15, <1>16, <1>17

LEMMA UpdateJobIs ==
  ASSUME NotesInv, NEW r \in NoteCalls, UpdateJob(r)
  PROVE  /\ CallsInv' /\ TablesTypeOK'
         /\ call[r] # NoCall /\ call'[r] = NoCall /\ call[r].op = "job"
         /\ jobEditor' = call[r].as /\ jobNote' = jobNote
<1>1. CallsInv /\ TablesTypeOK  BY DEF NotesInv
<1>2. MayWrite(r) /\ EndRequest(r) /\ call[r].op = "job" /\ jobNote' = jobNote
  BY DEF UpdateJob
<1>3. /\ CurrentUser(appUser[call[r].on]) = call[r].as /\ call[r] # NoCall
      /\ call[r].as \in Writers
  BY <1>1, <1>2, WriterIsCurrent
<1>4. CallsInv'  BY <1>1, <1>2, <1>3, EndKeeps
<1>5. call'[r] = NoCall  BY <1>1, <1>2 DEF EndRequest, CallsInv
<1>6. jobEditor' = call[r].as  BY <1>3 DEF UpdateJob
<1>7. TablesTypeOK'  BY <1>1, <1>2, <1>3, <1>6 DEF TablesTypeOK
<1> QED  BY <1>2, <1>3, <1>4, <1>5, <1>6, <1>7

LEMMA OtherEndsKeep ==
  ASSUME NotesInv, NEW r \in NoteCalls, DeleteNote(r) \/ FailRequest(r)
  PROVE  /\ CallsInv' /\ TablesTypeOK'
         /\ \A m \in NoteIds : jobNote'[m] = jobNote[m] \/ jobNote'[m] = Deleted
         /\ jobEditor' = jobEditor
<1>1. CallsInv /\ TablesTypeOK  BY DEF NotesInv
<1>2. CASE DeleteNote(r)
  <2>1. MayWrite(r) /\ EndRequest(r) /\ call[r].op = "delete"  BY <1>2 DEF DeleteNote
  <2>2. call[r] # NoCall /\ call[r].note \in NoteIds  BY <1>1, <2>1, WriterIsCurrent
  <2>3. CallsInv'  BY <1>1, <2>1, <2>2, EndKeeps
  <2>4. jobNote' = [jobNote EXCEPT ![call[r].note] = Deleted] /\ jobEditor' = jobEditor
    BY <1>2 DEF DeleteNote
  <2> QED  BY <1>1, <2>2, <2>3, <2>4 DEF TablesTypeOK
<1>3. CASE FailRequest(r)
  <2>1. call[r] # NoCall /\ EndRequest(r) /\ jobNote' = jobNote /\ jobEditor' = jobEditor
    BY <1>3 DEF FailRequest, tableOfNotes
  <2>2. CallsInv'  BY <1>1, <2>1, EndKeeps
  <2> QED  BY <1>1, <2>1, <2>2 DEF TablesTypeOK
<1> QED  BY <1>2, <1>3

PageOfNotesActs ==
  \/ AddNote \/ (\E n \in NoteIds : EditNote(n) \/ AskToDelete(n))
  \/ (\E t \in NoteTexts \cup {NoText} : TypeNote(t))
  \/ CancelNote \/ SaveNote \/ AnswerYes \/ AnswerNo \/ LeaveNotes \/ ReloadNotes

LEMMA FormFields ==
  ASSUME NEW f \in EditForm
  PROVE  f.note \in NoteIds \cup {New} /\ f.noteText \in NoteTexts \cup {NoText}
BY DEF EditForm

LEMMA QuestionFields ==
  ASSUME NEW q \in Question
  PROVE  /\ q[1] \in {"cancel", "delete"}
         /\ q[1] = "delete" => q[2] \in NoteIds
BY DEF Question

LEMMA NotesNowAre ==
  ASSUME TablesTypeOK
  PROVE  NotesNow \in [NoteIds -> NoteTexts \cup {NoNote}]
BY DEF NotesNow, Note, TablesTypeOK

LEMMA PageActsKeep ==
  ASSUME NotesInv, PageOfNotesActs
  PROVE  NotesInv' /\ UNCHANGED tableOfNotes
<1>1. CallsInv /\ TablesTypeOK /\ NotesPageTypeOK  BY DEF NotesInv
<1>2. UNCHANGED tableOfNotes /\ UNCHANGED appUser
  BY DEF PageOfNotesActs, AddNote, EditNote, AskToDelete, TypeNote, CancelNote, SaveNote, AnswerYes,
     AnswerNo, LeaveNotes, ReloadNotes
<1>3. TablesTypeOK'  BY <1>1, <1>2 DEF TablesTypeOK, tableOfNotes
<1>4. ASSUME UNCHANGED call PROVE CallsInv'
  BY <1>1, <1>2, <1>4 DEF CallsInv, CallHolds, OneCallEach, NobodyLeft, IsFree
<1>5. CASE AddNote
  <2>1. editor' \in EditForm  BY <1>5 DEF AddNote, EditForm
  <2> QED  BY <1>1, <1>2, <1>3, <1>4, <1>5, <2>1 DEF AddNote, NotesInv, NotesPageTypeOK
<1>6. ASSUME NEW n \in NoteIds, EditNote(n) PROVE NotesInv'
  <2>1. shownNotes[n] \in NoteTexts  BY <1>1, <1>6 DEF EditNote, NotesPageTypeOK
  <2>2. editor' \in EditForm  BY <1>6, <2>1 DEF EditNote, EditForm
  <2> QED  BY <1>1, <1>3, <1>4, <1>6, <2>2 DEF EditNote, NotesInv, NotesPageTypeOK
<1>7. ASSUME NEW n \in NoteIds, AskToDelete(n) PROVE NotesInv'
  <2>1. question' \in Question  BY <1>7 DEF AskToDelete, Question
  <2> QED  BY <1>1, <1>3, <1>4, <1>7, <2>1 DEF AskToDelete, NotesInv, NotesPageTypeOK
<1>8. ASSUME NEW t \in NoteTexts \cup {NoText}, TypeNote(t) PROVE NotesInv'
  <2>1. editor' \in EditForm  BY <1>1, <1>8 DEF TypeNote, EditForm, NotesPageTypeOK
  <2> QED  BY <1>1, <1>3, <1>4, <1>8, <2>1 DEF TypeNote, NotesInv, NotesPageTypeOK
<1>9. CASE CancelNote
  <2>1. <<"cancel", New>> \in Question  BY DEF Question
  <2> QED  BY <1>1, <1>3, <1>4, <1>9, <2>1 DEF CancelNote, NotesInv, NotesPageTypeOK
<1>10. CASE SaveNote
  <2>1. editor \in EditForm  BY <1>1, <1>10 DEF SaveNote, NotesPageTypeOK
  <2>2. editor.note \in NoteIds \cup {New} /\ editor.noteText \in NoteTexts \cup {NoText}
    BY <2>1, FormFields
  <2>3. PICK op : op = IF editor.note = New THEN "post" ELSE "put"  OBVIOUS
  <2>4. op \in {"post", "put", "delete", "job"} /\ op # "delete" /\ op # "job"
        /\ (op = "put" => editor.note \in NoteIds)
    BY <2>2, <2>3
  <2>5. Send(op, editor.note, editor.noteText)  BY <1>10, <2>3 DEF SaveNote
  <2>6. CallsInv'  BY <1>1, <1>2, <2>2, <2>4, <2>5, SendKeeps
  <2> QED  BY <1>1, <1>3, <1>10, <2>6 DEF SaveNote, NotesInv, NotesPageTypeOK
<1>11. CASE AnswerYes
  <2>1. question \in Question  BY <1>1, <1>11 DEF AnswerYes, NotesPageTypeOK
  <2>2. NotesPageTypeOK'  BY <1>1, <1>11 DEF AnswerYes, NotesPageTypeOK
  <2>3. CASE question[1] = "cancel"
    <3>1. UNCHANGED call  BY <1>11, <2>3 DEF AnswerYes
    <3> QED  BY <1>2, <1>3, <1>4, <2>2, <3>1 DEF NotesInv
  <2>4. CASE question[1] # "cancel"
    <3>1. Send("delete", question[2], NoText)  BY <1>11, <2>4 DEF AnswerYes
    <3>2. question[2] \in NoteIds  BY <2>1, <2>4, QuestionFields
    <3>3. CallsInv'  BY <1>1, <1>2, <3>1, <3>2, SendKeeps
    <3> QED  BY <1>2, <1>3, <2>2, <3>3 DEF NotesInv
  <2> QED  BY <2>3, <2>4
<1>12. CASE AnswerNo \/ LeaveNotes
  BY <1>1, <1>3, <1>4, <1>12 DEF AnswerNo, LeaveNotes, NotesInv, NotesPageTypeOK
<1>13. CASE ReloadNotes
  <2>1. shownNotes' \in [NoteIds -> NoteTexts \cup {NoNote}]
    BY <1>1, <1>13, NotesNowAre DEF ReloadNotes
  <2>2. editor' \in EditForm \cup {NoForm}
    BY <1>1, <1>13 DEF ReloadNotes, EditorAfterReload, NotesPageTypeOK
  <2>3. question' \in Question \cup {NoQuestion}
    BY <1>1, <1>13 DEF ReloadNotes, QuestionAfterReload, NotesPageTypeOK
  <2> QED  BY <1>3, <1>4, <1>13, <2>1, <2>2, <2>3 DEF ReloadNotes, NotesInv, NotesPageTypeOK
<1> QED
  BY <1>2, <1>5, <1>6, <1>7, <1>8, <1>9, <1>10, <1>11, <1>12, <1>13 DEF PageOfNotesActs

LEMMA NotesStep == NotesInv /\ [NotesNext]_notesVars => NotesInv'
<1> SUFFICES ASSUME NotesInv, [NotesNext]_notesVars PROVE NotesInv'
  OBVIOUS
<1>1. CallsInv /\ TablesTypeOK /\ NotesPageTypeOK  BY DEF NotesInv
<1>2. CASE PageOfNotesActs  BY <1>2, PageActsKeep
<1>3. ASSUME NEW r \in NoteCalls, NEW k \in PgConnections,
             BeginRequest(r, k) \/ \E c \in OthersCalls : OthersRequest(r, k, c)
      PROVE  NotesInv'
  BY <1>3, BeginsKeep
<1>6. ASSUME NEW r \in NoteCalls, EndRequest(r), CallsInv', TablesTypeOK' PROVE NotesInv'
  BY <1>1, <1>6 DEF EndRequest, NotesInv, NotesPageTypeOK, pageOfNotes
<1>7. ASSUME NEW r \in NoteCalls, NEW n \in NoteIds, CreateNote(r, n) PROVE NotesInv'
  BY <1>6, <1>7, CreateNoteIs DEF CreateNote
<1>8. ASSUME NEW r \in NoteCalls, UpdateNote(r) PROVE NotesInv'
  BY <1>6, <1>8, UpdateNoteIs DEF UpdateNote
<1>9. ASSUME NEW r \in NoteCalls, UpdateJob(r) PROVE NotesInv'
  BY <1>6, <1>9, UpdateJobIs DEF UpdateJob
<1>10. ASSUME NEW r \in NoteCalls, DeleteNote(r) \/ FailRequest(r) PROVE NotesInv'
  BY <1>6, <1>10, OtherEndsKeep DEF DeleteNote, FailRequest
<1>11. CASE UNCHANGED notesVars
  BY <1>1, <1>11 DEF notesVars, NotesInv, CallsInv, CallHolds, OneCallEach, NobodyLeft, IsFree,
     TablesTypeOK, NotesPageTypeOK
<1> QED
  BY <1>2, <1>3, <1>7, <1>8, <1>9, <1>10, <1>11 DEF NotesNext, PageOfNotesActs

(* A step that ends no request as a write leaves every row as it was.       *)
LEMMA RowsAreNamed ==
  ASSUME NotesInv, NotesNext
  PROVE  /\ \A n \in NoteIds : jobNote'[n] # jobNote[n] /\ jobNote'[n] \in Note =>
              \E r \in NoteCalls :
                /\ call[r] # NoCall /\ call'[r] = NoCall
                /\ NamedBy(jobNote'[n]) = call[r].as /\ jobNote'[n].noteText = call[r].noteText
         /\ jobEditor' # jobEditor =>
              \E r \in NoteCalls :
                /\ call[r] # NoCall /\ call'[r] = NoCall
                /\ call[r].op = "job" /\ jobEditor' = call[r].as
<1>1. CASE UNCHANGED tableOfNotes  BY <1>1 DEF tableOfNotes
<1>2. ASSUME NEW r \in NoteCalls, NEW m \in NoteIds, CreateNote(r, m)
      PROVE  /\ jobEditor' = jobEditor
             /\ \A n \in NoteIds : jobNote'[n] # jobNote[n] =>
                  /\ call[r] # NoCall /\ call'[r] = NoCall
                  /\ NamedBy(jobNote'[n]) = call[r].as /\ jobNote'[n].noteText = call[r].noteText
  BY <1>2, CreateNoteIs
<1>3. ASSUME NEW r \in NoteCalls, UpdateNote(r)
      PROVE  /\ jobEditor' = jobEditor
             /\ \A n \in NoteIds : jobNote'[n] # jobNote[n] =>
                  /\ call[r] # NoCall /\ call'[r] = NoCall
                  /\ NamedBy(jobNote'[n]) = call[r].as /\ jobNote'[n].noteText = call[r].noteText
  BY <1>3, UpdateNoteIs
<1>4. ASSUME NEW r \in NoteCalls, UpdateJob(r)
      PROVE  /\ jobNote' = jobNote /\ call[r] # NoCall /\ call'[r] = NoCall
             /\ call[r].op = "job" /\ jobEditor' = call[r].as
  BY <1>4, UpdateJobIs
<1>5. ASSUME NEW r \in NoteCalls, DeleteNote(r) \/ FailRequest(r)
      PROVE  /\ jobEditor' = jobEditor
             /\ \A n \in NoteIds : jobNote'[n] = jobNote[n] \/ jobNote'[n] \notin Note
  BY <1>5, OtherEndsKeep, JobNotesConstantsOK
<1>6. \/ UNCHANGED tableOfNotes
      \/ \E r \in NoteCalls : \/ \E n \in NoteIds : CreateNote(r, n)
                              \/ UpdateNote(r) \/ UpdateJob(r) \/ DeleteNote(r) \/ FailRequest(r)
  <2>1. CASE PageOfNotesActs  BY <2>1, PageActsKeep
  <2>2. ASSUME NEW r \in NoteCalls, NEW k \in PgConnections,
               BeginRequest(r, k) \/ \E c \in OthersCalls : OthersRequest(r, k, c)
        PROVE  UNCHANGED tableOfNotes
    BY <2>2, BeginsKeep
  <2>3. \/ PageOfNotesActs
        \/ \E r \in NoteCalls : \E k \in PgConnections :
             BeginRequest(r, k) \/ \E c \in OthersCalls : OthersRequest(r, k, c)
        \/ \E r \in NoteCalls : \/ \E n \in NoteIds : CreateNote(r, n)
                                \/ UpdateNote(r) \/ UpdateJob(r) \/ DeleteNote(r) \/ FailRequest(r)
    BY Zenon DEF NotesNext, PageOfNotesActs
  <2> QED  BY <2>1, <2>2, <2>3
<1> QED
  BY <1>1, <1>2, <1>3, <1>4, <1>5, <1>6

(* A row names who wrote it, however requests take turns on connections,   *)
(* and what is being typed survives the notes' being read again.            *)
LEMMA NotesAreSoundAlways ==
  NotesSpec => []NotesTypeOK /\ RowsNameTheirWriters /\ TypedNotesAreKept
<1>1. NotesInit => NotesInv
  <2> SUFFICES ASSUME NotesInit PROVE NotesInv
    OBVIOUS
  <2>1. [session |-> Nobody, local |-> Nobody] \in Setting  BY DEF Setting, Writers
  <2>2. CallsInv
    BY <2>1 DEF NotesInit, CallsInv, CallHolds, OneCallEach, NobodyLeft
  <2> QED  BY <2>2 DEF NotesInit, NotesInv, TablesTypeOK, NotesPageTypeOK, Writers
<1>2. NotesInv /\ [NotesNext]_notesVars => NotesInv'
  BY NotesStep
<1>3. NotesInv => NotesTypeOK
  BY DEF NotesInv, CallsInv, TablesTypeOK, NotesPageTypeOK, NotesTypeOK
<1>4. NotesInv /\ [NotesNext]_notesVars =>
        [/\ \A n \in NoteIds : jobNote'[n] # jobNote[n] /\ jobNote'[n] \in Note =>
              \E r \in NoteCalls :
                /\ call[r] # NoCall /\ call'[r] = NoCall
                /\ NamedBy(jobNote'[n]) = call[r].as /\ jobNote'[n].noteText = call[r].noteText
         /\ jobEditor' # jobEditor =>
              \E r \in NoteCalls :
                /\ call[r] # NoCall /\ call'[r] = NoCall
                /\ call[r].op = "job" /\ jobEditor' = call[r].as]_notesVars
  BY RowsAreNamed
<1>5. NotesInv /\ [NotesNext]_notesVars =>
        [shownNotes' # shownNotes /\ editor # NoForm /\ TextBefore(editor.note, shownNotes') # NoNote =>
           editor' = editor]_notesVars
  <2> SUFFICES ASSUME NotesNext, shownNotes' # shownNotes, editor # NoForm,
                      TextBefore(editor.note, shownNotes') # NoNote
               PROVE  editor' = editor
    OBVIOUS
  <2>1. ReloadNotes
    BY DEF NotesNext, AddNote, EditNote, AskToDelete, TypeNote, CancelNote, SaveNote, AnswerYes,
       AnswerNo, LeaveNotes, BeginRequest, OthersRequest, Begin, CreateNote, UpdateNote,
       DeleteNote, UpdateJob, FailRequest, EndRequest, pageOfNotes
  <2> QED  BY <2>1 DEF ReloadNotes, EditorAfterReload
<1> QED
  BY <1>1, <1>2, <1>3, <1>4, <1>5, PTL DEF NotesSpec, RowsNameTheirWriters, TypedNotesAreKept

(* What the admin's forms save is what their dialogs listed, of the school *)
(* years and of the partner's settings; notes keep what is being typed, and *)
(* rows name who wrote them.                                                *)
THEOREM EditsAreTheirUsersAlways == MCSpec => EditsAreTheirUsers
BY PartsAreApart, SettingIsAsListedAlways, OnlyConfirmedChangesAlways, NotesAreSoundAlways
   DEF EditsAreTheirUsers

-----------------------------------------------------------------------------
(* Entries of the query cache.                                              *)

(* What an entry shows as up to date, or gets next, is at least a version; *)
(* or an invalidation has overtaken it.                                     *)
IsSince(e, least) ==
  ~e.overtaken =>
    /\ e.fetch \notin {Idle, Sent} => e.fetch >= least
    /\ e.data # Unread /\ ~e.stale => e.data >= least

\* No version is from the future.
IsUntil(e, most) ==
  /\ e.fetch \notin {Idle, Sent} => e.fetch <= most
  /\ e.data # Unread => e.data <= most

LEMMA EntryFields ==
  ASSUME NEW V, NEW e \in Entry(V)
  PROVE  /\ e.data \in V \cup {Unread} /\ e.stale \in BOOLEAN
         /\ e.fetch \in V \cup {Idle, Sent} /\ e.mounted \in BOOLEAN /\ e.overtaken \in BOOLEAN
BY DEF Entry

LEMMA NewEntryIs ==
  ASSUME NEW V, V \subseteq Nat
  PROVE  /\ NewEntry \in Entry(V)
         /\ \A n \in Nat : IsSince(NewEntry, n) /\ IsUntil(NewEntry, n)
BY DEF NewEntry, Entry, IsSince, IsUntil

(* A fetch begins, unless one is under way.                                 *)
LEMMA FetchingIs ==
  ASSUME NEW V, V \subseteq Nat, NEW e \in Entry(V)
  PROVE  /\ Fetching(e) \in Entry(V)
         /\ Fetching(e).data = e.data /\ Fetching(e).stale = e.stale
         /\ e.fetch = Idle => Fetching(e).fetch = Sent
         /\ e.fetch # Idle => Fetching(e) = e
<1>1. CASE e.fetch = Idle
  <2>1. PICK s : s = [e EXCEPT !.fetch = Sent]  OBVIOUS
  <2>2. PICK t : t = [s EXCEPT !.overtaken = FALSE]  OBVIOUS
  <2>3. s \in Entry(V) /\ s.data = e.data /\ s.stale = e.stale /\ s.fetch = Sent
    BY <2>1 DEF Entry
  <2>4. t \in Entry(V) /\ t.data = e.data /\ t.stale = e.stale /\ t.fetch = Sent
    BY <2>2, <2>3 DEF Entry
  <2>5. Fetching(e) = t  BY <1>1, <2>1, <2>2 DEF Fetching
  <2> QED  BY <1>1, <2>4, <2>5
<1>2. CASE e.fetch # Idle
  BY <1>2 DEF Fetching
<1> QED  BY <1>1, <1>2

LEMMA FetchingKeeps ==
  ASSUME NEW V, V \subseteq Nat, NEW e \in Entry(V), NEW n \in Nat
  PROVE  /\ IsUntil(e, n) => IsUntil(Fetching(e), n)
         /\ IsSince(e, n) /\ Outdated(e) => IsSince(Fetching(e), n)
<1>1. CASE e.fetch = Idle
  BY <1>1, FetchingIs, EntryConstantsOK DEF IsUntil, IsSince, Outdated
<1>2. CASE e.fetch # Idle
  BY <1>2, FetchingIs
<1> QED  BY <1>1, <1>2

LEMMA RefreshedKeeps ==
  ASSUME NEW V, V \subseteq Nat, NEW e \in Entry(V), NEW n \in Nat
  PROVE  /\ Refreshed(e) \in Entry(V)
         /\ IsUntil(e, n) => IsUntil(Refreshed(e), n)
         /\ IsSince(e, n) => IsSince(Refreshed(e), n)
BY FetchingIs, FetchingKeeps DEF Refreshed

LEMMA MountedKeeps ==
  ASSUME NEW V, V \subseteq Nat, NEW e \in Entry(V), NEW n \in Nat
  PROVE  /\ Mounted(e) \in Entry(V) /\ Unmounted(e) \in Entry(V)
         /\ IsUntil(e, n) => IsUntil(Mounted(e), n) /\ IsUntil(Unmounted(e), n)
         /\ IsSince(e, n) => IsSince(Mounted(e), n) /\ IsSince(Unmounted(e), n)
<1>1. ASSUME NEW m \in BOOLEAN
      PROVE  /\ [e EXCEPT !.mounted = m] \in Entry(V)
             /\ IsUntil(e, n) => IsUntil([e EXCEPT !.mounted = m], n)
             /\ IsSince(e, n) => IsSince([e EXCEPT !.mounted = m], n)
  <2>1. PICK s : s = [e EXCEPT !.mounted = m]  OBVIOUS
  <2>2. /\ s \in Entry(V) /\ s.data = e.data /\ s.stale = e.stale /\ s.fetch = e.fetch
        /\ s.overtaken = e.overtaken
    BY <2>1 DEF Entry
  <2>3. (IsUntil(e, n) => IsUntil(s, n)) /\ (IsSince(e, n) => IsSince(s, n))
    BY <2>2 DEF IsUntil, IsSince
  <2> QED  BY <2>1, <2>2, <2>3
<1> QED  BY <1>1, RefreshedKeeps DEF Mounted, Unmounted

(* After an invalidation nothing older than it counts, whatever was under  *)
(* way.                                                                     *)
LEMMA InvalidatedIs ==
  ASSUME NEW V, V \subseteq Nat, NEW e \in Entry(V), NEW n \in Nat
  PROVE  /\ Invalidated(e) \in Entry(V)
         /\ IsSince(Invalidated(e), n)
         /\ IsUntil(e, n) => IsUntil(Invalidated(e), n)
<1>1. PICK o \in BOOLEAN : o = (e.overtaken \/ e.fetch \notin {Idle, Sent})
  OBVIOUS
<1>2. PICK r : r = [e EXCEPT !.stale = TRUE]  OBVIOUS
<1>3. PICK s : s = [r EXCEPT !.overtaken = o]  OBVIOUS
<1>4. s = [e EXCEPT !.stale = TRUE, !.overtaken = @ \/ e.fetch \notin {Idle, Sent}]
  BY <1>1, <1>2, <1>3
<1>5. r \in Entry(V) /\ r.data = e.data /\ r.stale = TRUE /\ r.fetch = e.fetch
  BY <1>2 DEF Entry
<1>6. /\ s \in Entry(V) /\ s.data = e.data /\ s.stale = TRUE /\ s.fetch = e.fetch
      /\ s.overtaken = o
  BY <1>3, <1>5 DEF Entry
<1>7. IsSince(s, n) /\ (IsUntil(e, n) => IsUntil(s, n))
  BY <1>1, <1>6 DEF IsSince, IsUntil
<1>8. Outdated(s)  BY <1>6 DEF Outdated
<1>9. /\ Fetching(s) \in Entry(V) /\ IsSince(Fetching(s), n)
      /\ IsUntil(e, n) => IsUntil(Fetching(s), n)
  BY <1>6, <1>7, <1>8, FetchingIs, FetchingKeeps
<1>10. /\ Restarted(s) \in Entry(V) /\ IsSince(Restarted(s), n)
       /\ IsUntil(e, n) => IsUntil(Restarted(s), n)
  <2>1. PICK t : t = [s EXCEPT !.fetch = Sent]  OBVIOUS
  <2>2. PICK u : u = [t EXCEPT !.overtaken = FALSE]  OBVIOUS
  <2>3. Restarted(s) = u  BY <2>1, <2>2 DEF Restarted
  <2>4. t \in Entry(V) /\ t.data = e.data /\ t.stale = TRUE /\ t.fetch = Sent
    BY <1>6, <2>1 DEF Entry
  <2>5. u \in Entry(V) /\ u.data = e.data /\ u.stale = TRUE /\ u.fetch = Sent
    BY <2>2, <2>4 DEF Entry
  <2>6. IsSince(u, n) /\ (IsUntil(e, n) => IsUntil(u, n))
    BY <2>5 DEF IsSince, IsUntil
  <2> QED  BY <2>3, <2>5, <2>6
<1>11. Invalidated(e) \in {s, Fetching(s), Restarted(s)}
  BY <1>4 DEF Invalidated
<1> QED  BY <1>6, <1>7, <1>9, <1>10, <1>11

(* Whatever becomes of an entry by itself, given what the server has.       *)
LEMMA MovesKeep ==
  ASSUME NEW V, V \subseteq Nat, NEW e \in Entry(V), NEW n \in Nat,
         NEW v \in V, NEW f \in Moves(e, v)
  PROVE  /\ f \in Entry(V)
         /\ IsUntil(e, n) /\ v <= n => IsUntil(f, n)
         /\ IsSince(e, n) /\ n <= v => IsSince(f, n)
<1>1. CASE f = ReadAt(e, v)
  <2>1. /\ f \in Entry(V) /\ f.data = e.data /\ f.stale = e.stale /\ f.fetch = v
        /\ f.overtaken = e.overtaken
    BY <1>1 DEF ReadAt, Entry
  <2> QED  BY <2>1 DEF IsUntil, IsSince
<1>2. CASE Answering(e) /\ f = Arrived(e)
  <2>1. e.fetch \in V  BY <1>2, EntryFields DEF Answering
  <2>2. PICK s : s = [e EXCEPT !.data = e.fetch]  OBVIOUS
  <2>3. PICK t : t = [s EXCEPT !.stale = FALSE]  OBVIOUS
  <2>4. PICK u : u = [t EXCEPT !.fetch = Idle]  OBVIOUS
  <2>5. f = u  BY <1>2, <2>2, <2>3, <2>4 DEF Arrived
  <2>6. s \in Entry(V) /\ s.data = e.fetch /\ s.overtaken = e.overtaken
    BY <2>1, <2>2 DEF Entry
  <2>7. t \in Entry(V) /\ t.data = e.fetch /\ t.overtaken = e.overtaken
    BY <2>3, <2>6 DEF Entry
  <2>8. u \in Entry(V) /\ u.data = e.fetch /\ u.overtaken = e.overtaken /\ u.fetch = Idle
    BY <2>4, <2>7 DEF Entry
  <2>9. (IsUntil(e, n) => IsUntil(u, n)) /\ (IsSince(e, n) => IsSince(u, n))
    BY <1>2, <2>8 DEF IsUntil, IsSince, Answering
  <2> QED  BY <2>5, <2>8, <2>9
<1>3. CASE f = Failed(e)
  <2>1. /\ f \in Entry(V) /\ f.data = e.data /\ f.stale = e.stale /\ f.fetch = Idle
        /\ f.overtaken = e.overtaken
    BY <1>3 DEF Failed, Entry
  <2> QED  BY <2>1 DEF IsUntil, IsSince
<1>4. CASE f = Expired(e)
  <2>1. /\ f \in Entry(V) /\ f.data = e.data /\ f.stale = TRUE /\ f.fetch = e.fetch
        /\ f.overtaken = e.overtaken
    BY <1>4 DEF Expired, Entry
  <2> QED  BY <2>1 DEF IsUntil, IsSince
<1>5. CASE f = NewEntry
  BY <1>5, NewEntryIs
<1>6. CASE f = Refreshed(e)
  BY <1>6, RefreshedKeeps
<1> QED
  BY <1>1, <1>2, <1>3, <1>4, <1>5, <1>6 DEF Moves

-----------------------------------------------------------------------------
(* Page of a job.  The stage shown has begun, so whatever the run's page   *)
(* reads after the effect of a new stage is of that stage or a later one.   *)

PageInv ==
  /\ PageTypeOK
  /\ IsUntil(updates, progress)
  /\ view.open => StageStart(view.stage) <= progress /\ IsSince(detail, StageStart(view.stage))

LEMMA ProgressIsNumber ==
  /\ Progress \subseteq Nat
  /\ \A n \in Nat : n <= FilesSaved => n \in Progress
  /\ \A n \in Progress : n <= FilesSaved
BY DEF Progress, FilesSaved

LEMMA StageStarts ==
  /\ \A s \in Stages \cup {NoStage} : StageStart(s) \in Nat
  /\ StageStart(NoStage) = 0
BY DEF StageStart, Stages, NoStage, DoneTold, FailureTold, Begun

LEMMA StageOf ==
  ASSUME NEW p \in Progress \cup {Unread}, NEW n \in Progress, p # Unread => p <= n
  PROVE  StageAt(p) \in Stages /\ StageStart(StageAt(p)) <= n
<1>1. n \in Nat  BY ProgressIsNumber
<1>2. CASE p = Unread
  BY <1>1, <1>2 DEF StageAt, StageStart, Stages
<1>3. CASE p # Unread
  <2>1. p \in Nat /\ p <= n  BY <1>3, ProgressIsNumber
  <2>2. StageAt(p) = "done" => p >= 4
    BY <1>3, <2>1 DEF StageAt, DoneTold, FailureTold, Begun
  <2>3. StageAt(p) = "error" => p >= 2
    BY <1>3, <2>1 DEF StageAt, DoneTold, FailureTold, Begun
  <2>4. StageAt(p) = "in progress" => p >= 1
    BY <1>3, <2>1 DEF StageAt, DoneTold, FailureTold, Begun
  <2>5. StageAt(p) \in Stages
    BY DEF StageAt, Stages
  <2>6. StageStart(StageAt(p)) \in Nat /\ StageStart(StageAt(p)) <= p
    <3>1. PICK s \in Stages : s = StageAt(p)  BY <2>5
    <3>2. PICK start : start = StageStart(s)  OBVIOUS
    <3>3. s = "done" => start = 4 /\ p >= 4
      BY <2>2, <3>1, <3>2 DEF StageStart, DoneTold
    <3>4. s = "error" => start = 2 /\ p >= 2
      BY <2>3, <3>1, <3>2 DEF StageStart, FailureTold
    <3>5. s = "in progress" => start = 1 /\ p >= 1
      BY <2>4, <3>1, <3>2 DEF StageStart, Begun
    <3>6. s = "not started" => start = 0
      BY <3>2 DEF StageStart
    <3>7. s = "done" \/ s = "error" \/ s = "in progress" \/ s = "not started"
      BY DEF Stages
    <3>8. start \in Nat /\ start <= p
      <4>1. p \in Nat  BY <2>1
      <4>2. CASE start = 4 /\ p >= 4  BY <4>1, <4>2
      <4>3. CASE start = 2 /\ p >= 2  BY <4>1, <4>3
      <4>4. CASE start = 1 /\ p >= 1  BY <4>1, <4>4
      <4>5. CASE start = 0  BY <4>1, <4>5
      <4> QED  BY Zenon, <3>3, <3>4, <3>5, <3>6, <3>7, <4>2, <4>3, <4>4, <4>5
    <3> QED  BY <3>1, <3>2, <3>8
  <2>7. \A a \in Nat : a <= p => a <= n  BY <1>1, <2>1
  <2> QED  BY <2>5, <2>6, <2>7
<1> QED  BY <1>2, <1>3

LEMMA PageStep == PageInv /\ [PageNext]_pageVars => PageInv'
<1> SUFFICES ASSUME PageInv, [PageNext]_pageVars PROVE PageInv'
  OBVIOUS
<1>1. /\ progress \in Progress /\ fails \in BOOLEAN
      /\ view \in [open : BOOLEAN, stage : Stages \cup {NoStage}]
      /\ detail \in Entry(Progress) /\ updates \in Entry(Progress)
  BY DEF PageInv, PageTypeOK
<1>2. progress \in Nat /\ Progress \subseteq Nat  BY <1>1, ProgressIsNumber
<1>3. PICK least \in Nat : least = StageStart(view.stage)  BY <1>1, StageStarts
<1>4. view.open => least <= progress /\ IsSince(detail, least)  BY <1>3 DEF PageInv
<1>5. IsUntil(updates, progress)  BY DEF PageInv
<1>6. CASE RunProceeds
  <2>1. /\ progress' \in Progress /\ progress <= progress'
        /\ UNCHANGED <<fails, view, detail, updates>>
    BY <1>1, <1>2, <1>6, ProgressIsNumber DEF RunProceeds, FilesSaved, Begun, ErrorsTold
  <2>2. PICK m \in Nat : m = progress'  BY <1>2, <2>1
  <2>3. updates.fetch \in Progress \cup {Idle, Sent} /\ updates.data \in Progress \cup {Unread}
    BY <1>1, EntryFields
  <2>4. \A a \in Nat : a <= progress => a <= m  BY <1>2, <2>1, <2>2
  <2>5. IsUntil(updates, m)  BY <1>2, <1>5, <2>3, <2>4 DEF IsUntil
  <2>6. view.open => least <= m  BY <1>4, <2>4
  <2>7. PageTypeOK'  BY <1>1, <2>1 DEF PageTypeOK
  <2>8. IsUntil(updates, progress)'  BY <2>1, <2>2, <2>5 DEF IsUntil
  <2> QED  BY <1>3, <1>4, <2>1, <2>2, <2>6, <2>7, <2>8 DEF PageInv, IsSince
<1>7. ASSUME progress' = progress, fails' = fails,
             view' \in [open : BOOLEAN, stage : Stages \cup {NoStage}],
             detail' \in Entry(Progress), updates' \in Entry(Progress),
             IsUntil(updates', progress),
             view'.open => StageStart(view'.stage) <= progress
                           /\ IsSince(detail', StageStart(view'.stage))
      PROVE  PageInv'
  BY <1>1, <1>7 DEF PageInv, PageTypeOK, IsUntil, IsSince
<1>8. CASE Preload
  <2>1. ~view.open /\ detail' = Fetching(detail) /\ UNCHANGED <<progress, fails, view, updates>>
    BY <1>8 DEF Preload
  <2>2. detail' \in Entry(Progress)  BY <1>1, <1>2, <2>1, FetchingIs
  <2> QED  BY <1>1, <1>5, <1>7, <2>1, <2>2
<1>9. CASE OpenPage \/ ClosePage
  <2>1. /\ \/ detail' = Mounted(detail) /\ updates' = Mounted(updates)
           \/ detail' = Unmounted(detail) /\ updates' = Unmounted(updates)
        /\ progress' = progress /\ fails' = fails
        /\ view' = [open |-> TRUE, stage |-> NoStage] \/ view' = [open |-> FALSE, stage |-> NoStage]
    BY <1>9 DEF OpenPage, ClosePage
  <2>2. view' \in [open : BOOLEAN, stage : Stages \cup {NoStage}] /\ view'.stage = NoStage
    <3>1. CASE view' = [open |-> TRUE, stage |-> NoStage]  BY <3>1
    <3>2. CASE view' = [open |-> FALSE, stage |-> NoStage]  BY <3>2
    <3> QED  BY <2>1, <3>1, <3>2
  <2>3. detail' \in Entry(Progress) /\ updates' \in Entry(Progress) /\ IsUntil(updates', progress)
    BY <1>1, <1>2, <1>5, <2>1, MountedKeeps
  <2>4. IsSince(detail, 0)
    <3>1. detail.fetch \in Nat \cup {Idle, Sent} /\ detail.data \in Nat \cup {Unread}
      BY <1>1, <1>2, EntryFields
    <3> QED  BY <3>1 DEF IsSince
  <2>5. IsSince(detail', 0)  BY <1>1, <1>2, <2>1, <2>4, MountedKeeps
  <2>6. StageStart(view'.stage) = 0  BY <2>2, StageStarts
  <2> QED  BY <1>2, <1>7, <2>1, <2>2, <2>3, <2>5, <2>6
<1>10. CASE StageEffect
  <2>1. /\ view.open /\ updates' = Invalidated(updates) /\ detail' = Invalidated(detail)
        /\ view' = [view EXCEPT !.stage = NewStage]
        /\ progress' = progress /\ fails' = fails
    BY <1>10 DEF StageEffect, InvalidateJobQueries
  <2>2. updates.data \in Progress \cup {Unread} /\ (updates.data # Unread => updates.data <= progress)
    BY <1>1, <1>5, EntryFields DEF IsUntil
  <2>3. NewStage \in Stages \cup {NoStage} /\ StageStart(NewStage) <= progress
    <3>1. StageAt(updates.data) \in Stages /\ StageStart(StageAt(updates.data)) <= progress
      BY <1>1, <2>2, StageOf
    <3>2. StageStart(NoStage) <= progress  BY <1>2, StageStarts
    <3> QED  BY <3>1, <3>2 DEF NewStage
  <2>4. PICK n \in Nat : n = StageStart(NewStage)  BY <2>3, StageStarts
  <2>5. view' \in [open : BOOLEAN, stage : Stages \cup {NoStage}] /\ view'.stage = NewStage
    BY <1>1, <2>1, <2>3
  <2>6. detail' \in Entry(Progress) /\ IsSince(detail', n)
    BY <1>1, <1>2, <2>1, InvalidatedIs
  <2>7. updates' \in Entry(Progress) /\ IsUntil(updates', progress)
    BY <1>1, <1>2, <1>5, <2>1, InvalidatedIs
  <2> QED  BY <1>7, <2>1, <2>3, <2>4, <2>5, <2>6, <2>7
<1>11. CASE Poll
  <2>1. updates' = Fetching(updates) /\ UNCHANGED <<progress, fails, view, detail>>
    BY <1>11 DEF Poll
  <2>2. updates' \in Entry(Progress) /\ IsUntil(updates', progress)
    BY <1>1, <1>2, <1>5, <2>1, FetchingIs, FetchingKeeps
  <2> QED  BY <1>1, <1>3, <1>4, <1>7, <2>1, <2>2
<1>12. CASE EntryMoves
  <2>1. progress' = progress /\ fails' = fails /\ view' = view  BY <1>12 DEF EntryMoves
  <2>2. CASE detail' \in Moves(detail, progress) /\ updates' = updates
    <3>1. PICK d \in Moves(detail, progress) : d = detail'  BY <2>2
    <3>2. d \in Entry(Progress) /\ (view.open => IsSince(d, least))
      BY <1>1, <1>2, <1>4, MovesKeep
    <3> QED  BY <1>1, <1>3, <1>4, <1>5, <1>7, <2>1, <2>2, <3>1, <3>2
  <2>3. CASE updates' \in Moves(updates, progress) /\ detail' = detail
    <3>1. PICK u \in Moves(updates, progress) : u = updates'  BY <2>3
    <3>2. progress <= progress  BY <1>2
    <3>3. u \in Entry(Progress) /\ IsUntil(u, progress)
      BY <1>1, <1>2, <1>5, <3>2, MovesKeep
    <3> QED  BY <1>1, <1>3, <1>4, <1>7, <2>1, <2>3, <3>1, <3>3
  <2> QED  BY <1>12, <2>2, <2>3 DEF EntryMoves
<1>13. CASE UNCHANGED pageVars
  BY <1>13 DEF pageVars, PageInv, PageTypeOK, IsUntil, IsSince
<1> QED
  BY <1>6, <1>8, <1>9, <1>10, <1>11, <1>12, <1>13 DEF PageNext

(* A job the page shows as up to date is one read no earlier than the      *)
(* stage the page shows began.                                              *)
LEMMA PageIsAsNewAlways == PageSpec => [](PageTypeOK /\ PageIsAsNewAsItsStage)
<1>1. PageInit => PageInv
  <2> SUFFICES ASSUME PageInit PROVE PageInv
    OBVIOUS
  <2>1. NewEntry \in Entry(Progress) /\ IsUntil(NewEntry, 0)
    BY NewEntryIs, ProgressIsNumber
  <2>2. 0 \in Progress  BY ProgressIsNumber DEF FilesSaved
  <2>3. view \in [open : BOOLEAN, stage : Stages \cup {NoStage}] /\ ~view.open
    BY DEF PageInit
  <2> QED  BY <2>1, <2>2, <2>3 DEF PageInit, PageInv, PageTypeOK
<1>2. PageInv /\ [PageNext]_pageVars => PageInv'
  BY PageStep
<1>3. PageInv => PageTypeOK /\ PageIsAsNewAsItsStage
  BY DEF PageInv, PageIsAsNewAsItsStage, Fresh, Outdated, IsSince
<1> QED
  BY <1>1, <1>2, <1>3, PTL DEF PageSpec

-----------------------------------------------------------------------------
(* Query cache.  What keeps a change from being hidden: for every query it *)
(* affects it has a key to invalidate, which the change passes before its  *)
(* last refetch is over.                                                    *)

Parts == {"jobs", "ods-configs", "list", "detail-5", "5", "notes", "school-year-config",
          "tenant", "partner-config"}
Keys == Seq(Parts)

LEMMA KeyTypes ==
  ASSUME NEW a \in Parts, NEW b \in Parts, NEW c \in Parts
  PROVE  <<a>> \in Keys /\ <<a, b>> \in Keys /\ <<a, b, c>> \in Keys /\ <<a>> \o <<b>> \in Keys
<1>1. <<a>> \in Seq(Parts) /\ <<b>> \in Seq(Parts)  OBVIOUS
<1>2. <<a>> \o <<b>> \in Seq(Parts)  BY <1>1, ConcatProperties
<1>3. <<a, b>> \in Seq(Parts) /\ <<a, b, c>> \in Seq(Parts)  OBVIOUS
<1> QED  BY <1>1, <1>2, <1>3 DEF Keys

LEMMA KeyIsPrefix ==
  /\ \A s \in Keys : IsPrefix(s, s)
  /\ \A a, b \in Parts : IsPrefix(<<a>>, <<a, b>>)
  /\ \A a, b \in Parts : IsPrefix(<<a>>, <<a>> \o <<b>>)
<1>1. ASSUME NEW s \in Keys PROVE IsPrefix(s, s)
  BY DEF IsPrefix, Keys
<1>2. ASSUME NEW s \in Seq(Parts), NEW t \in Seq(Parts), Len(s) = 1, Len(t) = 2, t[1] = s[1]
      PROVE  IsPrefix(s, t)
  <2>1. SubSeq(s, 1, 1) = SubSeq(t, 1, 1)  BY <1>2
  <2> QED  BY <1>2, <2>1 DEF IsPrefix
<1>3. ASSUME NEW a \in Parts, NEW b \in Parts
      PROVE  IsPrefix(<<a>>, <<a, b>>) /\ IsPrefix(<<a>>, <<a>> \o <<b>>)
  <2>1. PICK s : s = <<a>>  OBVIOUS
  <2>2. PICK q : q = <<b>>  OBVIOUS
  <2>3. PICK t : t = <<a, b>>  OBVIOUS
  <2>4. s \in Seq(Parts) /\ Len(s) = 1 /\ s[1] = a  BY <2>1
  <2>5. q \in Seq(Parts) /\ Len(q) = 1  BY <2>2
  <2>6. t \in Seq(Parts) /\ Len(t) = 2 /\ t[1] = a  BY <2>3
  <2>7. s \o q \in Seq(Parts) /\ Len(s \o q) = 2 /\ (s \o q)[1] = a
    <3>1. Len(s \o q) = Len(s) + Len(q)  BY <2>4, <2>5, ConcatProperties
    <3>2. s \o q \in Seq(Parts)  BY <2>4, <2>5, ConcatProperties
    <3>3. (s \o q)[1] = s[1]  BY <2>4, <2>5, ConcatProperties
    <3> QED  BY <2>4, <2>5, <3>1, <3>2, <3>3
  <2>8. IsPrefix(s, t)  BY <1>2, <2>4, <2>6
  <2>9. IsPrefix(s, s \o q)  BY <1>2, <2>4, <2>7
  <2> QED  BY <2>1, <2>2, <2>3, <2>8, <2>9
<1> QED  BY <1>1, <1>3

LEMMA KeysAre ==
  /\ {JobList, JobDetail, JobNotes, OdsList, OdsDetail, YearConfig, TenantYears, PartnerConfig}
       \subseteq Keys
  /\ PutStandard("ods-configs") \in Keys
  /\ PostStandard("jobs") = JobList
  /\ PostStandard("ods-configs") = OdsList /\ DeleteStandard("ods-configs") = OdsList
  /\ IsPrefix(PutStandard("ods-configs"), OdsList)
  /\ IsPrefix(PutStandard("ods-configs"), OdsDetail)
  /\ IsPrefix(YearConfig, TenantYears)
<1>1. <<"ods-configs">> \o <<>> = <<"ods-configs">>  OBVIOUS
<1>2. PutStandard("ods-configs") = <<"ods-configs">>
  BY <1>1 DEF PutStandard, QueryKeyNew, AnyId
<1>3. /\ PostStandard("jobs") = JobList
      /\ PostStandard("ods-configs") = OdsList /\ DeleteStandard("ods-configs") = OdsList
  BY DEF PostStandard, DeleteStandard, JobList, OdsList
<1>4. /\ "jobs" \in Parts /\ "ods-configs" \in Parts /\ "list" \in Parts /\ "detail-5" \in Parts
      /\ "5" \in Parts /\ "notes" \in Parts /\ "school-year-config" \in Parts
      /\ "tenant" \in Parts /\ "partner-config" \in Parts
  BY DEF Parts
<1>5. OdsList = <<"ods-configs">> \o <<"list">> /\ OdsDetail = <<"ods-configs">> \o <<"detail-5">>
  BY DEF OdsList, OdsDetail, QueryKeyNew, List, Detail
<1>6. JobList = <<"jobs">> \o <<"list">> /\ JobDetail = <<"jobs">> \o <<"detail-5">>
  BY DEF JobList, JobDetail, QueryKeyNew, List, Detail
<1>7. IsPrefix(<<"ods-configs">>, OdsList) /\ IsPrefix(<<"ods-configs">>, OdsDetail)
  BY <1>4, <1>5, KeyIsPrefix
<1>8. IsPrefix(YearConfig, TenantYears)
  BY <1>4, KeyIsPrefix DEF YearConfig, TenantYears
<1>9. JobList \in Keys /\ JobDetail \in Keys /\ OdsList \in Keys /\ OdsDetail \in Keys
  BY <1>4, <1>5, <1>6, KeyTypes
<1>10. <<"ods-configs">> \in Keys /\ JobNotes \in Keys
  BY <1>4, KeyTypes DEF JobNotes
<1>11. YearConfig \in Keys /\ TenantYears \in Keys /\ PartnerConfig \in Keys
  BY <1>4, KeyTypes DEF YearConfig, TenantYears, PartnerConfig
<1> QED  BY <1>2, <1>3, <1>7, <1>8, <1>9, <1>10, <1>11

LEMMA KindsAre ==
  Kinds = {"postJob", "startJob", "resolveJob", "note", "putOds", "postOds", "deleteOds",
           "testOds", "partnerConfig", "yearConfig"}
BY DEF Kinds, Affected

(* A change has a key for every query it affects.                           *)
LEMMA KeysCover ==
  ASSUME NEW k \in Kinds, NEW q \in Affected[k]
  PROVE  /\ KeysToInvalidate[k] \in Seq(Keys) /\ KeysToInvalidate[k] # <<>>
         /\ \E i \in 1 .. Len(KeysToInvalidate[k]) : IsPrefix(KeysToInvalidate[k][i], q)
<1>1. ASSUME NEW a \in Keys, NEW s, s = <<a>>, IsPrefix(a, q)
      PROVE  s \in Seq(Keys) /\ s # <<>> /\ \E i \in 1 .. Len(s) : IsPrefix(s[i], q)
  <2>1. s \in Seq(Keys) /\ Len(s) = 1 /\ s[1] = a  BY <1>1
  <2> QED  BY <1>1, <2>1
<1>2. ASSUME NEW a \in Keys, NEW b \in Keys, NEW s, s = <<a, b>>, IsPrefix(a, q) \/ IsPrefix(b, q)
      PROVE  s \in Seq(Keys) /\ s # <<>> /\ \E i \in 1 .. Len(s) : IsPrefix(s[i], q)
  <2>1. s \in Seq(Keys) /\ Len(s) = 2 /\ s[1] = a /\ s[2] = b  BY <1>2
  <2>2. 1 \in 1 .. Len(s) /\ 2 \in 1 .. Len(s)  BY <2>1
  <2> QED  BY <1>2, <2>1, <2>2
<1>3. PICK s : s = KeysToInvalidate[k]  OBVIOUS
<1>4. /\ JobList \in Keys /\ JobDetail \in Keys /\ JobNotes \in Keys /\ OdsList \in Keys
      /\ OdsDetail \in Keys /\ YearConfig \in Keys /\ TenantYears \in Keys
      /\ PartnerConfig \in Keys /\ PutStandard("ods-configs") \in Keys
  BY KeysAre
<1>5. CASE k = "postJob" \/ k = "startJob"
  <2>1. q = JobList /\ s = <<JobList>>
    BY <1>3, <1>5, KeysAre DEF Affected, KeysToInvalidate, JobsPage
  <2> QED  BY <1>1, <1>3, <1>4, <2>1, KeyIsPrefix
<1>6. CASE k = "resolveJob"
  <2>1. (q = JobList \/ q = JobDetail) /\ s = <<JobList, JobDetail>>
    BY <1>3, <1>6 DEF Affected, KeysToInvalidate, JobsPage, JobViewPage
  <2> QED  BY <1>2, <1>3, <1>4, <2>1, KeyIsPrefix
<1>7. CASE k = "note"
  <2>1. q = JobNotes /\ s = <<JobNotes>>
    BY <1>3, <1>7 DEF Affected, KeysToInvalidate, NotesOfJob
  <2> QED  BY <1>1, <1>3, <1>4, <2>1, KeyIsPrefix
<1>8. CASE k = "putOds"
  <2>1. q \in {OdsList, OdsDetail, TenantYears, YearConfig}
    BY <1>8 DEF Affected, OdsConfigsPage, OdsConfigConnectionEditForm, SchoolYearConfigSection
  <2>2. s = <<PutStandard("ods-configs"), YearConfig>>
    BY <1>3, <1>8 DEF KeysToInvalidate, InvalidateOnOdsWrite
  <2>3. IsPrefix(PutStandard("ods-configs"), q) \/ IsPrefix(YearConfig, q)
    BY <1>4, <2>1, KeysAre, KeyIsPrefix
  <2> QED  BY <1>2, <1>3, <1>4, <2>2, <2>3
<1>9. CASE k = "postOds" \/ k = "deleteOds"
  <2>1. q \in {OdsList, TenantYears, YearConfig}
    BY <1>9 DEF Affected, OdsConfigsPage, OdsConfigConnectionCreateForm, SchoolYearConfigSection
  <2>2. s = <<OdsList, YearConfig>>
    BY <1>3, <1>9, KeysAre DEF KeysToInvalidate, InvalidateOnOdsWrite
  <2>3. IsPrefix(OdsList, q) \/ IsPrefix(YearConfig, q)
    BY <1>4, <2>1, KeysAre, KeyIsPrefix
  <2> QED  BY <1>2, <1>3, <1>4, <2>2, <2>3
<1>10. CASE k = "testOds"
  <2>1. q = OdsList /\ s = <<OdsList>>
    BY <1>3, <1>10 DEF Affected, KeysToInvalidate
  <2> QED  BY <1>1, <1>3, <1>4, <2>1, KeyIsPrefix
<1>11. CASE k = "partnerConfig"
  <2>1. (q = PartnerConfig \/ q = TenantYears) /\ s = <<PartnerConfig, TenantYears>>
    BY <1>3, <1>11 DEF Affected, KeysToInvalidate, PartnerConfigSection, Nav
  <2> QED  BY <1>2, <1>3, <1>4, <2>1, KeyIsPrefix
<1>12. CASE k = "yearConfig"
  <2>1. (q = YearConfig \/ q = TenantYears) /\ s = <<YearConfig>>
    BY <1>3, <1>12 DEF Affected, KeysToInvalidate, SchoolYearConfigSection, Nav
  <2>2. IsPrefix(YearConfig, q)  BY <1>4, <2>1, KeysAre, KeyIsPrefix
  <2> QED  BY <1>1, <1>3, <1>4, <2>1, <2>2
<1> QED
  BY <1>5, <1>6, <1>7, <1>8, <1>9, <1>10, <1>11, <1>12, KindsAre

(* The user has been told of a change, and no key of it is left that names *)
(* the query.                                                               *)
Settled(w) ==
  /\ write[w].pc = "answered"
  /\ \A i \in DOMAIN write[w].todo : ~IsPrefix(write[w].todo[i], query)

WriteRecord ==
  [pc : {"new", "sent", "applied", "answered", "failed"}, version : QueryVersions, todo : Seq(Keys)]

QueryInv ==
  /\ kind \in Kinds /\ query \in Affected[kind]
  /\ cached \in Entry(QueryVersions) /\ version \in QueryVersions
  /\ write \in [Writes -> WriteRecord]
  /\ \A w \in Writes : write[w].version <= version
  /\ \A w \in Writes : Settled(w) => IsSince(cached, write[w].version)

LEMMA QueryVersionsAre ==
  QueryVersions \subseteq Nat /\ 0 \in QueryVersions /\ \A n \in QueryVersions : n <= MaxUpdates
BY QueryConstantsOK DEF QueryVersions

LEMMA QueryStep == QueryInv /\ [QueryNext]_queryVars => QueryInv'
<1> SUFFICES ASSUME QueryInv, [QueryNext]_queryVars PROVE QueryInv'
  OBVIOUS
<1>1. /\ kind \in Kinds /\ query \in Affected[kind]
      /\ cached \in Entry(QueryVersions) /\ version \in QueryVersions
      /\ write \in [Writes -> WriteRecord]
      /\ \A w \in Writes : write[w] \in WriteRecord /\ write[w].version \in QueryVersions
                           /\ write[w].todo \in Seq(Keys)
  BY DEF QueryInv, WriteRecord
<1>2. QueryVersions \subseteq Nat /\ version \in Nat  BY <1>1, QueryVersionsAre
<1>3. \A w \in Writes : write[w].version \in Nat /\ write[w].version <= version
  BY <1>1, <1>2 DEF QueryInv
\* A step of the entry alone that hides nothing.
<1>4. ASSUME UNCHANGED <<kind, query, version, write>>,
             cached' \in Entry(QueryVersions),
             \A n \in Nat : IsSince(cached, n) /\ n <= version => IsSince(cached', n)
      PROVE  QueryInv'
  <2>1. ASSUME NEW w \in Writes, Settled(w)' PROVE IsSince(cached', write[w].version)
    <3>1. Settled(w)  BY <1>4, <2>1 DEF Settled
    <3>2. IsSince(cached, write[w].version)  BY <3>1 DEF QueryInv
    <3> QED  BY <1>3, <1>4, <3>2
  <2> QED  BY <1>1, <1>3, <1>4, <2>1 DEF QueryInv, IsSince
\* A step of a change that does not settle it.
<1>5. ASSUME NEW w \in Writes, NEW x \in WriteRecord, write' = [write EXCEPT ![w] = x],
             UNCHANGED <<kind, query, cached>>, version' \in QueryVersions, version <= version',
             x.version <= version',
             x.pc # "answered"
      PROVE  QueryInv'
  <2>1. write' \in [Writes -> WriteRecord] /\ write'[w] = x
        /\ \A d \in Writes \ {w} : write'[d] = write[d]
    BY <1>1, <1>5
  <2>2. PICK m \in Nat : m = version'  BY <1>2, <1>5
  <2>3. \A n \in Nat : n <= version => n <= m  BY <1>2, <1>5, <2>2
  <2>4. ASSUME NEW d \in Writes PROVE write'[d].version <= m
    BY <1>3, <1>5, <2>1, <2>2, <2>3
  <2>5. ASSUME NEW d \in Writes, Settled(d)' PROVE IsSince(cached, write'[d].version)
    <3>1. d # w  BY <1>5, <2>1, <2>5 DEF Settled
    <3>2. Settled(d) /\ write'[d] = write[d]  BY <1>5, <2>1, <2>5, <3>1 DEF Settled
    <3> QED  BY <3>2 DEF QueryInv
  <2> QED  BY <1>1, <1>5, <2>1, <2>2, <2>4, <2>5 DEF QueryInv, IsSince
\* Keys of a change are invalidated, and others are left.
<1>6. ASSUME NEW w \in Writes, NEW x \in WriteRecord, write' = [write EXCEPT ![w] = x],
             NEW keys, Invalidate(keys), UNCHANGED <<kind, query, version>>,
             x.version = write[w].version,
             \/ \E key \in keys : IsPrefix(key, query)
             \/ \E i \in DOMAIN x.todo : IsPrefix(x.todo[i], query)
             \/ Settled(w) \/ x.pc # "answered"
      PROVE  QueryInv'
  <2>1. write' \in [Writes -> WriteRecord] /\ write'[w] = x
        /\ \A d \in Writes \ {w} : write'[d] = write[d]
    BY <1>1, <1>6
  <2>2. ASSUME NEW d \in Writes PROVE write'[d].version <= version
    BY <1>3, <1>6, <2>1, <2>2
  <2>3. CASE \E key \in keys : IsPrefix(key, query)
    <3>1. cached' = Invalidated(cached)  BY <1>6, <2>3 DEF Invalidate
    <3>2. cached' \in Entry(QueryVersions) /\ \A n \in Nat : IsSince(cached', n)
      BY <1>1, <1>2, <3>1, InvalidatedIs
    <3>3. \A d \in Writes : write'[d].version \in Nat
      BY <1>2, <2>1 DEF WriteRecord
    <3> QED  BY <1>1, <1>6, <2>1, <2>2, <3>2, <3>3 DEF QueryInv, IsSince
  <2>4. CASE ~\E key \in keys : IsPrefix(key, query)
    <3>1. cached' = cached  BY <1>6, <2>4 DEF Invalidate
    <3>2. ASSUME NEW d \in Writes, Settled(d)' PROVE IsSince(cached, write'[d].version)
      <4>1. CASE d = w
        <5>1. \A i \in DOMAIN x.todo : ~IsPrefix(x.todo[i], query)
          BY <1>6, <2>1, <3>2, <4>1 DEF Settled
        <5>2. x.pc = "answered"  BY <2>1, <3>2, <4>1 DEF Settled
        <5>3. Settled(w)  BY <1>6, <2>4, <5>1, <5>2
        <5> QED  BY <1>6, <2>1, <4>1, <5>3 DEF QueryInv
      <4>2. CASE d # w
        <5>1. Settled(d) /\ write'[d] = write[d]  BY <1>6, <2>1, <3>2, <4>2 DEF Settled
        <5> QED  BY <5>1 DEF QueryInv
      <4> QED  BY <4>1, <4>2
    <3> QED  BY <1>1, <1>6, <2>1, <2>2, <3>1, <3>2 DEF QueryInv, IsSince
  <2> QED  BY <2>3, <2>4
<1>7. CASE Open \/ Close
  <2>1. UNCHANGED <<kind, query, version, write>>
        /\ (cached' = Mounted(cached) \/ cached' = Unmounted(cached))
    BY <1>7 DEF Open, Close
  <2>2. cached' \in Entry(QueryVersions) /\ \A n \in Nat : IsSince(cached, n) => IsSince(cached', n)
    BY <1>1, <1>2, <2>1, MountedKeeps
  <2> QED  BY <1>4, <2>1, <2>2
<1>8. CASE Move
  <2>1. UNCHANGED <<kind, query, version, write>>  BY <1>8 DEF Move
  <2>2. PICK f \in Moves(cached, version) : f = cached'  BY <1>8 DEF Move
  <2>3. f \in Entry(QueryVersions)
        /\ \A n \in Nat : IsSince(cached, n) /\ n <= version => IsSince(f, n)
    BY <1>1, <1>2, MovesKeep
  <2> QED  BY <1>4, <2>1, <2>2, <2>3
<1>9. ASSUME NEW w \in Writes, Mutate(w) PROVE QueryInv'
  <2>1. PICK x : x = [write[w] EXCEPT !.pc = "sent"]  OBVIOUS
  <2>2. x \in WriteRecord /\ x.version = write[w].version /\ x.pc = "sent"
    BY <1>1, <2>1 DEF WriteRecord
  <2>3. write' = [write EXCEPT ![w] = x] /\ UNCHANGED <<kind, query, cached, version>>
    BY <1>9, <2>1 DEF Mutate
  <2>4. version' \in QueryVersions /\ version <= version' /\ x.version <= version'
    BY <1>1, <1>2, <1>3, <2>2, <2>3
  <2>5. x.pc # "answered"  BY <2>2
  <2> QED  BY <1>5, <2>2, <2>3, <2>4, <2>5
<1>10. ASSUME NEW w \in Writes, MutationFails(w) PROVE QueryInv'
  <2>1. PICK x : x = [write[w] EXCEPT !.pc = "failed"]  OBVIOUS
  <2>2. x \in WriteRecord /\ x.version = write[w].version /\ x.pc = "failed"
    BY <1>1, <2>1 DEF WriteRecord
  <2>3. write' = [write EXCEPT ![w] = x] /\ UNCHANGED <<kind, query, cached, version>>
    BY <1>10, <2>1 DEF MutationFails
  <2>4. version' \in QueryVersions /\ version <= version' /\ x.version <= version'
    BY <1>1, <1>2, <1>3, <2>2, <2>3
  <2>5. x.pc # "answered"  BY <2>2
  <2> QED  BY <1>5, <2>2, <2>3, <2>4, <2>5
<1>11. ASSUME version < MaxUpdates, version' = version + 1
       PROVE  version' \in QueryVersions /\ version <= version' /\ version' <= version'
  BY <1>2, <1>11, QueryConstantsOK DEF QueryVersions
<1>12. ASSUME NEW w \in Writes, Apply(w) PROVE QueryInv'
  <2>1. PICK y : y = [write[w] EXCEPT !.pc = "applied"]  OBVIOUS
  <2>2. PICK x : x = [y EXCEPT !.version = version + 1]  OBVIOUS
  <2>3. version' = version + 1 /\ version < MaxUpdates /\ UNCHANGED <<kind, query, cached>>
        /\ write' = [write EXCEPT ![w].pc = "applied", ![w].version = version + 1]
    BY <1>12 DEF Apply
  <2>4. write' = [write EXCEPT ![w] = x]  BY <1>1, <2>1, <2>2, <2>3
  <2>5. version' \in QueryVersions /\ version <= version' /\ version' <= version'
    BY <1>11, <2>3
  <2>6. y \in WriteRecord /\ y.pc = "applied"  BY <1>1, <2>1 DEF WriteRecord
  <2>7. x \in WriteRecord /\ x.pc = "applied" /\ x.version = version'
    BY <2>2, <2>3, <2>5, <2>6 DEF WriteRecord
  <2> QED  BY <1>5, <2>3, <2>4, <2>5, <2>7
<1>13. ASSUME NEW w \in Writes, MutationSucceeds(w) PROVE QueryInv'
  <2>1. PICK keys : keys = KeysToInvalidate[kind]  OBVIOUS
  <2>2. keys \in Seq(Keys) /\ keys # <<>>
        /\ \E i \in 1 .. Len(keys) : IsPrefix(keys[i], query)
    BY <1>1, <2>1, KeysCover
  <2>3. PICK first : first = IF kind \in Awaits THEN 1 ELSE Len(keys)  OBVIOUS
  <2>4. PICK rest : rest = SubSeq(keys, first + 1, Len(keys))  OBVIOUS
  <2>5. PICK early : early = {keys[i] : i \in 1 .. first}  OBVIOUS
  <2>6. /\ Invalidate(early) /\ UNCHANGED <<kind, query, version>>
        /\ write' = [write EXCEPT ![w].pc = "answered", ![w].todo = rest]
    BY <1>13, <2>1, <2>3, <2>4, <2>5 DEF MutationSucceeds
  <2>7. Len(keys) \in Nat /\ Len(keys) >= 1 /\ first \in 1 .. Len(keys)
    BY <2>2, <2>3
  <2>8. rest \in Seq(Keys) /\ Len(rest) = Len(keys) - first
        /\ \A i \in 1 .. Len(keys) - first : rest[i] = keys[first + i]
    BY <2>2, <2>4, <2>7
  <2>9. PICK y : y = [write[w] EXCEPT !.pc = "answered"]  OBVIOUS
  <2>10. PICK x : x = [y EXCEPT !.todo = rest]  OBVIOUS
  <2>11. write' = [write EXCEPT ![w] = x]  BY <1>1, <2>6, <2>9, <2>10
  <2>12. y \in WriteRecord /\ y.version = write[w].version  BY <1>1, <2>9 DEF WriteRecord
  <2>13. x \in WriteRecord /\ x.version = write[w].version /\ x.todo = rest
    BY <2>8, <2>10, <2>12 DEF WriteRecord
  <2>14. \/ \E key \in early : IsPrefix(key, query)
         \/ \E i \in DOMAIN rest : IsPrefix(rest[i], query)
    <3>1. PICK i \in 1 .. Len(keys) : IsPrefix(keys[i], query)  BY <2>2
    <3>2. CASE i <= first
      <4>1. keys[i] \in early  BY <2>5, <2>7, <3>2
      <4> QED  BY <3>1, <4>1
    <3>3. CASE first < i
      <4>1. i - first \in 1 .. Len(keys) - first /\ first + (i - first) = i
        BY <2>7, <3>3
      <4>2. rest[i - first] = keys[i] /\ i - first \in DOMAIN rest  BY <2>8, <4>1
      <4> QED  BY <3>1, <4>2
    <3> QED  BY <2>7, <3>2, <3>3
  <2> QED  BY <1>6, <2>6, <2>11, <2>13, <2>14
<1>14. ASSUME NEW w \in Writes, InvalidateNext(w) PROVE QueryInv'
  <2>1. PICK todo : todo = write[w].todo  OBVIOUS
  <2>2. todo \in Seq(Keys) /\ todo # <<>>  BY <1>1, <1>14, <2>1 DEF InvalidateNext
  <2>3. PICK x : x = [write[w] EXCEPT !.todo = Tail(todo)]  OBVIOUS
  <2>4. /\ Invalidate({Head(todo)}) /\ UNCHANGED <<kind, query, version>>
        /\ write' = [write EXCEPT ![w] = x]
    BY <1>14, <2>1, <2>3 DEF InvalidateNext
  <2>5. Tail(todo) \in Seq(Keys) /\ Len(Tail(todo)) = Len(todo) - 1
        /\ \A i \in 1 .. Len(Tail(todo)) : Tail(todo)[i] = todo[i + 1]
    BY <2>2, HeadTailProperties
  <2>6. x \in WriteRecord /\ x.version = write[w].version /\ x.todo = Tail(todo)
        /\ x.pc = write[w].pc
    BY <1>1, <2>3, <2>5 DEF WriteRecord
  <2>7. \/ IsPrefix(Head(todo), query)
        \/ \E i \in DOMAIN x.todo : IsPrefix(x.todo[i], query)
        \/ \A i \in DOMAIN todo : ~IsPrefix(todo[i], query)
    <3>1. ASSUME NEW i \in DOMAIN todo, IsPrefix(todo[i], query)
          PROVE  \/ IsPrefix(Head(todo), query)
                 \/ \E j \in DOMAIN x.todo : IsPrefix(x.todo[j], query)
      <4>1. Len(todo) \in Nat /\ i \in 1 .. Len(todo)  BY <2>2
      <4>2. CASE i = 1  BY <2>2, <3>1, <4>2
      <4>3. CASE i # 1
        <5>1. i - 1 \in 1 .. Len(Tail(todo)) /\ (i - 1) + 1 = i  BY <2>5, <4>1, <4>3
        <5>2. Tail(todo)[i - 1] = todo[i] /\ i - 1 \in DOMAIN Tail(todo)  BY <2>5, <5>1
        <5> QED  BY <2>6, <3>1, <5>2
      <4> QED  BY <4>2, <4>3
    <3> QED  BY <3>1
  <2>8. \/ \E key \in {Head(todo)} : IsPrefix(key, query)
        \/ \E i \in DOMAIN x.todo : IsPrefix(x.todo[i], query)
        \/ Settled(w) \/ x.pc # "answered"
    BY <2>1, <2>6, <2>7 DEF Settled
  <2> QED  BY <1>6, <2>4, <2>6, <2>8
<1>15. CASE OthersChange
  <2>1. version' = version + 1 /\ version < MaxUpdates /\ UNCHANGED <<kind, query, cached, write>>
    BY <1>15 DEF OthersChange
  <2>2. PICK m \in QueryVersions : m = version' /\ version <= m  BY <1>11, <2>1
  <2>3. \A n \in Nat : n <= version => n <= m  BY <1>2, <2>2
  <2>4. \A w \in Writes : write[w].version <= m  BY <1>3, <2>3
  <2>5. \A w \in Writes : Settled(w)' => Settled(w)  BY <2>1 DEF Settled
  <2> QED  BY <1>1, <2>1, <2>2, <2>4, <2>5 DEF QueryInv, IsSince
<1>16. CASE UNCHANGED queryVars
  BY <1>16 DEF queryVars, QueryInv, Settled, IsSince
<1> QED
  BY <1>7, <1>8, <1>9, <1>10, <1>12, <1>13, <1>14, <1>15, <1>16 DEF QueryNext

(* What a page shows as up to date has the user's own acknowledged changes, *)
(* but for an answer that an invalidation overtook and for keys still to    *)
(* invalidate.                                                              *)
LEMMA OwnChangesAreShownAlways == QuerySpec => [](QueryTypeOK /\ OwnChangesAreShown)
<1>1. QueryInit => QueryInv
  <2> SUFFICES ASSUME QueryInit PROVE QueryInv
    OBVIOUS
  <2>1. PICK x : x = [pc |-> "new", version |-> 0, todo |-> <<>>]  OBVIOUS
  <2>2. x \in WriteRecord /\ x.version = 0 /\ x.pc = "new"
    BY <2>1, QueryVersionsAre DEF WriteRecord
  <2>3. write = [w \in Writes |-> x]  BY <2>1 DEF QueryInit
  <2>4. NewEntry \in Entry(QueryVersions)  BY NewEntryIs, QueryVersionsAre
  <2>5. \A w \in Writes : ~Settled(w)  BY <2>2, <2>3 DEF Settled
  <2> QED  BY <2>2, <2>3, <2>4, <2>5, QueryVersionsAre DEF QueryInit, QueryInv
<1>2. QueryInv /\ [QueryNext]_queryVars => QueryInv'
  BY QueryStep
<1>3. QueryInv => OwnChangesAreShown
  BY DEF QueryInv, OwnChangesAreShown, Fresh, Outdated, IsSince, Settled
<1>4. QueryInv => QueryTypeOK
  BY DEF QueryInv, QueryTypeOK, WriteRecord
<1> QED
  BY <1>1, <1>2, <1>3, <1>4, PTL DEF QuerySpec

(* What pages show as up to date is.                                        *)
THEOREM PagesAreFreshAlways == MCSpec => []PagesAreFresh
<1>1. PageIsAsNewAsItsStage /\ OwnChangesAreShown => PagesAreFresh
  BY DEF PagesAreFresh
<1> QED
  BY <1>1, PartsAreApart, PageIsAsNewAlways, OwnChangesAreShownAlways, PTL

-----------------------------------------------------------------------------
(* Column filters.                                                          *)

FilterInv == FilterTypeOK /\ HiddenBoundsAreMissing

LEMMA FilterStep == FilterInv /\ [FilterNext]_filterVars => FilterInv'
<1> SUFFICES ASSUME FilterInv, [FilterNext]_filterVars PROVE FilterInv'
  OBVIOUS
<1>1. /\ column \in {"date", "number", "duration"}
      /\ columnFilter \in Filters \cup {Undefined}
      /\ dialog \in Dialog \cup {NoDialog}
  BY DEF FilterInv, FilterTypeOK, Input
<1>2. HiddenBoundsAreMissing  BY DEF FilterInv
\* What a dialog has to have for its type.
<1>3. ASSUME NEW d \in Dialog, dialog' = d,
             d.type = "less" => d.filter[1] \in Missing \cup {0},
             d.type = "more" => d.filter[2] \in Missing \cup {0},
             column' = column, columnFilter' = columnFilter
      PROVE  FilterInv'
  BY <1>1, <1>3 DEF FilterInv, FilterTypeOK, HiddenBoundsAreMissing, Input
<1>4. dialog # NoDialog => dialog \in Dialog /\ dialog.type \in Types /\ dialog.filter \in Filters
  BY <1>1 DEF Dialog
<1>5. ASSUME NEW of \in {"new", "existing"},
             dialog' = NewDialog(of), column' = column, columnFilter' = columnFilter
      PROVE  FilterInv'
  <2>1. PICK f : f = Initial  OBVIOUS
  <2>2. f \in Filters  BY <1>1, <2>1 DEF Initial, Filters, Values
  <2>3. PICK t : t = TypeOf(f)  OBVIOUS
  <2>4. /\ t \in Types
        /\ t = "less" => ~Truthy(f[1])
        /\ t = "more" => ~Truthy(f[2])
    BY <2>3 DEF TypeOf, Types
  <2>5. PICK d : d = [of |-> of, type |-> t, filter |-> f]  OBVIOUS
  <2>6. d \in Dialog /\ d.type = t /\ d.filter = f  BY <2>2, <2>4, <2>5 DEF Dialog
  <2>7. dialog' = d  BY <1>5, <2>1, <2>3, <2>5 DEF NewDialog
  <2> QED  BY <1>3, <1>5, <2>4, <2>6, <2>7 DEF Truthy
<1>6. CASE OpenNew \/ OpenExisting
  BY <1>5, <1>6 DEF OpenNew, OpenExisting
<1>7. ASSUME NEW t \in Types, RadioOnChange(t) PROVE FilterInv'
  <2>1. dialog \in Dialog /\ dialog.type \in Types /\ dialog.filter \in Filters
    BY <1>4, <1>7 DEF RadioOnChange
  <2>2. PICK f : f = FilterFor(t)  OBVIOUS
  <2>3. PICK a \in Values, b \in Values : dialog.filter = <<a, b>>  BY <2>1 DEF Filters
  <2>4. \/ f = dialog.filter /\ (t = dialog.type \/ t = "between")
        \/ f = <<Undefined, b>> /\ t = "less"
        \/ f = <<a, Undefined>> /\ t = "more"
        \/ f = <<Undefined, Undefined>>
    BY <1>7, <2>1, <2>2, <2>3 DEF FilterFor, Types
  <2>5. f \in Filters  BY <2>1, <2>3, <2>4 DEF Filters, Values
  <2>6. /\ t = "less" => f[1] \in Missing \cup {0}
        /\ t = "more" => f[2] \in Missing \cup {0}
    <3>1. CASE f = dialog.filter /\ t = dialog.type
      BY <1>2, <1>7, <3>1 DEF HiddenBoundsAreMissing, RadioOnChange
    <3>2. CASE f # dialog.filter \/ t # dialog.type
      BY <2>4, <3>2 DEF Missing
    <3> QED  BY <3>1, <3>2
  <2>7. PICK y : y = [dialog EXCEPT !.type = t]  OBVIOUS
  <2>8. PICK d : d = [y EXCEPT !.filter = f]  OBVIOUS
  <2>9. y \in Dialog /\ y.type = t  BY <2>1, <2>7 DEF Dialog
  <2>10. d \in Dialog /\ d.type = t /\ d.filter = f  BY <2>5, <2>8, <2>9 DEF Dialog
  <2>11. dialog' = d /\ column' = column /\ columnFilter' = columnFilter
    BY <1>7, <2>2, <2>7, <2>8 DEF RadioOnChange
  <2> QED  BY <1>3, <2>6, <2>10, <2>11
<1>8. ASSUME NEW i \in {1, 2}, NEW v \in Input[column], Enter(i, v) PROVE FilterInv'
  <2>1. dialog \in Dialog /\ dialog.type \in Types /\ dialog.filter \in Filters
    BY <1>4, <1>8 DEF Enter
  <2>2. v \in Values
    BY <1>1 DEF Input, DateInput, NumberInput, DurationInput, Values
  <2>3. PICK a \in Values, b \in Values : dialog.filter = <<a, b>>  BY <2>1 DEF Filters
  <2>4. PICK f : f = [dialog.filter EXCEPT ![i] = v]  OBVIOUS
  <2>5. (i = 1 /\ f = <<v, b>>) \/ (i = 2 /\ f = <<a, v>>)  BY <2>3, <2>4
  <2>6. f \in Filters  BY <2>2, <2>5 DEF Filters
  <2>7. PICK d : d = [dialog EXCEPT !.filter = f]  OBVIOUS
  <2>8. d \in Dialog /\ d.type = dialog.type /\ d.filter = f  BY <2>1, <2>6, <2>7 DEF Dialog
  <2>9. dialog' = d /\ column' = column /\ columnFilter' = columnFilter
    BY <1>8, <2>4, <2>7 DEF Enter
  <2>10. /\ dialog.type = "less" => i = 2 /\ f[1] = dialog.filter[1]
         /\ dialog.type = "more" => i = 1 /\ f[2] = dialog.filter[2]
    BY <1>8, <2>3, <2>5 DEF Enter
  <2> QED  BY <1>2, <1>3, <1>8, <2>8, <2>9, <2>10 DEF HiddenBoundsAreMissing, Enter
<1>9. ASSUME dialog' = dialog \/ dialog' = NoDialog, column' = column,
             columnFilter' \in Filters \cup {Undefined}
      PROVE  FilterInv'
  BY <1>1, <1>2, <1>9 DEF FilterInv, FilterTypeOK, HiddenBoundsAreMissing, Input
<1>10. CASE CancelFilter \/ RemoveFilter
  BY <1>1, <1>9, <1>10 DEF CancelFilter, RemoveFilter
<1>11. CASE ApplyFilter
  <2>1. dialog.filter \in Filters  BY <1>4, <1>11 DEF ApplyFilter
  <2>2. PICK a \in Values, b \in Values : dialog.filter = <<a, b>>  BY <2>1 DEF Filters
  <2>3. Written(a) \in Values /\ Written(b) \in Values  BY DEF Written, Values
  <2>4. columnFilter' \in Filters  BY <1>11, <2>2, <2>3 DEF ApplyFilter, Filters
  <2> QED  BY <1>9, <1>11, <2>4 DEF ApplyFilter
<1>12. CASE UNCHANGED filterVars
  BY <1>1, <1>9, <1>12 DEF filterVars
<1> QED
  BY <1>6, <1>7, <1>8, <1>10, <1>11, <1>12 DEF FilterNext

(* Applying the dialog filters by what it shows.                            *)
LEMMA HiddenBoundsAlways == FilterSpec => [](FilterTypeOK /\ HiddenBoundsAreMissing)
<1>1. FilterInit => FilterInv
  BY DEF FilterInit, FilterInv, FilterTypeOK, HiddenBoundsAreMissing
<1>2. FilterInv /\ [FilterNext]_filterVars => FilterInv'
  BY FilterStep
<1> QED
  BY <1>1, <1>2, PTL DEF FilterSpec, FilterInv

-----------------------------------------------------------------------------
(* Tables.  The copy has the changes that no rendering has outrun, and the *)
(* search box, once its timer has run, has the address's search and the    *)
(* copy's unless it differs from the rendered one, which makes the next    *)
(* rendering give it to the box.                                            *)

SearchIsInBox(params) ==
  ~box.due /\ "search" \notin outrun /\ params.search = shown.search
    => box.text = params.search

CopyHasChanges == \A k \in TableParams \ outrun : draft[k] = wanted[k]

TableInv ==
  /\ TableTypeOK
  /\ CopyHasChanges
  /\ TablesKeepTheirState
  /\ SearchIsInBox(url) /\ SearchIsInBox(draft)

LEMMA Quotients ==
  \A a \in Nat, b \in Nat \ {0} : a \div b \in Nat
OBVIOUS

LEMMA PageCounts ==
  ASSUME NEW rows \in 0 .. MaxRows, NEW size \in PageSizes
  PROVE  PageCount(rows, size) \in Nat
<1>1. size \in Nat \ {0} /\ rows \in Nat
  <2>1. PageSizes \subseteq Nat \ {0}  BY TableConstantsOK
  <2>2. MaxRows \in Nat  BY TableConstantsOK
  <2> QED  BY <2>1, <2>2
<1>2. rows + size - 1 \in Nat  BY <1>1
<1> QED  BY <1>1, <1>2, Quotients DEF PageCount

LEMMA DefaultSizeIs == DefaultSize \in PageSizes
<1>1. \E s \in PageSizes : \A t \in PageSizes : s <= t
  <2>1. PageSizes \subseteq Nat /\ PageSizes # {}  BY TableConstantsOK
  <2>2. PICK s \in PageSizes : \A t \in PageSizes : ~(<<t, s>> \in OpToRel(<, Nat))
    BY <2>1, NatLessThanWellFounded, WFMin
  <2>3. \A t \in PageSizes : ~(t < s)  BY <2>1, <2>2 DEF OpToRel
  <2>4. \A x, y \in Nat : ~(y < x) => x <= y  OBVIOUS
  <2> QED  BY <2>1, <2>3, <2>4
<1> QED  BY <1>1 DEF DefaultSize

LEMMA ParamsFields ==
  ASSUME NEW V, NEW p \in Params(V)
  PROVE  /\ p.sort \in Sorts /\ p.search \in Texts /\ p.filters \in FilterSets \cup {"none"}
         /\ p.pagination.size \in PageSizes /\ p.pagination.index \in V
         /\ p.pagination \in [size : PageSizes, index : V]
BY DEF Params

(* A page that is there stays, and another gives way to one that is there;  *)
(* nothing else changes.                                                    *)
LEMMA ClampedIs ==
  ASSUME NEW p \in Params(Nat), NEW rows \in 0 .. MaxRows
  PROVE  /\ Clamped(p, rows) \in Params(Nat)
         /\ \A k \in TableParams \ {"pagination"} : Clamped(p, rows)[k] = p[k]
         /\ Clamped(p, rows) = p => \/ p.pagination.index = 0
                                    \/ p.pagination.index < PageCount(rows, p.pagination.size)
<1>1. PICK pages \in Nat : pages = PageCount(rows, p.pagination.size)
  BY ParamsFields, PageCounts
<1>2. PICK index \in Nat : index = p.pagination.index  BY ParamsFields
<1>3. CASE index >= pages
  <2>1. PICK new \in Nat : new = IF pages = 0 THEN 0 ELSE pages - 1  OBVIOUS
  <2>2. PICK g : g = [p.pagination EXCEPT !.index = new]  OBVIOUS
  <2>3. PICK q : q = [p EXCEPT !.pagination = g]  OBVIOUS
  <2>4. g \in [size : PageSizes, index : Nat] /\ g.index = new  BY <2>2, ParamsFields
  <2>5. /\ q \in Params(Nat) /\ q.pagination = g
        /\ \A k \in TableParams \ {"pagination"} : q[k] = p[k]
    BY <2>3, <2>4 DEF Params, TableParams
  <2>6. Clamped(p, rows) = [p EXCEPT !.pagination.index = IF pages = 0 THEN 0 ELSE pages - 1]
    BY <1>1, <1>2, <1>3 DEF Clamped
  <2>7. Clamped(p, rows) = q  BY <2>1, <2>2, <2>3, <2>6
  <2>8. q = p => index = 0
    <3>1. q = p => new = index  BY <1>2, <2>4, <2>5
    <3>2. new = index => index = 0  BY <1>3, <2>1
    <3> QED  BY <3>1, <3>2
  <2> QED  BY <1>2, <2>5, <2>7, <2>8
<1>4. CASE ~(index >= pages)
  <2>1. Clamped(p, rows) = p  BY <1>1, <1>2, <1>4 DEF Clamped
  <2> QED  BY <1>1, <1>2, <1>4, <2>1
<1> QED  BY <1>3, <1>4

LEMMA ParamsTypes ==
  ASSUME TableTypeOK
  PROVE  /\ url \in Params(Nat) /\ shown \in Params(Nat) /\ draft \in Params(Nat)
         /\ wanted \in Params(Nat)
         /\ count \in 0 .. MaxRows /\ box \in [text : Texts, due : BOOLEAN]
         /\ outrun \subseteq TableParams
BY DEF TableTypeOK

(* A change to the copy of the rendering.                                   *)
LEMMA ChangeStep ==
  ASSUME TableInv, NEW param \in TableParams, NEW x,
         [draft EXCEPT ![param] = x] \in Params(Nat),
         [wanted EXCEPT ![param] = x] \in Params(Nat),
         SetSearchParams(param, x),
         box' \in [text : Texts, due : BOOLEAN],
         \/ param # "search" /\ box' = box
         \/ param = "search" /\ x = box.text /\ box'.text = box.text
         \/ param = "search" /\ box' = box /\ x # shown.search
  PROVE  TableInv'
<1>1. /\ url \in Params(Nat) /\ shown \in Params(Nat) /\ draft \in Params(Nat)
      /\ wanted \in Params(Nat) /\ outrun \subseteq TableParams
      /\ count \in 0 .. MaxRows /\ box \in [text : Texts, due : BOOLEAN]
      /\ CopyHasChanges /\ ChangesAreKept /\ PageExists /\ BoxHasTheSearch
      /\ SearchIsInBox(url) /\ SearchIsInBox(draft)
  BY ParamsTypes DEF TableInv, TablesKeepTheirState
<1>2. PICK new : new = [draft EXCEPT ![param] = x]  OBVIOUS
<1>3. /\ draft' = new /\ shown' = shown /\ count' = count
      /\ url' = IF new = shown THEN url ELSE new
      /\ wanted' = [wanted EXCEPT ![param] = x] /\ outrun' = outrun \ {param}
  BY <1>1, <1>2 DEF SetSearchParams, Changed
<1>4. new \in Params(Nat) /\ new.search = IF param = "search" THEN x ELSE draft.search
  BY <1>1, <1>2 DEF Params, TableParams
<1>5. TableTypeOK'
  <2>1. url' \in Params(Nat)  BY <1>1, <1>3, <1>4
  <2>2. wanted' \in Params(Nat)  BY <1>3
  <2> QED  BY <1>1, <1>3, <1>4, <2>1, <2>2 DEF TableTypeOK
<1>6. \A k \in TableParams : /\ new[k] = IF k = param THEN x ELSE draft[k]
                       /\ wanted'[k] = IF k = param THEN x ELSE wanted[k]
  BY <1>1, <1>2, <1>3 DEF Params, TableParams
<1>7. \A k \in TableParams \ outrun' : new[k] = wanted'[k]
  <2> SUFFICES ASSUME NEW k \in TableParams \ outrun' PROVE new[k] = wanted'[k]
    OBVIOUS
  <2>1. CASE k = param  BY <1>6, <2>1
  <2>2. CASE k # param
    <3>1. k \in TableParams \ outrun  BY <1>3, <2>2
    <3> QED  BY <1>1, <1>6, <2>2, <3>1 DEF CopyHasChanges
  <2> QED  BY <2>1, <2>2
<1>8. ~box'.due /\ "search" \notin outrun' /\ new.search = shown.search => box'.text = new.search
  <2>1. CASE param # "search" /\ box' = box
    BY <1>1, <1>3, <1>4, <2>1 DEF SearchIsInBox
  <2>2. CASE param = "search" /\ x = box.text /\ box'.text = box.text
    BY <1>4, <2>2
  <2>3. CASE param = "search" /\ box' = box /\ x # shown.search
    BY <1>4, <2>3
  <2> QED  BY <2>1, <2>2, <2>3
<1>9. ~box'.due /\ "search" \notin outrun' /\ url'.search = shown.search => box'.text = url'.search
  <2>1. CASE new # shown  BY <1>3, <1>8, <2>1
  <2>2. CASE new = shown
    <3>1. url' = url /\ new.search = shown.search  BY <1>3, <2>2
    <3> QED  BY <1>8, <3>1
  <2> QED  BY <2>1, <2>2
<1>10. ChangesAreKept'
  <2>1. CASE new = shown
    <3>1. \A k \in TableParams \ outrun' : wanted'[k] = shown'[k]  BY <1>3, <1>7, <2>1
    <3> QED  BY <3>1 DEF ChangesAreKept
  <2>2. CASE new # shown
    <3>1. \A k \in TableParams \ outrun' : url'[k] = wanted'[k]  BY <1>3, <1>7, <2>2
    <3> QED  BY <3>1 DEF ChangesAreKept
  <2> QED  BY <2>1, <2>2
<1>11. PageExists'  BY <1>1, <1>3 DEF PageExists
<1>12. BoxHasTheSearch'  BY <1>3, <1>9 DEF BoxHasTheSearch
<1>13. CopyHasChanges'  BY <1>3, <1>7 DEF CopyHasChanges
<1>14. SearchIsInBox(url)' /\ SearchIsInBox(draft)'  BY <1>3, <1>8, <1>9 DEF SearchIsInBox
<1> QED
  BY <1>5, <1>10, <1>11, <1>12, <1>13, <1>14 DEF TableInv, TablesKeepTheirState

LEMMA RenderStep ==
  ASSUME TableInv, NEW p \in Params(Nat), NEW rows \in 0 .. MaxRows, Render(p, rows)
  PROVE  TableInv'
<1>1. /\ url \in Params(Nat) /\ shown \in Params(Nat) /\ draft \in Params(Nat)
      /\ outrun \subseteq TableParams
      /\ box \in [text : Texts, due : BOOLEAN] /\ SearchIsInBox(url)
  BY ParamsTypes DEF TableInv
<1>2. PICK new : new = Clamped(p, rows)  OBVIOUS
<1>3. /\ new \in Params(Nat) /\ new.search = p.search
      /\ new = p => \/ p.pagination.index = 0
                    \/ p.pagination.index < PageCount(rows, p.pagination.size)
  BY <1>2, ClampedIs DEF TableParams
<1>4. /\ shown' = p /\ count' = rows /\ draft' = new /\ url' = new /\ wanted' = new
      /\ p # url => url = shown
  BY <1>2 DEF Render, Rendered
<1>5. box' = IF p.search # shown.search /\ p.search # box.text
             THEN [text |-> p.search, due |-> TRUE] ELSE box
  BY DEF Render, Rendered
<1>6. p.search \in Texts  BY ParamsFields
<1>7. outrun' = {k \in outrun : k = "search" /\ box'.text # new.search}
  BY <1>4 DEF Render
<1>8. /\ box' \in [text : Texts, due : BOOLEAN]
      /\ ~box'.due /\ "search" \notin outrun' => box'.text = p.search
  <2>1. CASE p.search # shown.search /\ p.search # box.text
    BY <1>5, <1>6, <2>1
  <2>2. CASE p.search = box.text
    BY <1>1, <1>5, <2>2
  <2>3. CASE p.search = shown.search
    <3>1. box' = box  BY <1>5, <2>3
    <3>2. url.search = p.search  BY <1>4, <2>3
    <3>3. "search" \in outrun /\ "search" \notin outrun' => box'.text = p.search
      BY <1>3, <1>7
    <3>4. "search" \notin outrun /\ ~box.due => box.text = p.search
      BY <2>3, <3>2, <1>1 DEF SearchIsInBox
    <3> QED  BY <1>1, <3>1, <3>3, <3>4
  <2> QED  BY <2>1, <2>2, <2>3
<1>9. TableTypeOK'
  <2>1. outrun' \subseteq TableParams  BY <1>1, <1>7
  <2> QED  BY <1>3, <1>4, <1>8, <2>1 DEF TableTypeOK
<1>10. ChangesAreKept'  BY <1>4 DEF ChangesAreKept
<1>11. PageExists'  BY <1>3, <1>4 DEF PageExists
<1>12. BoxHasTheSearch'  BY <1>3, <1>4, <1>8 DEF BoxHasTheSearch
<1>13. SearchIsInBox(url)' /\ SearchIsInBox(draft)'
  BY <1>3, <1>4, <1>8 DEF SearchIsInBox
<1>14. CopyHasChanges'  BY <1>4 DEF CopyHasChanges
<1> QED
  BY <1>9, <1>10, <1>11, <1>12, <1>13, <1>14 DEF TableInv, TablesKeepTheirState

(* A rendering of the old parameters outruns what differs from them, so     *)
(* that what is left is in the new copy.                                    *)
LEMMA RenderAgainStep ==
  ASSUME TableInv, NEW rows \in 0 .. MaxRows, RenderAgain(rows)
  PROVE  TableInv'
<1>1. /\ url \in Params(Nat) /\ shown \in Params(Nat) /\ draft \in Params(Nat)
      /\ wanted \in Params(Nat) /\ outrun \subseteq TableParams
      /\ box \in [text : Texts, due : BOOLEAN]
      /\ CopyHasChanges /\ SearchIsInBox(url) /\ SearchIsInBox(draft)
  BY ParamsTypes DEF TableInv
<1>2. PICK new : new = Clamped(shown, rows)  OBVIOUS
<1>3. new \in Params(Nat) /\ \A k \in TableParams \ {"pagination"} : new[k] = shown[k]
  BY <1>1, <1>2, ClampedIs
<1>4. PICK lost : lost = {k \in TableParams : wanted[k] # shown[k]}  OBVIOUS
<1>5. /\ url # shown /\ draft' = new /\ count' = rows /\ shown' = shown /\ box' = box
      /\ \/ new = shown /\ outrun' = outrun \cup lost /\ url' = url /\ wanted' = wanted
         \/ /\ new # shown /\ url' = new
            /\ wanted' = [wanted EXCEPT !.pagination = new.pagination]
            /\ outrun' = (outrun \cup lost) \ {"pagination"}
  BY <1>2, <1>4 DEF RenderAgain
<1>6. new.search = shown.search  BY <1>3 DEF TableParams
<1>7. ~box.due /\ "search" \notin outrun' => box.text = shown.search
  <2> SUFFICES ASSUME ~box.due, "search" \notin outrun' PROVE box.text = shown.search
    OBVIOUS
  <2>1. "search" \notin outrun /\ "search" \notin lost  BY <1>5
  <2>2. wanted.search = shown.search  BY <1>4, <2>1 DEF TableParams
  <2>3. draft.search = wanted.search
    <3>1. "search" \in TableParams \ outrun  BY <2>1 DEF TableParams
    <3> QED  BY <1>1, <3>1 DEF CopyHasChanges
  <2> QED  BY <1>1, <2>1, <2>2, <2>3 DEF SearchIsInBox
<1>8. url'.search = shown.search /\ ~box.due /\ "search" \notin outrun' => box.text = url'.search
  BY <1>7
<1>9. SearchIsInBox(url)' /\ SearchIsInBox(draft)'
  BY <1>5, <1>6, <1>7, <1>8 DEF SearchIsInBox
<1>10. url' # shown'  BY <1>5
<1>11. PageExists' /\ BoxHasTheSearch'  BY <1>10 DEF PageExists, BoxHasTheSearch
<1>12. CASE new = shown
  <2>1. outrun' = outrun \cup lost /\ url' = url /\ wanted' = wanted  BY <1>5, <1>12
  <2>2. \A k \in TableParams \ outrun' : wanted'[k] = shown[k]  BY <1>4, <2>1
  <2>3. ChangesAreKept'  BY <1>5, <2>2 DEF ChangesAreKept
  <2>4. CopyHasChanges'  BY <1>5, <1>12, <2>2 DEF CopyHasChanges
  <2>5. TableTypeOK'
    <3>1. outrun' \subseteq TableParams  BY <1>1, <1>4, <2>1
    <3> QED  BY <1>1, <1>3, <1>5, <2>1, <3>1 DEF TableTypeOK
  <2> QED  BY <1>9, <1>11, <2>3, <2>4, <2>5 DEF TableInv, TablesKeepTheirState
<1>13. CASE new # shown
  <2>1. /\ outrun' = (outrun \cup lost) \ {"pagination"} /\ url' = new
        /\ wanted' = [wanted EXCEPT !.pagination = new.pagination]
    BY <1>5, <1>13
  <2>2. /\ wanted' \in Params(Nat) /\ wanted'.pagination = new.pagination
        /\ \A k \in TableParams \ {"pagination"} : wanted'[k] = wanted[k]
    BY <1>1, <1>3, <2>1 DEF Params, TableParams
  <2>3. \A k \in TableParams \ outrun' : new[k] = wanted'[k]
    <3> SUFFICES ASSUME NEW k \in TableParams \ outrun' PROVE new[k] = wanted'[k]
      OBVIOUS
    <3>1. CASE k = "pagination"  BY <2>2, <3>1
    <3>2. CASE k # "pagination"
      <4>1. k \notin lost  BY <2>1, <3>2
      <4>2. wanted[k] = shown[k]  BY <1>4, <4>1
      <4> QED  BY <1>3, <2>2, <3>2, <4>2
    <3> QED  BY <3>1, <3>2
  <2>4. ChangesAreKept'  BY <2>1, <2>3 DEF ChangesAreKept
  <2>5. CopyHasChanges'  BY <1>5, <2>3 DEF CopyHasChanges
  <2>6. TableTypeOK'
    <3>1. outrun' \subseteq TableParams  BY <1>1, <1>4, <2>1
    <3> QED  BY <1>1, <1>3, <1>5, <2>1, <2>2, <3>1 DEF TableTypeOK
  <2> QED  BY <1>9, <1>11, <2>4, <2>5, <2>6 DEF TableInv, TablesKeepTheirState
<1> QED  BY <1>12, <1>13

LEMMA TableParamsAre == {"sort", "search", "filters", "pagination"} \subseteq TableParams
BY DEF TableParams

LEMMA TableStep == TableInv /\ [TableNext]_tableVars => TableInv'
<1> SUFFICES ASSUME TableInv, [TableNext]_tableVars PROVE TableInv'
  OBVIOUS
<1>1. /\ url \in Params(Nat) /\ shown \in Params(Nat) /\ draft \in Params(Nat)
      /\ wanted \in Params(Nat) /\ outrun \subseteq TableParams
      /\ count \in 0 .. MaxRows /\ box \in [text : Texts, due : BOOLEAN]
  BY ParamsTypes DEF TableInv
<1>2. CASE ToggleSorting
  <2>1. PICK x : x = [none |-> "asc", asc |-> "desc", desc |-> "none"][shown.sort]  OBVIOUS
  <2>2. x \in Sorts  BY <1>1, <2>1, ParamsFields DEF Sorts
  <2>3. /\ [draft EXCEPT !["sort"] = x] \in Params(Nat)
        /\ [wanted EXCEPT !["sort"] = x] \in Params(Nat)
    BY <1>1, <2>2 DEF Params
  <2>4. SetSearchParams("sort", x) /\ box' = box  BY <1>2, <2>1 DEF ToggleSorting
  <2> QED  BY <1>1, <2>3, <2>4, ChangeStep, TableParamsAre
<1>3. ASSUME NEW f \in FilterSets \cup {"none"}, SetColumnFilters(f) PROVE TableInv'
  <2>1. /\ [draft EXCEPT !["filters"] = f] \in Params(Nat)
        /\ [wanted EXCEPT !["filters"] = f] \in Params(Nat)
    BY <1>1, <1>3 DEF Params
  <2>2. SetSearchParams("filters", f) /\ box' = box  BY <1>3 DEF SetColumnFilters
  <2> QED  BY <1>1, <2>1, <2>2, ChangeStep, TableParamsAre
<1>4. ASSUME NEW g \in [size : PageSizes, index : Nat], SetSearchParams("pagination", g), box' = box
      PROVE  TableInv'
  <2>1. /\ [draft EXCEPT !["pagination"] = g] \in Params(Nat)
        /\ [wanted EXCEPT !["pagination"] = g] \in Params(Nat)
    BY <1>1, <1>4 DEF Params
  <2> QED  BY <1>1, <1>4, <2>1, ChangeStep, TableParamsAre
<1>5. PICK p : p = shown.pagination  OBVIOUS
<1>6. p \in [size : PageSizes, index : Nat] /\ p.size \in PageSizes /\ p.index \in Nat
  BY <1>1, <1>5, ParamsFields
<1>7. MaxRows \in Nat /\ \A s \in PageSizes : s \in Nat \ {0}
  <2>1. PageSizes \subseteq Nat \ {0}  BY TableConstantsOK
  <2>2. MaxRows \in Nat  BY TableConstantsOK
  <2> QED  BY <2>1, <2>2
<1>8. CASE SetPageIndex
  <2>1. PICK i \in 0 .. MaxRows : SetSearchParams("pagination", [p EXCEPT !.index = i])
    BY <1>5, <1>8 DEF SetPageIndex
  <2>2. PICK g : g = [p EXCEPT !.index = i]  OBVIOUS
  <2>3. g \in [size : PageSizes, index : Nat]  BY <1>6, <1>7, <2>2
  <2>4. box' = box  BY <1>8 DEF SetPageIndex
  <2> QED  BY <1>4, <2>1, <2>2, <2>3, <2>4
<1>9. ASSUME NEW s \in PageSizes, SetPageSize(s) PROVE TableInv'
  <2>1. PICK n \in Nat : n = p.index * p.size
    <3>1. \A a, b \in Nat : a * b \in Nat  OBVIOUS
    <3> QED  BY <1>6, <1>7, <3>1
  <2>2. PICK i \in Nat : i = n \div s  BY <1>7, Quotients
  <2>3. PICK g : g = [size |-> s, index |-> i]  OBVIOUS
  <2>4. SetSearchParams("pagination", g) /\ box' = box
    BY <1>5, <1>9, <2>1, <2>2, <2>3 DEF SetPageSize
  <2>5. g \in [size : PageSizes, index : Nat]  BY <2>3
  <2> QED  BY <1>4, <2>4, <2>5
<1>10. ASSUME NEW t \in Texts, Type(t) PROVE TableInv'
  <2>1. box' = [text |-> t, due |-> TRUE] /\ UNCHANGED <<url, shown, draft, count, wanted, outrun>>
    BY <1>10 DEF Type
  <2>2. box' \in [text : Texts, due : BOOLEAN] /\ box'.due  BY <2>1
  <2>3. TableTypeOK'  BY <1>1, <2>1, <2>2 DEF TableTypeOK
  <2> QED  BY <2>1, <2>2, <2>3 DEF TableInv, TablesKeepTheirState, ChangesAreKept, PageExists,
           BoxHasTheSearch, SearchIsInBox, CopyHasChanges
<1>11. CASE SearchTimer
  <2>1. SetSearchParams("search", box.text) /\ box' = [box EXCEPT !.due = FALSE]
    BY <1>11 DEF SearchTimer
  <2>2. PICK x \in Texts : x = box.text  BY <1>1
  <2>3. /\ [draft EXCEPT !["search"] = x] \in Params(Nat)
        /\ [wanted EXCEPT !["search"] = x] \in Params(Nat)
    BY <1>1 DEF Params
  <2>4. box' \in [text : Texts, due : BOOLEAN] /\ box'.text = box.text  BY <1>1, <2>1
  <2> QED  BY <2>1, <2>2, <2>3, <2>4, ChangeStep, TableParamsAre
<1>12. CASE ClearSearch
  <2>1. SetSearchParams("search", "") /\ box' = box /\ "" # shown.search
    BY <1>12 DEF ClearSearch
  <2>2. "" \in Texts  BY TableConstantsOK
  <2>3. /\ [draft EXCEPT !["search"] = ""] \in Params(Nat)
        /\ [wanted EXCEPT !["search"] = ""] \in Params(Nat)
    BY <1>1, <2>2 DEF Params
  <2> QED  BY <1>1, <2>1, <2>3, ChangeStep, TableParamsAre
<1>13. ASSUME NEW n \in 0 .. MaxRows, NEW q \in Params(0 .. MaxRows) \cup {url}, Render(q, n)
       PROVE  TableInv'
  <2>1. q \in Params(Nat)
    <3>1. 0 .. MaxRows \subseteq Nat  OBVIOUS
    <3>2. CASE q \in Params(0 .. MaxRows)  BY <3>1, <3>2 DEF Params
    <3>3. CASE q = url  BY <1>1, <3>3
    <3> QED  BY <1>13, <3>2, <3>3
  <2> QED  BY <1>13, <2>1, RenderStep
<1>14. ASSUME NEW n \in 0 .. MaxRows, RenderAgain(n) PROVE TableInv'
  BY <1>14, RenderAgainStep
<1>15. CASE UNCHANGED tableVars
  BY <1>15 DEF tableVars, TableInv, TableTypeOK, TablesKeepTheirState, ChangesAreKept, PageExists,
     BoxHasTheSearch, SearchIsInBox, CopyHasChanges
<1> QED
  BY <1>2, <1>3, <1>8, <1>9, <1>10, <1>11, <1>12, <1>13, <1>14, <1>15 DEF TableNext

(* A table loses no change that came after its last rendering, shows a     *)
(* page there is, and its search box agrees with the address.               *)
LEMMA TablesKeepTheirStateAlways == TableSpec => [](TableTypeOK /\ TablesKeepTheirState)
<1>1. TableInit => TableInv
  <2> SUFFICES ASSUME TableInit PROVE TableInv
    OBVIOUS
  <2>1. PICK size \in PageSizes : size = DefaultSize  BY DefaultSizeIs
  <2>2. "" \in Texts /\ MaxRows \in Nat  BY TableConstantsOK
  <2>3. PICK g : g = [size |-> size, index |-> 0]  OBVIOUS
  <2>4. g \in [size : PageSizes, index : Nat] /\ g.index = 0  BY <2>3
  <2>5. Defaults = [sort |-> "none", search |-> "", filters |-> "none", pagination |-> g]
    BY <2>1, <2>3 DEF Defaults
  <2>6. Defaults \in Params(Nat) /\ Defaults.pagination = g /\ Defaults.search = ""
    BY <2>2, <2>4, <2>5 DEF Params, Sorts
  <2>7. /\ url = Defaults /\ shown = Defaults /\ draft = Defaults /\ wanted = Defaults
        /\ count = 0 /\ box = [text |-> "", due |-> TRUE] /\ outrun = {}
    BY DEF TableInit
  <2>8. box \in [text : Texts, due : BOOLEAN] /\ box.due  BY <2>2, <2>7
  <2>9. TableTypeOK
    <3>1. {url, shown, draft, wanted} \subseteq Params(Nat)  BY <2>6, <2>7
    <3>2. count = 0  BY <2>7
    <3>3. 0 \in 0 .. MaxRows
      <4>1. MaxRows \in Nat  BY <2>2
      <4> QED  BY <4>1
    <3> QED  BY <2>7, <2>8, <3>1, <3>2, <3>3 DEF TableTypeOK
  <2> QED  BY <2>4, <2>6, <2>7, <2>8, <2>9 DEF TableInv, TablesKeepTheirState, ChangesAreKept,
           PageExists, BoxHasTheSearch, SearchIsInBox, CopyHasChanges
<1>2. TableInv /\ [TableNext]_tableVars => TableInv'
  BY TableStep
<1>3. TableInv => TableTypeOK /\ TablesKeepTheirState
  BY DEF TableInv
<1> QED
  BY <1>1, <1>2, <1>3, PTL DEF TableSpec

(* A table loses no change but to a rendering with the old parameters, and *)
(* filters a column by what its dialog shows.                               *)
THEOREM TablesAreSoundAlways == MCSpec => []TablesAreSound
<1>1. TablesKeepTheirState /\ HiddenBoundsAreMissing => TablesAreSound
  BY DEF TablesAreSound
<1> QED
  BY <1>1, PartsAreApart, TablesKeepTheirStateAlways, HiddenBoundsAlways, PTL

-----------------------------------------------------------------------------
(* The app.                                                                 *)

LEMMA EduTypeCorrect == EduSpec => []EduTypeOK
<1>1. EduInv => EduTypeOK  BY DEF EduInv
<1> QED
  BY <1>1, EduInitHolds, EduStep, PTL DEF EduSpec

LEMMA BundleTypeCorrect == BundleSpec => []BundleTypeOK
<1>1. BundleInv => BundleTypeOK  BY DEF BundleInv
<1> QED
  BY <1>1, BundleInitHolds, BundleStep, PTL DEF BundleSpec

(* Every variable has its type.                                             *)
THEOREM AppTypeCorrect == MCSpec => []AppTypeOK
<1>1. OdsTypeOK /\ YearsTypeOK /\ PartnerTypeOK /\ EduTypeOK /\ BundleTypeOK /\ QueryTypeOK
      /\ PageTypeOK /\ TableTypeOK /\ FilterTypeOK /\ NotesTypeOK => AppTypeOK
  BY DEF AppTypeOK
<1> QED
  BY <1>1, PartsAreApart, OdsTypeCorrect, OnlyConfirmedChangesAlways, SettingIsAsListedAlways,
     EduTypeCorrect, BundleTypeCorrect, OwnChangesAreShownAlways, PageIsAsNewAlways,
     TablesKeepTheirStateAlways, HiddenBoundsAlways, NotesAreSoundAlways, PTL

(* And what holds of the parts holds in the app.                            *)
THEOREM AppIsSound ==
  MCSpec => [](ActiveConnectionIsGood /\ EduIsSound /\ BundlesAreRecent) /\ ImplementsOdsStore
BY PartsAreApart, ActiveConnectionsAreGood, EduIsSoundAlways, BundlesAreRecentAlways,
   OdsConfigsImplementStore, PTL

=============================================================================

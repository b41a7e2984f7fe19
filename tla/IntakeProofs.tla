----------------------------- MODULE IntakeProofs -----------------------------
(***************************************************************************)
(* Theorems about Intake, for every number of pages, clients, jobs and     *)
(* years, and for every change of the settings at every moment.            *)
(*                                                                         *)
(* The invariant says what a client has checked when it is at a point of   *)
(* its program and that this still holds, although the settings may have   *)
(* been changed: a configuration keeps its year and never goes back to a   *)
(* connection (OdsStore), a roster file stays, and a job's files are       *)
(* written by the one client that made it.                                  *)
(***************************************************************************)
EXTENDS Intake, TLAPS

-----------------------------------------------------------------------------
(* The inductive invariant.                                                 *)

StoreHolds ==
  /\ config \in [Configs -> Config \cup {None}]
  /\ \A c \in Configs : Saved(c) => config[c].active \notin config[c].replaced

(* A destination is a configuration of the year, or a roster there is.     *)
Reachable(r) ==
  /\ r.ods # None => Saved(r.ods) /\ config[r.ods].year = r.year
  /\ r.ods = None => r.crossYear \/ r.year \in roster

(* The job of a client that has made one.                                   *)
HasJob(c) == client[c] # None /\ client[c].pc \in {"files", "upload", "start"}
JobOf(c) == client[c].job

(* What a client with the record r has checked.                             *)
ClientHolds(c, r) ==
  /\ r.pc \in {"resolve", "roster"} => r.ods = None
  /\ r.pc = "create" => Reachable(r)
  /\ r.pc \in {"files", "upload", "start"} => job[r.job] # None
  /\ r.pc = "files" => FilesFit(r.files) /\ ~job[r.job].started
  /\ r.pc \in {"upload", "start"} => RequiredFiles \subseteq job[r.job].files
  /\ r.pc = "start" /\ c \in Pages => AllStored(r.job)

ClientsHold ==
  /\ \A c \in Clients : client[c] # None => ClientHolds(c, client[c])
  /\ \A c, d \in Clients : HasJob(c) /\ HasJob(d) /\ JobOf(c) = JobOf(d) => c = d

(* What is out of date for a job has been replaced.                         *)
OutdatedHolds(r) == r.ods # None => r.outdated \subseteq config[r.ods].replaced

JobsHold ==
  \A j \in Jobs : job[j] # None =>
    /\ Reachable(job[j]) /\ OutdatedHolds(job[j])
    /\ job[j].started /\ job[j].ods = None => job[j].year \in job[j].mayRead

PayloadsHold ==
  \A j \in Jobs : payload[j] # None =>
    /\ job[j] # None /\ job[j].started
    /\ payload[j].roster = "file" => job[j].ods = None

(* The row of a job that has a run.                                         *)
StartedHolds(j, row) ==
  row.started => /\ row.ods = None => row.year \in row.mayRead
                 /\ RequiredFiles \subseteq row.files /\ {j} \X row.files \subseteq stored

IntakeInv ==
  /\ IntakeTypeOK /\ StoreHolds
  /\ ClientsHold /\ JobsHold /\ PayloadsHold
  /\ StartedJobsAreWhole /\ PayloadFitsJob

-----------------------------------------------------------------------------
(* Type correctness.                                                        *)

(* A client's record has what its point in the program calls for.           *)
LEMMA ClientFields ==
  ASSUME NEW r \in Client
  PROVE  /\ r.pc \in {"resolve", "roster", "create", "files", "upload", "start"}
         /\ r.pc \in {"resolve", "roster", "create"} =>
              r \in [pc : {"resolve", "roster", "create"}, year : Years, apiYear : Years,
                     files : Offers, ods : Configs \cup {None}, crossYear : BOOLEAN]
         /\ r.pc = "files" => r \in [pc : {"files"}, job : Jobs, files : Offers]
         /\ r.pc \in {"upload", "start"} => r \in [pc : {"upload", "start"}, job : Jobs]
<1>1. CASE r \in [pc : {"resolve", "roster", "create"}, year : Years, apiYear : Years,
                  files : Offers, ods : Configs \cup {None}, crossYear : BOOLEAN]
  BY <1>1
<1>2. CASE r \in [pc : {"files"}, job : Jobs, files : Offers]
  BY <1>2
<1>3. CASE r \in [pc : {"upload", "start"}, job : Jobs]
  BY <1>3
<1> QED
  BY <1>1, <1>2, <1>3 DEF Client

(* Configurations change as OdsStore says: they keep their year, what was  *)
(* replaced stays so, and what is active never was replaced.                *)
LEMMA ConfigsGrow ==
  ASSUME StoreHolds, [Next]_config
  PROVE  /\ StoreHolds'
         /\ \A c \in Configs : Saved(c) =>
              /\ Saved(c)' /\ config'[c].year = config[c].year
              /\ config[c].replaced \subseteq config'[c].replaced
              /\ Used(c) \subseteq Used(c)'
<1>0. /\ config \in [Configs -> Config \cup {None}] /\ None \notin Config
      /\ \A c \in Configs : Saved(c) => config[c] \in Config
      /\ \A c \in Configs : Saved(c) => config[c].active \notin config[c].replaced
  BY StoreConstantsOK DEF StoreHolds, Saved
<1>a. ASSUME NEW c \in Configs, NEW row \in Config, config' = [config EXCEPT ![c] = row],
             row.active \notin row.replaced,
             Saved(c) => /\ row.year = config[c].year
                         /\ config[c].replaced \subseteq row.replaced
                         /\ Used(c) \subseteq row.replaced \cup {row.active}
      PROVE  /\ StoreHolds'
             /\ \A e \in Configs : Saved(e) =>
                  /\ Saved(e)' /\ config'[e].year = config[e].year
                  /\ config[e].replaced \subseteq config'[e].replaced
                  /\ Used(e) \subseteq Used(e)'
  <2>1. config' \in [Configs -> Config \cup {None}]
    BY <1>0, <1>a
  <2>2. config'[c] = row /\ row # None /\ \A e \in Configs : e # c => config'[e] = config[e]
    BY <1>0, <1>a
  <2>3. StoreHolds'
    BY <1>0, <1>a, <2>1, <2>2 DEF StoreHolds, Saved
  <2> QED
    BY <1>a, <2>2, <2>3 DEF Saved, Used
<1>1. ASSUME NEW c \in Configs, NEW y \in Years, NEW k \in Connections, Open(c, y, k)
      PROVE  \E row \in Config : /\ config' = [config EXCEPT ![c] = row] /\ ~Saved(c)
                                 /\ row.active \notin row.replaced
  <2>1. PICK row : row = [year |-> y, retired |-> FALSE, active |-> k, replaced |-> {}]
    OBVIOUS
  <2>2. row \in Config /\ row.active \notin row.replaced
    BY <2>1 DEF Config
  <2> QED
    BY <1>1, <2>1, <2>2 DEF Open
<1>2. ASSUME NEW c \in Configs, NEW k \in Connections, Renew(c, k)
      PROVE  \E row \in Config : /\ config' = [config EXCEPT ![c] = row]
                                 /\ row.year = config[c].year /\ row.active = k
                                 /\ row.replaced = Used(c) /\ k \notin Used(c)
  <2>1. PICK row : row = [[config[c] EXCEPT !.active = k] EXCEPT !.replaced = Used(c)]
    OBVIOUS
  <2>2. config[c] \in Config /\ k \notin Used(c)
    BY <1>0, <1>2 DEF Renew, IsNew
  <2>3. /\ row \in Config /\ row.year = config[c].year /\ row.active = k
        /\ row.replaced = Used(c)
    BY <2>1, <2>2 DEF Config, Used
  <2>4. config' = [config EXCEPT ![c] = row]
    BY <1>0, <1>2, <2>1 DEF Renew
  <2> QED
    BY <2>2, <2>3, <2>4
<1>3. ASSUME NEW c \in Configs, Retire(c)
      PROVE  \E row \in Config : /\ config' = [config EXCEPT ![c] = row] /\ Saved(c)
                                 /\ row.year = config[c].year /\ row.active = config[c].active
                                 /\ row.replaced = config[c].replaced
  <2>1. PICK row : row = [config[c] EXCEPT !.retired = TRUE]
    OBVIOUS
  <2>2. Saved(c) /\ config[c] \in Config
    BY <1>0, <1>3 DEF Retire, InForce
  <2>3. /\ row \in Config /\ row.year = config[c].year /\ row.active = config[c].active
        /\ row.replaced = config[c].replaced
    BY <2>1, <2>2 DEF Config
  <2> QED
    BY <1>3, <2>1, <2>2, <2>3 DEF Retire
<1>4. CASE \E c \in Configs, y \in Years, k \in Connections : Open(c, y, k)
  BY <1>1, <1>4, <1>a
<1>5. CASE \E c \in Configs, k \in Connections : Renew(c, k)
  <2>1. PICK c \in Configs, k \in Connections : Renew(c, k)
    BY <1>5
  <2>2. PICK row \in Config : /\ config' = [config EXCEPT ![c] = row]
                              /\ row.year = config[c].year /\ row.active = k
                              /\ row.replaced = Used(c) /\ k \notin Used(c)
    BY <1>2, <2>1
  <2> QED
    BY <1>a, <2>2 DEF Used
<1>6. CASE \E c \in Configs : Retire(c)
  <2>1. PICK c \in Configs : Retire(c)
    BY <1>6
  <2>2. PICK row \in Config : /\ config' = [config EXCEPT ![c] = row] /\ Saved(c)
                              /\ row.year = config[c].year /\ row.active = config[c].active
                              /\ row.replaced = config[c].replaced
    BY <1>3, <2>1
  <2> QED
    BY <1>0, <1>a, <2>2 DEF Used
<1>7. CASE UNCHANGED config
  BY <1>7 DEF StoreHolds, Saved, Used
<1> QED
  BY <1>4, <1>5, <1>6, <1>7 DEF Next

-----------------------------------------------------------------------------
(* Steps of the settings.                                                   *)

(* Whatever admins change, a destination stays a destination.              *)
LEMMA DestinationsStay ==
  ASSUME StoreHolds, [Next]_config, roster \subseteq roster'
  PROVE  \A r : (r.ods \in Configs \cup {None}) /\ Reachable(r) => Reachable(r)'
BY ConfigsGrow DEF Reachable

(* Changes of the settings keep the invariant.                              *)
LEMMA SettingsKeep ==
  ASSUME IntakeInv, [Next]_config, roster \subseteq roster', roster' \subseteq Years,
         schoolYear' \in [Years -> [isEnabled : BOOLEAN, sendToOds : BOOLEAN]],
         crossYear' \in BOOLEAN, changes' \in 0..MaxChanges,
         UNCHANGED <<client, job, stored, payload>>
  PROVE  IntakeInv'
<1>0. /\ IntakeTypeOK /\ StoreHolds /\ ClientsHold /\ JobsHold /\ PayloadsHold
      /\ StartedJobsAreWhole /\ PayloadFitsJob
  BY DEF IntakeInv
<1>1. IntakeTypeOK' /\ StoreHolds'
  BY <1>0, ConfigsGrow DEF IntakeTypeOK
<1>2. \A r : (r.ods \in Configs \cup {None}) /\ Reachable(r) => Reachable(r)'
  BY <1>0, DestinationsStay
<1>3. ClientsHold'
  <2>1. ASSUME NEW c \in Clients, client[c] # None PROVE ClientHolds(c, client[c])'
    <3>1. client[c] \in Client /\ ClientHolds(c, client[c])
      BY <1>0, <2>1 DEF IntakeTypeOK, ClientsHold
    <3>2. client[c].pc = "create" => Reachable(client[c])'
      <4>1. PICK r : r = client[c]
        OBVIOUS
      <4>2. r.pc = "create" => Reachable(r)'
        BY <1>2, <3>1, <4>1, ClientFields DEF ClientHolds
      <4> QED
        BY <4>1, <4>2 DEF Reachable, Saved
    <3> QED
      BY <3>1, <3>2 DEF ClientHolds, AllStored
  <2> QED
    BY <1>0, <2>1 DEF ClientsHold, HasJob, JobOf
<1>4. JobsHold'
  <2>1. ASSUME NEW j \in Jobs, job[j] # None
        PROVE  Reachable(job[j])' /\ OutdatedHolds(job[j])'
    <3>1. PICK r : r = job[j]
      OBVIOUS
    <3>2. r \in Job /\ Reachable(r) /\ OutdatedHolds(r)
      BY <1>0, <2>1, <3>1 DEF IntakeTypeOK, JobsHold
    <3>3. Reachable(r)'
      BY <1>2, <3>2 DEF Job
    <3>4. OutdatedHolds(r)'
      <4>1. r.ods # None => r.ods \in Configs /\ Saved(r.ods)
        BY <3>2 DEF Job, Reachable
      <4> QED
        BY <1>0, <3>2, <4>1, ConfigsGrow DEF OutdatedHolds
    <3> QED
      BY <3>1, <3>3, <3>4 DEF Reachable, OutdatedHolds, Saved
  <2> QED
    BY <1>0, <2>1 DEF JobsHold
<1>5. PayloadsHold' /\ StartedJobsAreWhole'
  BY <1>0 DEF PayloadsHold, StartedJobsAreWhole, AllStored
<1>6. PayloadFitsJob'
  <2> SUFFICES ASSUME NEW j \in Jobs, payload[j] # None, job[j].ods # None
               PROVE  /\ config'[job[j].ods].year = job[j].year
                      /\ payload[j].connection \in Used(job[j].ods)'
    BY <1>0 DEF PayloadFitsJob, Used
  <2>1. job[j] # None /\ job[j] \in Job
    BY <1>0 DEF PayloadsHold, IntakeTypeOK
  <2>2. job[j].ods \in Configs /\ Saved(job[j].ods)
    BY <1>0, <2>1 DEF Job, JobsHold, Reachable
  <2> QED
    BY <1>0, <2>2, ConfigsGrow DEF PayloadFitsJob
<1> QED
  BY <1>1, <1>3, <1>4, <1>5, <1>6 DEF IntakeInv

-----------------------------------------------------------------------------
(* Steps of one client.                                                     *)

(* A client goes on to r: the others keep what they have checked.          *)
LEMMA ClientsKept ==
  ASSUME IntakeTypeOK, ClientsHold, NEW c \in Clients, NEW r \in Client \cup {None},
         client' = [client EXCEPT ![c] = r],
         r # None => ClientHolds(c, r)',
         \A d \in Clients : d # c /\ HasJob(d) /\ r # None /\ r.pc \in {"files", "upload", "start"} =>
           JobOf(d) # r.job,
         \A d \in Clients, q \in Client : d # c /\ client[d] = q /\ ClientHolds(d, q) => ClientHolds(d, q)'
  PROVE  ClientsHold'
<1>0. client \in [Clients -> Client \cup {None}]
  BY DEF IntakeTypeOK
<1>1. ASSUME NEW d \in Clients, client'[d] # None PROVE ClientHolds(d, client[d])'
  <2>1. CASE d = c
    <3>1. client'[c] = r /\ r # None
      BY <1>0, <1>1, <2>1
    <3> QED
      BY <2>1, <3>1 DEF ClientHolds, Reachable, Saved, AllStored
  <2>2. CASE d # c
    <3>1. client'[d] = client[d] /\ client[d] \in Client
      BY <1>0, <1>1, <2>2
    <3>2. PICK q \in Client : q = client[d]
      BY <3>1
    <3>3. ClientHolds(d, q)'
      BY <1>1, <2>2, <3>1, <3>2 DEF ClientsHold
    <3> QED
      BY <3>1, <3>2, <3>3 DEF ClientHolds, Reachable, Saved, AllStored
  <2> QED
    BY <2>1, <2>2
<1>2. ASSUME NEW d \in Clients, NEW e \in Clients, HasJob(d)', HasJob(e)', JobOf(d)' = JobOf(e)'
      PROVE  d = e
  <2>1. \A f \in Clients : f # c => client'[f] = client[f]
    BY <1>0
  <2>2. client'[c] = r
    BY <1>0
  <2> QED
    BY <1>2, <2>1, <2>2 DEF ClientsHold, HasJob, JobOf
<1> QED
  BY <1>1, <1>2 DEF ClientsHold

(* What one client does to its own record alone.                            *)
LEMMA ClientOnly ==
  ASSUME IntakeInv, NEW c \in Clients, NEW r \in Client \cup {None},
         client' = [client EXCEPT ![c] = r],
         UNCHANGED <<settings, job, stored, payload>>,
         r # None => ClientHolds(c, r),
         r # None /\ r.pc \in {"files", "upload", "start"} => HasJob(c) /\ JobOf(c) = r.job
  PROVE  IntakeInv'
<1>0. /\ IntakeTypeOK /\ StoreHolds /\ ClientsHold /\ JobsHold /\ PayloadsHold
      /\ StartedJobsAreWhole /\ PayloadFitsJob
  BY DEF IntakeInv
<1>1. /\ config' = config /\ schoolYear' = schoolYear /\ crossYear' = crossYear /\ roster' = roster
      /\ changes' = changes /\ job' = job /\ stored' = stored /\ payload' = payload
  BY DEF settings
<1>2. IntakeTypeOK' /\ StoreHolds'
  BY <1>0, <1>1 DEF IntakeTypeOK, StoreHolds, Saved
<1>3. \A d \in Clients, q \in Client : ClientHolds(d, q) => ClientHolds(d, q)'
  BY <1>1 DEF ClientHolds, Reachable, Saved, AllStored
<1>4. r # None => ClientHolds(c, r)'
  BY <1>3
<1>5. ClientsHold'
  BY <1>0, <1>3, <1>4, ClientsKept DEF ClientsHold
<1>6. JobsHold' /\ PayloadsHold' /\ StartedJobsAreWhole' /\ PayloadFitsJob'
  BY <1>0, <1>1 DEF JobsHold, Reachable, OutdatedHolds, Saved, Used, PayloadsHold, StartedJobsAreWhole, AllStored, PayloadFitsJob
<1> QED
  BY <1>2, <1>5, <1>6 DEF IntakeInv

(* The steps of a client that has no job yet, and those that only move it.  *)
LEMMA ClientMovesKeep ==
  ASSUME IntakeInv, NEW c \in Clients,
         \/ ResolveJobDestination(c) \/ CheckRoster(c) \/ RefuseFiles(c) \/ CallStart(c)
         \/ StartRefused(c) \/ Fail(c)
  PROVE  IntakeInv'
<1>0. client \in [Clients -> Client \cup {None}] /\ crossYear \in BOOLEAN /\ ClientsHold /\ StoreHolds
  BY DEF IntakeInv, IntakeTypeOK
<1>1. client[c] # None => client[c] \in Client /\ ClientHolds(c, client[c])
  BY <1>0 DEF ClientsHold
<1>2. CASE EndsFor(c) /\ UNCHANGED <<settings, job, stored, payload>>
  BY <1>2, ClientOnly DEF EndsFor
<1>3. CASE ResolveJobDestination(c)
  <2>1. /\ client[c] # None /\ client[c].pc = "resolve" /\ UNCHANGED <<settings, job, stored, payload>>
        /\ client[c] \in [pc : {"resolve", "roster", "create"}, year : Years, apiYear : Years,
                          files : Offers, ods : Configs \cup {None}, crossYear : BOOLEAN]
    BY <1>1, <1>3, ClientFields DEF ResolveJobDestination, At
  <2>2. ASSUME NEW ods \in OdsFor(client[c].year),
               client' = [client EXCEPT ![c].pc = "create", ![c].ods = ods]
        PROVE  IntakeInv'
    <3> DEFINE r == [[client[c] EXCEPT !.pc = "create"] EXCEPT !.ods = ods]
    <3>1. ods \in Configs /\ Saved(ods) /\ config[ods].year = client[c].year
      BY DEF OdsFor, OfYear
    <3>2. r \in Client /\ r.pc = "create" /\ r.ods = ods /\ r.year = client[c].year
      BY <2>1, <3>1 DEF Client
    <3>3. ClientHolds(c, r)
      BY <3>1, <3>2, StoreConstantsOK DEF ClientHolds, Reachable, Configs
    <3>4. client' = [client EXCEPT ![c] = r]
      BY <1>0, <2>2
    <3> QED
      BY <2>1, <3>2, <3>3, <3>4, ClientOnly
  <2>3. CASE Goes(c, "roster")
    <3> DEFINE r == [client[c] EXCEPT !.pc = "roster"]
    <3>1. r \in Client /\ r.pc = "roster" /\ r.ods = client[c].ods
      BY <2>1 DEF Client
    <3>2. client' = [client EXCEPT ![c] = r]
      BY <1>0, <2>3 DEF Goes
    <3> QED
      BY <1>1, <2>1, <3>1, <3>2, ClientOnly DEF ClientHolds
  <2> QED
    BY <1>2, <1>3, <2>1, <2>2, <2>3 DEF ResolveJobDestination
<1>4. CASE CheckRoster(c)
  <2>1. /\ client[c] # None /\ client[c].pc = "roster" /\ UNCHANGED <<settings, job, stored, payload>>
        /\ client[c] \in [pc : {"resolve", "roster", "create"}, year : Years, apiYear : Years,
                          files : Offers, ods : Configs \cup {None}, crossYear : BOOLEAN]
    BY <1>1, <1>4, ClientFields DEF CheckRoster, At
  <2>2. CASE RosterFor(client[c].year)
    <3> DEFINE r == [[client[c] EXCEPT !.pc = "create"] EXCEPT !.crossYear = crossYear]
    <3>1. r \in Client /\ r.pc = "create" /\ r.ods = client[c].ods /\ r.year = client[c].year
          /\ r.crossYear = crossYear
      BY <1>0, <2>1 DEF Client
    <3>2. ClientHolds(c, r)
      BY <1>1, <2>1, <2>2, <3>1 DEF ClientHolds, Reachable, RosterFor
    <3>3. client' = [client EXCEPT ![c] = r]
      BY <1>0, <1>4, <2>2 DEF CheckRoster
    <3> QED
      BY <2>1, <3>1, <3>2, <3>3, ClientOnly
  <2>3. CASE ~RosterFor(client[c].year)
    BY <1>2, <1>4, <2>1, <2>3 DEF CheckRoster
  <2> QED
    BY <2>2, <2>3
<1>5. CASE RefuseFiles(c)
  BY <1>2, <1>5 DEF RefuseFiles
<1>6. CASE CallStart(c)
  <2>1. /\ client[c] # None /\ client[c].pc = "upload" /\ UNCHANGED <<settings, job, stored, payload>>
        /\ client[c] \in [pc : {"upload", "start"}, job : Jobs]
    BY <1>1, <1>6, ClientFields DEF CallStart, At
  <2> DEFINE r == [client[c] EXCEPT !.pc = "start"]
  <2>2. r \in Client /\ r.pc = "start" /\ r.job = client[c].job
    BY <2>1 DEF Client
  <2>3. client' = [client EXCEPT ![c] = r]
    BY <1>0, <1>6 DEF CallStart, Goes
  <2>4. ClientHolds(c, r)
    BY <1>1, <1>6, <2>1, <2>2 DEF ClientHolds, CallStart, UploadsDone
  <2> QED
    BY <2>1, <2>2, <2>3, <2>4, ClientOnly DEF HasJob, JobOf
<1>7. CASE StartRefused(c)
  <2>1. /\ client[c] # None /\ client[c].pc = "start" /\ UNCHANGED <<settings, job, stored, payload>>
        /\ client[c] \in [pc : {"upload", "start"}, job : Jobs]
    BY <1>1, <1>7, ClientFields DEF StartRefused, At
  <2> DEFINE r == [client[c] EXCEPT !.pc = "upload"]
  <2>2. r \in Client /\ r.pc = "upload" /\ r.job = client[c].job
    BY <2>1 DEF Client
  <2>3. client' = [client EXCEPT ![c] = r]
    BY <1>0, <1>7 DEF StartRefused, Goes
  <2>4. ClientHolds(c, r)
    BY <1>1, <2>1, <2>2 DEF ClientHolds
  <2> QED
    BY <2>1, <2>2, <2>3, <2>4, ClientOnly DEF HasJob, JobOf
<1>8. CASE Fail(c)
  BY <1>2, <1>8 DEF Fail
<1> QED
  BY <1>3, <1>4, <1>5, <1>6, <1>7, <1>8

(* A client asks for a job.                                                 *)
LEMMA PostKeeps ==
  ASSUME IntakeInv, NEW c \in Clients, NEW y \in Years, NEW z \in Years, NEW fs \in Offers,
         Post(c, y, z, fs)
  PROVE  IntakeInv'
<1> DEFINE r == [pc |-> "resolve", year |-> y, apiYear |-> z, files |-> fs, ods |-> None,
                 crossYear |-> FALSE]
<1>1. r \in Client /\ ClientHolds(c, r)
  BY DEF Client, ClientHolds
<1> QED
  BY <1>1, ClientOnly DEF Post

(* The row of one job changes, and what its one client is doing.  The row   *)
(* is right in itself, and there is no payload yet.                         *)
LEMMA JobKeeps ==
  ASSUME IntakeInv, NEW c \in Clients, NEW q \in Client \cup {None}, NEW j \in Jobs, NEW row \in Job,
         client' = [client EXCEPT ![c] = q], job' = [job EXCEPT ![j] = row],
         UNCHANGED <<settings, stored, payload>>,
         Reachable(row), OutdatedHolds(row), StartedHolds(j, row), payload[j] = None,
         q # None => ClientHolds(c, q)' /\ (q.pc \in {"files", "upload", "start"} => q.job = j),
         \A d \in Clients : d # c /\ HasJob(d) => JobOf(d) # j
  PROVE  IntakeInv'
<1> USE DEF StartedHolds
<1>0. /\ IntakeTypeOK /\ StoreHolds /\ ClientsHold /\ JobsHold /\ PayloadsHold
      /\ StartedJobsAreWhole /\ PayloadFitsJob
  BY DEF IntakeInv
<1>1. /\ config' = config /\ schoolYear' = schoolYear /\ crossYear' = crossYear /\ roster' = roster
      /\ changes' = changes /\ stored' = stored /\ payload' = payload
  BY DEF settings
<1>2. /\ job'[j] = row /\ row # None /\ \A i \in Jobs : i # j => job'[i] = job[i]
  BY <1>0, IntakeConstantsOK DEF IntakeTypeOK
<1>3. IntakeTypeOK' /\ StoreHolds'
  BY <1>0, <1>1 DEF IntakeTypeOK, StoreHolds, Saved
<1>4. ClientsHold'
  <2>1. ASSUME NEW d \in Clients, NEW p \in Client, d # c, client[d] = p, ClientHolds(d, p)
        PROVE  ClientHolds(d, p)'
    <3>1. p # None
      BY IntakeConstantsOK
    <3>2. p.pc \in {"files", "upload", "start"} => p.job \in Jobs /\ p.job # j
      BY <2>1, <3>1, ClientFields DEF HasJob, JobOf
    <3>3. p.pc \in {"files", "upload", "start"} => job'[p.job] = job[p.job]
      BY <1>2, <3>2
    <3> QED
      BY <1>1, <2>1, <3>3 DEF ClientHolds, Reachable, Saved, AllStored
  <2>2. \A d \in Clients : d # c /\ HasJob(d) /\ q # None /\ q.pc \in {"files", "upload", "start"} =>
          JobOf(d) # q.job
    OBVIOUS
  <2>3. \A d \in Clients, p \in Client :
          d # c /\ client[d] = p /\ ClientHolds(d, p) => ClientHolds(d, p)'
    BY <2>1
  <2>4. q # None => ClientHolds(c, q)'
    OBVIOUS
  <2> QED
    BY <1>0, <2>2, <2>3, <2>4, ClientsKept
<1>5. JobsHold'
  <2>1. Reachable(row)' /\ OutdatedHolds(row)'
    BY <1>1 DEF Reachable, OutdatedHolds, Saved
  <2>2. ASSUME NEW i \in Jobs, job'[i] # None
        PROVE  /\ Reachable(job[i])' /\ OutdatedHolds(job[i])'
               /\ job'[i].started /\ job'[i].ods = None => job'[i].year \in job'[i].mayRead
    <3>1. CASE i = j
      BY <1>2, <2>1, <3>1 DEF Reachable, OutdatedHolds, Saved
    <3>2. CASE i # j
      BY <1>0, <1>1, <1>2, <2>2, <3>2 DEF JobsHold, Reachable, OutdatedHolds, Saved
    <3> QED
      BY <3>1, <3>2
  <2> QED
    BY <2>2 DEF JobsHold
<1>6. PayloadsHold'
  BY <1>0, <1>1, <1>2 DEF PayloadsHold
<1>7. StartedJobsAreWhole'
  BY <1>0, <1>1, <1>2 DEF StartedJobsAreWhole, AllStored
<1>8. PayloadFitsJob'
  BY <1>0, <1>1, <1>2 DEF PayloadFitsJob, Used
<1> QED
  BY <1>3, <1>4, <1>5, <1>6, <1>7, <1>8 DEF IntakeInv

(* The row of a job carries over what its client has checked.              *)
LEMMA CreateJobKeeps ==
  ASSUME IntakeInv, NEW c \in Clients, NEW j \in Jobs, CreateJob(c, j)
  PROVE  IntakeInv'
<1>0. IntakeTypeOK /\ ClientsHold /\ PayloadsHold
  BY DEF IntakeInv
<1>1. PICK r : r = client[c]
  OBVIOUS
<1>2. r # None /\ r.pc = "create" /\ r \in Client /\ Reachable(r) /\ FilesFit(r.files)
  BY <1>0, <1>1 DEF CreateJob, At, IntakeTypeOK, ClientsHold, ClientHolds
<1>3. r \in [pc : {"resolve", "roster", "create"}, year : Years, apiYear : Years,
             files : Offers, ods : Configs \cup {None}, crossYear : BOOLEAN]
  BY <1>2, ClientFields
<1>4. PICK row : row = [year |-> r.year, apiYear |-> r.apiYear, ods |-> r.ods, crossYear |-> r.crossYear,
                        files |-> {}, uploaded |-> FALSE, started |-> FALSE, mayRead |-> {},
                        outdated |-> {}]
  OBVIOUS
<1>5. PICK q : q = [pc |-> "files", job |-> j, files |-> r.files]
  OBVIOUS
<1>6. row \in Job /\ q \in Client
  BY <1>3, <1>4, <1>5 DEF Job, Client
<1>7. /\ job[j] = None /\ job' = [job EXCEPT ![j] = row] /\ client' = [client EXCEPT ![c] = q]
      /\ UNCHANGED <<settings, stored, payload>>
  BY <1>1, <1>4, <1>5 DEF CreateJob, IsNext
<1>8. /\ Reachable(row) /\ OutdatedHolds(row) /\ StartedHolds(j, row) /\ ~row.started
      /\ payload[j] = None
  BY <1>0, <1>2, <1>4, <1>7 DEF Reachable, OutdatedHolds, PayloadsHold, StartedHolds
<1>9. ClientHolds(c, q)'
  <2>1. job'[j] = row /\ row # None
    BY <1>0, <1>6, <1>7, IntakeConstantsOK DEF IntakeTypeOK
  <2> QED
    BY <1>2, <1>5, <1>8, <2>1 DEF ClientHolds, FilesFit
<1>10. \A d \in Clients : HasJob(d) => JobOf(d) # j
  BY <1>0, <1>7 DEF ClientsHold, ClientHolds, HasJob, JobOf
<1> QED
  BY <1>5, <1>6, <1>7, <1>8, <1>9, <1>10, JobKeeps

(* Its files are written by the client that made it, before it can start.  *)
LEMMA CreateFilesKeeps ==
  ASSUME IntakeInv, NEW c \in Clients, CreateFiles(c)
  PROVE  IntakeInv'
<1>0. IntakeTypeOK /\ ClientsHold /\ PayloadsHold /\ JobsHold
  BY DEF IntakeInv
<1>1. PICK r : r = client[c]
  OBVIOUS
<1>2. /\ r # None /\ r.pc = "files" /\ r \in Client /\ FilesFit(r.files)
      /\ job[r.job] # None /\ ~job[r.job].started
  BY <1>0, <1>1 DEF CreateFiles, At, IntakeTypeOK, ClientsHold, ClientHolds
<1>3. PICK j \in Jobs : j = r.job
  BY <1>2, ClientFields
<1>4. PICK row : row = [job[j] EXCEPT !.files = r.files]
  OBVIOUS
<1>5. PICK q : q = [pc |-> "upload", job |-> j]
  OBVIOUS
<1>6. job[j] \in Job
  BY <1>0, <1>2, <1>3 DEF IntakeTypeOK
<1>7. /\ row \in Job /\ q \in Client
      /\ row.year = job[j].year /\ row.ods = job[j].ods /\ row.crossYear = job[j].crossYear
      /\ row.files = r.files /\ ~row.started /\ row.outdated = job[j].outdated
  BY <1>2, <1>3, <1>4, <1>5, <1>6 DEF Job, Client, FilesFit
<1>8. /\ client' = [client EXCEPT ![c] = q] /\ UNCHANGED <<settings, stored, payload>>
  BY <1>1, <1>3, <1>5 DEF CreateFiles
<1>9. job' = [job EXCEPT ![j] = row]
  BY <1>0, <1>1, <1>3, <1>4 DEF CreateFiles, IntakeTypeOK
<1>10. Reachable(row) /\ OutdatedHolds(row) /\ StartedHolds(j, row) /\ payload[j] = None
  BY <1>0, <1>2, <1>3, <1>7 DEF Reachable, OutdatedHolds, PayloadsHold, JobsHold, StartedHolds
<1>11. ClientHolds(c, q)'
  <2>1. job'[j] = row /\ row # None
    BY <1>0, <1>7, <1>9, IntakeConstantsOK DEF IntakeTypeOK
  <2> QED
    BY <1>2, <1>5, <1>7, <2>1 DEF ClientHolds, FilesFit
<1>12. \A d \in Clients : d # c /\ HasJob(d) => JobOf(d) # j
  BY <1>0, <1>1, <1>2, <1>3 DEF ClientsHold, HasJob, JobOf
<1> QED
  BY <1>5, <1>7, <1>8, <1>9, <1>10, <1>11, <1>12, JobKeeps

(* A job starts with the files of its client, all of them stored.          *)
LEMMA StartKeeps ==
  ASSUME IntakeInv, NEW c \in Clients, Start(c)
  PROVE  IntakeInv'
<1>0. IntakeTypeOK /\ ClientsHold /\ PayloadsHold /\ JobsHold
  BY DEF IntakeInv
<1>1. PICK r : r = client[c]
  OBVIOUS
<1>2. /\ r # None /\ r.pc = "start" /\ r \in Client
      /\ job[r.job] # None /\ RequiredFiles \subseteq job[r.job].files /\ AllStored(r.job)
  BY <1>0, <1>1 DEF Start, At, IntakeTypeOK, ClientsHold, ClientHolds, Clients
<1>3. PICK j \in Jobs : j = r.job
  BY <1>2, ClientFields
<1>4. job[j] \in Job
  BY <1>0, <1>2, <1>3 DEF IntakeTypeOK
<1>5. PICK q \in Client \cup {None} :
        /\ client' = [client EXCEPT ![c] = q]
        /\ q # None => q = [pc |-> "upload", job |-> j]
  <2>1. CASE EndsFor(c)
    BY <2>1 DEF EndsFor
  <2>2. CASE Goes(c, "upload")
    <3>1. r \in [pc : {"upload", "start"}, job : Jobs]
      BY <1>2, ClientFields
    <3>2. [r EXCEPT !.pc = "upload"] = [pc |-> "upload", job |-> j]
      BY <1>3, <3>1
    <3>3. [pc |-> "upload", job |-> j] \in Client
      BY DEF Client
    <3>4. client' = [client EXCEPT ![c] = [r EXCEPT !.pc = "upload"]]
      BY <1>0, <1>1, <2>2 DEF Goes, IntakeTypeOK
    <3> QED
      BY <3>2, <3>3, <3>4
  <2> QED
    BY <2>1, <2>2 DEF Start
<1>6. UNCHANGED <<settings, stored, payload>>
  BY DEF Start
<1>7. \A d \in Clients : d # c /\ HasJob(d) => JobOf(d) # j
  BY <1>0, <1>1, <1>2, <1>3 DEF ClientsHold, HasJob, JobOf
<1>8. CASE job[j].started
  <2>1. job' = job
    BY <1>1, <1>3, <1>8 DEF Start
  <2>2. q # None => ClientHolds(c, q)
    BY <1>2, <1>3, <1>5 DEF ClientHolds
  <2>3. HasJob(c) /\ JobOf(c) = j
    BY <1>1, <1>2, <1>3 DEF HasJob, JobOf
  <2> QED
    BY <1>5, <1>6, <2>1, <2>2, <2>3, ClientOnly
<1>9. CASE ~job[j].started
  <2>1. PICK row : row = [[[[job[j] EXCEPT !.uploaded = TRUE] EXCEPT !.started = TRUE]
                           EXCEPT !.mayRead = Rights(j)] EXCEPT !.outdated = Outdated(j)]
    OBVIOUS
  <2>0. Outdated(j) \subseteq Connections
    <3>1. job[j].ods # None => job[j].ods \in Configs /\ Saved(job[j].ods)
      BY <1>0, <1>2, <1>3, <1>4 DEF Job, JobsHold, Reachable
    <3>2. job[j].ods # None => config[job[j].ods] \in Config
      BY <3>1 DEF IntakeInv, StoreHolds, Saved
    <3> QED
      BY <3>2 DEF Outdated, Config
  <2>2. Rights(j) \subseteq Years /\ (job[j].ods = None => job[j].year \in Rights(j))
    BY <1>4 DEF Rights, Job
  <2>3. /\ row \in Job /\ row.started /\ row.mayRead = Rights(j) /\ row.files = job[j].files
        /\ row.year = job[j].year /\ row.ods = job[j].ods /\ row.crossYear = job[j].crossYear
        /\ row.outdated = Outdated(j)
    BY <1>4, <2>0, <2>1, <2>2 DEF Job
  <2>4. job' = [job EXCEPT ![j] = row]
    BY <1>0, <1>1, <1>3, <1>9, <2>1 DEF Start, IntakeTypeOK
  <2>5. Reachable(row) /\ OutdatedHolds(row)
    BY <1>0, <1>2, <1>3, <2>3 DEF Reachable, JobsHold, OutdatedHolds, Outdated
  <2>6. payload[j] = None
    BY <1>0, <1>9 DEF PayloadsHold
  <2>7. q # None => ClientHolds(c, q)'
    <3>1. job'[j] = row /\ row # None
      BY <1>0, <2>3, <2>4, IntakeConstantsOK DEF IntakeTypeOK
    <3> QED
      BY <1>2, <1>3, <1>5, <2>3, <3>1 DEF ClientHolds
  <2>8. StartedHolds(j, row)
    BY <1>2, <1>3, <2>2, <2>3 DEF AllStored, StartedHolds
  <2>9. q # None => ClientHolds(c, q)' /\ (q.pc \in {"files", "upload", "start"} => q.job = j)
    BY <1>5, <2>7
  <2>10. row \in Job
    BY <2>3
  <2> QED
    BY <1>5, <1>6, <1>7, <2>4, <2>5, <2>6, <2>8, <2>9, <2>10, JobKeeps
<1> QED
  BY <1>8, <1>9

(* Files only get stored.                                                   *)
LEMMA UploadKeeps ==
  ASSUME IntakeInv, NEW c \in Clients, NEW f \in Files, Upload(c, f)
  PROVE  IntakeInv'
<1>0. /\ IntakeTypeOK /\ StoreHolds /\ ClientsHold /\ JobsHold /\ PayloadsHold
      /\ StartedJobsAreWhole /\ PayloadFitsJob
  BY DEF IntakeInv
<1>1. /\ config' = config /\ schoolYear' = schoolYear /\ crossYear' = crossYear /\ roster' = roster
      /\ changes' = changes /\ client' = client /\ job' = job /\ payload' = payload
      /\ stored \subseteq stored' /\ stored' \subseteq Jobs \X Files
  <2>1. client[c] \in Client /\ client[c].pc = "upload"
    BY <1>0 DEF Upload, At, IntakeTypeOK
  <2>2. client[c].job \in Jobs
    BY <2>1, ClientFields
  <2> QED
    BY <1>0, <2>2 DEF Upload, settings, IntakeTypeOK
<1>2. IntakeTypeOK' /\ StoreHolds'
  BY <1>0, <1>1 DEF IntakeTypeOK, StoreHolds, Saved
<1>3. ClientsHold'
  <2>1. ASSUME NEW d \in Clients, client[d] # None PROVE ClientHolds(d, client[d])'
    <3>1. ClientHolds(d, client[d])
      BY <1>0, <2>1 DEF ClientsHold
    <3> QED
      BY <1>1, <3>1 DEF ClientHolds, Reachable, Saved, AllStored
  <2> QED
    BY <1>0, <1>1, <2>1 DEF ClientsHold, HasJob, JobOf
<1>4. JobsHold' /\ PayloadsHold' /\ StartedJobsAreWhole' /\ PayloadFitsJob'
  BY <1>0, <1>1 DEF JobsHold, Reachable, OutdatedHolds, Saved, Used, PayloadsHold, StartedJobsAreWhole, AllStored, PayloadFitsJob
<1> QED
  BY <1>2, <1>3, <1>4 DEF IntakeInv

(* The payload is made from the row of the job and from settings that have *)
(* not gone back to what was replaced.                                      *)
LEMMA PayloadKeeps ==
  ASSUME IntakeInv, NEW j \in Jobs, EarthbeamInputForRun(j)
  PROVE  IntakeInv'
<1>0. /\ IntakeTypeOK /\ StoreHolds /\ ClientsHold /\ JobsHold /\ PayloadsHold
      /\ StartedJobsAreWhole /\ PayloadFitsJob
  BY DEF IntakeInv
<1>1. /\ config' = config /\ schoolYear' = schoolYear /\ crossYear' = crossYear /\ roster' = roster
      /\ changes' = changes /\ client' = client /\ job' = job /\ stored' = stored
  BY DEF EarthbeamInputForRun, settings
<1>2. job[j] # None /\ job[j].started /\ job[j] \in Job
  BY <1>0 DEF EarthbeamInputForRun, IntakeTypeOK
<1>3. PICK p : p = [apiYear |-> ApiYear(j),
                    connection |-> IF job[j].ods = None THEN None ELSE ConnectionOf(job[j].ods),
                    roster |-> RosterSource(j)]
  OBVIOUS
<1>4. payload' = [payload EXCEPT ![j] = p]
  BY <1>3 DEF EarthbeamInputForRun
<1>5. job[j].ods # None =>
        /\ ConnectionOf(job[j].ods) \in Connections /\ ConnectionOf(job[j].ods) # None
        /\ ConnectionOf(job[j].ods) \in Used(job[j].ods) \ job[j].outdated
        /\ config[job[j].ods].year = job[j].year
  <2>1. job[j].ods # None => job[j].ods \in Configs /\ Saved(job[j].ods) /\ config[job[j].ods].year = job[j].year
    BY <1>0, <1>2 DEF JobsHold, Reachable, Job
  <2>2. job[j].ods # None =>
          /\ config[job[j].ods] \in Config
          /\ config[job[j].ods].active \notin config[job[j].ods].replaced
    BY <1>0, <2>1 DEF StoreHolds, Saved
  <2>3. job[j].ods # None => job[j].outdated \subseteq config[job[j].ods].replaced
    BY <1>0, <1>2 DEF JobsHold, OutdatedHolds
  <2>4. job[j].ods # None =>
          ConnectionOf(job[j].ods) \in Connections /\ ConnectionOf(job[j].ods) # None
    BY <2>2, StoreConstantsOK DEF Config, Connections, ConnectionOf
  <2> QED
    BY <2>1, <2>2, <2>3, <2>4 DEF ConnectionOf, Used
<1>6. /\ RosterSource(j) \in {"ods", "edu", "file"}
      /\ RosterSource(j) = "file" => job[j].ods = None
  BY <1>0 DEF RosterSource, IntakeTypeOK
<1>7. p \in Payload /\ p.apiYear = job[j].year /\ p.roster = RosterSource(j)
      /\ p.connection = IF job[j].ods = None THEN None ELSE ConnectionOf(job[j].ods)
  BY <1>2, <1>3, <1>5, <1>6 DEF Payload, Job, ApiYear
<1>8. payload'[j] = p /\ \A i \in Jobs : i # j => payload'[i] = payload[i]
  BY <1>0, <1>4 DEF IntakeTypeOK
<1>9. IntakeTypeOK' /\ StoreHolds'
  BY <1>0, <1>1, <1>4, <1>7 DEF IntakeTypeOK, StoreHolds, Saved
<1>10. ClientsHold'
  <2>1. ASSUME NEW d \in Clients, client[d] # None PROVE ClientHolds(d, client[d])'
    <3>1. ClientHolds(d, client[d])
      BY <1>0, <2>1 DEF ClientsHold
    <3> QED
      BY <1>1, <3>1 DEF ClientHolds, Reachable, Saved, AllStored
  <2> QED
    BY <1>0, <1>1, <2>1 DEF ClientsHold, HasJob, JobOf
<1>11. JobsHold' /\ StartedJobsAreWhole'
  BY <1>0, <1>1 DEF JobsHold, Reachable, OutdatedHolds, Saved, StartedJobsAreWhole, AllStored
<1>12. PayloadsHold'
  BY <1>0, <1>1, <1>2, <1>6, <1>7, <1>8 DEF PayloadsHold
<1>13. PayloadFitsJob'
  BY <1>0, <1>1, <1>5, <1>7, <1>8 DEF PayloadFitsJob, Used
<1> QED
  BY <1>9, <1>10, <1>11, <1>12, <1>13 DEF IntakeInv

-----------------------------------------------------------------------------
(* The invariant.                                                           *)

LEMMA IntakeInvInit == IntakeInit => IntakeInv
<1> SUFFICES ASSUME IntakeInit PROVE IntakeInv
  OBVIOUS
<1> USE DEF IntakeInit, Init
<1>1. IntakeTypeOK /\ StoreHolds
  <2>1. schoolYear \in [Years -> [isEnabled : BOOLEAN, sendToOds : BOOLEAN]]
    <3>1. \A b \in BOOLEAN : [isEnabled |-> TRUE, sendToOds |-> b] \in [isEnabled : BOOLEAN, sendToOds : BOOLEAN]
      OBVIOUS
    <3>2. {[isEnabled |-> TRUE, sendToOds |-> b] : b \in BOOLEAN} \subseteq [isEnabled : BOOLEAN, sendToOds : BOOLEAN]
      BY <3>1
    <3> QED
      BY <3>2
  <2>2. /\ client \in [Clients -> Client \cup {None}]
        /\ job \in [Jobs -> Job \cup {None}]
        /\ payload \in [Jobs -> Payload \cup {None}]
    OBVIOUS
  <2>4. config \in [Configs -> Config \cup {None}]
    OBVIOUS
  <2>3. crossYear \in BOOLEAN /\ roster \subseteq Years /\ changes \in 0..MaxChanges
        /\ stored \subseteq Jobs \X Files
    BY IntakeConstantsOK
  <2> QED
    BY <2>1, <2>2, <2>3, <2>4 DEF IntakeTypeOK, StoreHolds, Saved
<1>2. ClientsHold /\ JobsHold /\ PayloadsHold /\ StartedJobsAreWhole /\ PayloadFitsJob
  BY DEF ClientsHold, HasJob, JobsHold, PayloadsHold, StartedJobsAreWhole, PayloadFitsJob
<1> QED
  BY <1>1, <1>2 DEF IntakeInv

LEMMA IntakeInvNext == IntakeInv /\ [IntakeNext]_vars => IntakeInv'
<1> SUFFICES ASSUME IntakeInv, [IntakeNext]_vars PROVE IntakeInv'
  OBVIOUS
<1>0. /\ schoolYear \in [Years -> [isEnabled : BOOLEAN, sendToOds : BOOLEAN]]
      /\ crossYear \in BOOLEAN /\ roster \subseteq Years /\ changes \in 0..MaxChanges /\ MaxChanges \in Nat
  BY IntakeConstantsOK DEF IntakeInv, IntakeTypeOK
<1>1. CASE \E p \in Pages, y \in Years, fs \in SUBSET Files : Submit(p, y, fs)
  <2>1. SUBSET Files \subseteq Offers /\ Pages \subseteq Clients
    BY DEF Offers, Clients
  <2> QED
    BY <1>1, <2>1, PostKeeps DEF Submit
<1>2. CASE \E a \in ApiClients, y, z \in Years, fs \in Offers : Initialize(a, y, z, fs)
  BY <1>2, PostKeeps DEF Initialize, Clients
<1>3. CASE \E c \in Clients : ClientStep(c)
  <2> SUFFICES ASSUME NEW c \in Clients, ClientStep(c) PROVE IntakeInv'
    BY <1>3
  <2>1. CASE \E j \in Jobs : CreateJob(c, j)
    BY <2>1, CreateJobKeeps
  <2>2. CASE \E f \in Files : Upload(c, f)
    BY <2>2, UploadKeeps
  <2>3. CASE \/ ResolveJobDestination(c) \/ CheckRoster(c) \/ RefuseFiles(c) \/ CallStart(c)
             \/ StartRefused(c) \/ Fail(c)
    BY <2>3, ClientMovesKeep
  <2>4. CASE CreateFiles(c)
    BY <2>4, CreateFilesKeeps
  <2>5. CASE Start(c)
    BY <2>5, StartKeeps
  <2> QED
    BY <2>1, <2>2, <2>3, <2>4, <2>5 DEF ClientStep
<1>4. CASE \E j \in Jobs : EarthbeamInputForRun(j)
  BY <1>4, PayloadKeeps
<1>5. ASSUME Change PROVE changes' \in 0..MaxChanges /\ UNCHANGED <<client, job, stored, payload>>
  BY <1>0, <1>5 DEF Change
<1>6. CASE ChangeOds
  BY <1>0, <1>5, <1>6, SettingsKeep DEF ChangeOds
<1>7. CASE ChangeCrossYear
  BY <1>0, <1>5, <1>7, SettingsKeep DEF ChangeCrossYear
<1>8. ASSUME NEW y \in Years, ChangeYear(y) PROVE IntakeInv'
  <2>1. schoolYear' \in [Years -> [isEnabled : BOOLEAN, sendToOds : BOOLEAN]]
    BY <1>0, <1>8 DEF ChangeYear
  <2>2. Change /\ UNCHANGED <<config, crossYear, roster>>
    BY <1>8 DEF ChangeYear
  <2> QED
    BY <1>0, <1>5, <2>1, <2>2, SettingsKeep
<1>9. ASSUME NEW y \in Years, RosterArrives(y) PROVE IntakeInv'
  <2>1. Change /\ UNCHANGED <<config, schoolYear, crossYear>> /\ roster' = roster \cup {y}
    BY <1>9 DEF RosterArrives
  <2> QED
    BY <1>0, <1>5, <2>1, SettingsKeep
<1>10. CASE UNCHANGED vars
  <2>1. /\ UNCHANGED <<client, job, stored, payload>> /\ UNCHANGED <<config, schoolYear, crossYear, roster, changes>>
    BY <1>10 DEF vars, settings
  <2> QED
    BY <1>0, <2>1, SettingsKeep
<1> QED
  BY <1>1, <1>2, <1>3, <1>4, <1>6, <1>7, <1>8, <1>9, <1>10 DEF IntakeNext

THEOREM IntakeInvariant == IntakeSpec => []IntakeInv
BY IntakeInvInit, IntakeInvNext, PTL DEF IntakeSpec

-----------------------------------------------------------------------------
(* What it implies.                                                         *)

(* A payload has the job's school year, and a connection of an ODS of that *)
(* year which was in force when the run started or came into force later,  *)
(* whatever is changed between intake and payload (earthbeamInputForRun).   *)
THEOREM PayloadsFitJobs == IntakeSpec => []PayloadFitsJob
<1>1. IntakeInv => PayloadFitsJob
  BY DEF IntakeInv
<1> QED
  BY <1>1, IntakeInvariant, PTL

(* An executor that is sent to a roster file may read it, and the file is  *)
(* there, unless EDU was to supply the roster when the job was accepted.    *)
THEOREM RosterIsThereThen == IntakeSpec => []RosterIsThere
<1>1. IntakeInv => RosterIsThere
  BY DEF IntakeInv, PayloadsHold, JobsHold, Reachable, RosterIsThere
<1> QED
  BY <1>1, IntakeInvariant, PTL

(* Rows are typed, and a job that has a run has all its files, stored:     *)
(* whether a page vouched for them or the API looked.                       *)
THEOREM JobsAreSoundAlways == IntakeSpec => []JobsAreSound
<1>1. IntakeInv => JobsAreSound
  BY DEF IntakeInv, JobsAreSound
<1> QED
  BY <1>1, IntakeInvariant, PTL

=============================================================================

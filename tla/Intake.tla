-------------------------------- MODULE Intake --------------------------------
(***************************************************************************)
(* How a job comes into being, from the form of the job page or a client   *)
(* of the external API to the payload that its executor gets.              *)
(*                                                                         *)
(*   POST  checks the year, the ODS or the roster, then files and          *)
(*         parameters against the bundle, and makes the job in two         *)
(*         statements: the row, and the row's files;                       *)
(*   PUT   the client uploads the files to S3 with presigned URLs;         *)
(*   start marks the files as uploaded (the API checks that they are, the  *)
(*         page vouches for it), makes a run and launches its executor,    *)
(*         with the right to read the roster file if the job has no ODS;   *)
(*   GET   the executor fetches its payload, made from the settings of     *)
(*         that moment.                                                    *)
(*                                                                         *)
(* Settings change at every moment in between: ODS configurations as       *)
(* OdsStore promises, the school years and the partner's switch for        *)
(* cross-year matching as admins like, and roster files arrive.  A process *)
(* may crash, a call may fail and an answer may get lost.  Runs after the  *)
(* first and their ends are RunLifecycle's.                                *)
(***************************************************************************)
EXTENDS OdsStore

CONSTANTS
  Pages, ApiClients,               \* one submission form each, one API client each
  RequiredFiles, OptionalFiles,    \* of the bundle
  OtherFiles,                      \* what else clients may offer
  MaxJobs, MaxChanges              \* bounds on jobs and on changes of the settings

VARIABLES
  schoolYear, \* school_year_config rows
  crossYear,  \* the partner's crossYearMatchingEnabled
  roster,     \* years that have a roster file in S3
  changes,    \* number of changes so far
  client,     \* what each client is doing
  job,        \* job rows by id
  stored,     \* input files in S3
  payload     \* what the executor of a job's run was told

settings == <<config, schoolYear, crossYear, roster, changes>>
vars == <<settings, client, job, stored, payload>>

Clients == Pages \cup ApiClients
Jobs == 1..MaxJobs
Files == RequiredFiles \cup OptionalFiles
Offers == SUBSET (Files \cup OtherFiles)
\* apiYear: the value that the client gives for API_YEAR, a parameter of the bundle.
Client == [pc : {"resolve", "roster", "create"}, year : Years, apiYear : Years, files : Offers,
           ods : Configs \cup {None}, crossYear : BOOLEAN] \cup
          [pc : {"files"}, job : Jobs, files : Offers] \cup [pc : {"upload", "start"}, job : Jobs]
\* crossYear: the switch was on when the job was accepted; started: it has
\* a run; mayRead: the years whose roster file the executor may read;
\* outdated: the connections that had been replaced when the run started.
\* (The first and the last are for the properties.)
Job == [year : Years, apiYear : Years, ods : Configs \cup {None}, crossYear : BOOLEAN,
        files : SUBSET Files, uploaded : BOOLEAN, started : BOOLEAN, mayRead : SUBSET Years,
        outdated : SUBSET Connections]
Payload == [apiYear : Years, connection : Connections \cup {None},
            roster : {"ods", "edu", "file"}]

ASSUME IntakeConstantsOK ==
  /\ MaxJobs \in Nat /\ MaxChanges \in Nat
  /\ Pages \cap ApiClients = {} /\ RequiredFiles \cap OptionalFiles = {}
  /\ None \notin Client /\ None \notin Job /\ None \notin Payload

IntakeTypeOK ==
  /\ schoolYear \in [Years -> [isEnabled : BOOLEAN, sendToOds : BOOLEAN]]
  /\ crossYear \in BOOLEAN /\ roster \subseteq Years /\ changes \in 0..MaxChanges
  /\ client \in [Clients -> Client \cup {None}]
  /\ job \in [Jobs -> Job \cup {None}]
  /\ stored \subseteq Jobs \X Files
  /\ payload \in [Jobs -> Payload \cup {None}]

IntakeInit ==
  /\ Init
  /\ schoolYear \in [Years -> {[isEnabled |-> TRUE, sendToOds |-> b] : b \in BOOLEAN}]
  /\ crossYear \in BOOLEAN /\ roster = {} /\ changes = 0
  /\ client = [c \in Clients |-> None]
  /\ job = [j \in Jobs |-> None]
  /\ stored = {}
  /\ payload = [j \in Jobs |-> None]

-----------------------------------------------------------------------------
(* The settings.                                                            *)

Change ==
  /\ changes < MaxChanges /\ changes' = changes + 1
  /\ UNCHANGED <<client, job, stored, payload>>

ChangeOds == Change /\ Next /\ UNCHANGED <<schoolYear, crossYear, roster>>

ChangeYear(y) ==
  /\ Change
  /\ \E row \in [isEnabled : BOOLEAN, sendToOds : BOOLEAN] :
       row # schoolYear[y] /\ schoolYear' = [schoolYear EXCEPT ![y] = row]
  /\ UNCHANGED <<config, crossYear, roster>>

ChangeCrossYear ==
  /\ Change
  /\ crossYear' = ~crossYear
  /\ UNCHANGED <<config, schoolYear, roster>>

RosterArrives(y) ==
  /\ Change
  /\ y \notin roster /\ roster' = roster \cup {y}
  /\ UNCHANGED <<config, schoolYear, crossYear>>

-----------------------------------------------------------------------------
(* POST.                                                                    *)

At(c, pc) == client[c] # None /\ client[c].pc = pc
Goes(c, pc) == client' = [client EXCEPT ![c].pc = pc]
EndsFor(c) == client' = [client EXCEPT ![c] = None]

Post(c, y, apiYear, files) ==
  /\ client[c] = None
  /\ client' = [client EXCEPT ![c] =
       [pc |-> "resolve", year |-> y, apiYear |-> apiYear, files |-> files, ods |-> None,
        crossYear |-> FALSE]]
  /\ UNCHANGED <<settings, job, stored, payload>>

(* The form insists on the required files and leaves API_YEAR out.  Years   *)
(* without ODS or roster cannot be chosen, by settings that may have changed*)
(* since.  It stays, with what was entered, until a start has succeeded.    *)
Submit(p, y, files) == RequiredFiles \subseteq files /\ Post(p, y, y, files)

Initialize(a, y, apiYear, files) == Post(a, y, apiYear, files)

\* Faulty variant: the configuration of any year will do.
OdsFor_Any(y) == {c \in Configs : InForce(c)}

OdsFor(y) == {c \in OfYear(y) : InForce(c)}

ResolveJobDestination(c) ==
  /\ At(c, "resolve")
  /\ LET y == client[c].year IN
     \/ ~schoolYear[y].isEnabled /\ EndsFor(c)
     \/ /\ schoolYear[y].isEnabled /\ schoolYear[y].sendToOds
        /\ \/ OdsFor(y) = {} /\ EndsFor(c)
           \/ \E ods \in OdsFor(y) :
                client' = [client EXCEPT ![c].pc = "create", ![c].ods = ods]
     \/ schoolYear[y].isEnabled /\ ~schoolYear[y].sendToOds /\ Goes(c, "roster")
  /\ UNCHANGED <<settings, job, stored, payload>>

\* Faulty variant: the file is not looked for.
RosterFor_Unchecked(y) == TRUE

RosterFor(y) == crossYear \/ y \in roster

CheckRoster(c) ==
  /\ At(c, "roster")
  /\ IF RosterFor(client[c].year)
     THEN client' = [client EXCEPT ![c].pc = "create", ![c].crossYear = crossYear]
     ELSE EndsFor(c)
  /\ UNCHANGED <<settings, job, stored, payload>>

\* Faulty variant: files that the bundle does not know are accepted.
FilesFit_Required(files) == RequiredFiles \subseteq files

\* The files are ones the template has, with all it requires; parameters are
\* checked in the same way, and a bundle that is not found is refused too.
FilesFit(files) == files \subseteq Files /\ RequiredFiles \subseteq files

IsNext(rows, id) == rows[id] = None /\ \A i \in DOMAIN rows : i < id => rows[i] # None

CreateJob(c, j) ==
  /\ At(c, "create") /\ FilesFit(client[c].files) /\ IsNext(job, j)
  /\ LET r == client[c] IN
     job' = [job EXCEPT ![j] =
       [year |-> r.year, apiYear |-> r.apiYear, ods |-> r.ods, crossYear |-> r.crossYear,
        files |-> {}, uploaded |-> FALSE, started |-> FALSE, mayRead |-> {}, outdated |-> {}]]
  /\ client' = [client EXCEPT ![c] = [pc |-> "files", job |-> j, files |-> @.files]]
  /\ UNCHANGED <<settings, stored, payload>>

RefuseFiles(c) ==
  /\ At(c, "create") /\ ~FilesFit(client[c].files)
  /\ EndsFor(c)
  /\ UNCHANGED <<settings, job, stored, payload>>

CreateFiles(c) ==
  /\ At(c, "files")
  /\ job' = [job EXCEPT ![client[c].job].files = client[c].files]
  /\ client' = [client EXCEPT ![c] = [pc |-> "upload", job |-> @.job]]
  /\ UNCHANGED <<settings, stored, payload>>

-----------------------------------------------------------------------------
(* Upload and start.                                                        *)

Upload(c, f) ==
  /\ At(c, "upload") /\ f \in job[client[c].job].files
  /\ stored' = stored \cup {<<client[c].job, f>>}
  /\ UNCHANGED <<settings, client, job, payload>>

AllStored(j) == {j} \X job[j].files \subseteq stored

\* Faulty variant: the page goes on when the first upload is done.
UploadsDone_First(j) == \E f \in job[j].files : <<j, f>> \in stored

UploadsDone(j) == AllStored(j)

(* The page waits for all of the uploads; an API client may be early.      *)
CallStart(c) ==
  /\ At(c, "upload") /\ (c \in Pages => UploadsDone(client[c].job))
  /\ Goes(c, "start")
  /\ UNCHANGED <<settings, job, stored, payload>>

StartRefused(a) ==
  /\ a \in ApiClients /\ At(a, "start") /\ ~AllStored(client[a].job)
  /\ Goes(a, "upload")
  /\ UNCHANGED <<settings, job, stored, payload>>

\* Faulty variant: no right to the file while EDU supplies the roster.
Rights_IfNeeded(j) == IF job[j].ods = None /\ ~crossYear THEN {job[j].year} ELSE {}

Rights(j) == IF job[j].ods = None THEN {job[j].year} ELSE {}

Outdated(j) == IF job[j].ods = None THEN {} ELSE config[job[j].ods].replaced

(* A run that has not ended lets no other start; the answer of a start may *)
(* get lost or tell of a failure to launch, and an API client tries again. *)
Start(c) ==
  LET j == client[c].job IN
  /\ At(c, "start") /\ (c \in ApiClients => AllStored(j))
  /\ job' = IF job[j].started THEN job ELSE
       [job EXCEPT ![j].uploaded = TRUE, ![j].started = TRUE, ![j].mayRead = Rights(j),
                   ![j].outdated = Outdated(j)]
  /\ \/ EndsFor(c)
     \/ c \in ApiClients /\ Goes(c, "upload")
  /\ UNCHANGED <<settings, stored, payload>>

(* A crash of the process, a failed call, a lost answer: the client sees an *)
(* error or nothing at all, and forgets the job.                            *)
Fail(c) ==
  /\ client[c] # None
  /\ EndsFor(c)
  /\ UNCHANGED <<settings, job, stored, payload>>

-----------------------------------------------------------------------------
(* GET: the payload.                                                        *)

\* Faulty variant: what the client says is the year goes.
ApiYear_FromUser(j) == job[j].apiYear

ApiYear(j) == job[j].year

RosterSource(j) ==
  CASE job[j].ods # None -> "ods" [] job[j].ods = None /\ crossYear -> "edu" [] OTHER -> "file"

\* Faulty variant: the configuration's first connection is taken.
ConnectionOf_First(ods) == CHOOSE k \in Used(ods) : \A l \in Used(ods) : k <= l

ConnectionOf(ods) == config[ods].active

EarthbeamInputForRun(j) ==
  /\ job[j] # None /\ job[j].started /\ payload[j] = None
  /\ payload' = [payload EXCEPT ![j] =
       [apiYear |-> ApiYear(j),
        connection |-> IF job[j].ods = None THEN None ELSE ConnectionOf(job[j].ods),
        roster |-> RosterSource(j)]]
  /\ UNCHANGED <<settings, client, job, stored>>

ClientStep(c) ==
  \/ \E j \in Jobs : CreateJob(c, j)
  \/ \E f \in Files : Upload(c, f)
  \/ ResolveJobDestination(c) \/ CheckRoster(c) \/ RefuseFiles(c) \/ CreateFiles(c)
  \/ CallStart(c) \/ StartRefused(c) \/ Start(c) \/ Fail(c)

IntakeNext ==
  \/ \E p \in Pages, y \in Years, fs \in SUBSET Files : Submit(p, y, fs)
  \/ \E a \in ApiClients, y, z \in Years, fs \in Offers : Initialize(a, y, z, fs)
  \/ \E c \in Clients : ClientStep(c)
  \/ \E j \in Jobs : EarthbeamInputForRun(j)
  \/ ChangeOds \/ ChangeCrossYear
  \/ \E y \in Years : ChangeYear(y) \/ RosterArrives(y)

IntakeSpec == IntakeInit /\ [][IntakeNext]_vars

-----------------------------------------------------------------------------
(* Whatever is changed between intake and payload, the executor loads the  *)
(* results with the job's school year, into an ODS of that year, with a    *)
(* connection of that ODS which was in force when the run started or came  *)
(* into force later; a job without an ODS gets no connection at all.       *)
PayloadFitsJob ==
  \A j \in Jobs : payload[j] # None =>
    /\ payload[j].apiYear = job[j].year
    /\ (payload[j].connection = None) <=> (job[j].ods = None)
    /\ job[j].ods # None =>
         /\ config[job[j].ods].year = job[j].year
         /\ payload[j].connection \in Used(job[j].ods) \ job[j].outdated

(* An executor that is told to take the roster from S3 may read the file,  *)
(* and finds it - unless the job was accepted because EDU would supply the *)
(* roster, and the partner's switch was turned off before the payload was  *)
(* made (nothing checks for the file again).                               *)
RosterIsThere ==
  \A j \in Jobs : payload[j] # None /\ payload[j].roster = "file" =>
    /\ job[j].year \in job[j].mayRead
    /\ job[j].crossYear \/ job[j].year \in roster

(* No executor is launched for a job that a crash has left without its     *)
(* files, or whose files are not all there.                                *)
StartedJobsAreWhole ==
  \A j \in Jobs : job[j] # None /\ job[j].started =>
    RequiredFiles \subseteq job[j].files /\ AllStored(j)

(* Jobs are typed, and one that starts has all its files, stored.           *)
JobsAreSound == IntakeTypeOK /\ StartedJobsAreWhole

=============================================================================

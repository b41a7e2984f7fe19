------------------------------ MODULE JobOutputs ------------------------------
(***************************************************************************)
(* What a job's runs leave behind and what is shown of it.                 *)
(*                                                                         *)
(* The executor of a run uploads the file of unmatched students and then   *)
(* its output sets, and reports each set; the app lists the files it finds *)
(* for the set, and when the run ends everything it finds for the job.     *)
(* All runs of a job write to the same place in S3.  The app derives the   *)
(* job's status from its last run, lets users mark it as resolved, and     *)
(* lists the sets of successful runs to API clients, who poll with the     *)
(* createdAt of the last set they got as createdAfter.                     *)
(*                                                                         *)
(* Runs of one job do not overlap here: RunLifecycle is about when they do *)
(* not.  Resource errors, the other way of completing with errors, are     *)
(* part of a run's own summary and left out.                               *)
(***************************************************************************)
EXTENDS Naturals, FiniteSets, FiniteSetsExt

CONSTANTS
  Jobs, Files,      \* Files: the resources a bundle may produce
  MaxRuns,          \* bound on the runs of all jobs
  Requests,         \* requests to resolve a job that can be under way together
  None,             \* "no value yet"
  Unlisted          \* for the output files of a run: S3 could not be listed

ASSUME MaxRunsOK == MaxRuns \in Nat

VARIABLES
  job,        \* of each run
  status,     \* of each run
  plan,       \* what the run's executor has produced, as S3 keys
  left,       \* what of it is not uploaded yet
  toReport,   \* directories of sets it has not dealt with yet
  stored,     \* the objects of each job in S3
  fileSet,    \* run_output_file_set, by run and directory
  unsaved,    \* the sets whose report the app has answered with an error
  outputFile, \* run_output_file, by run
  resolved,   \* isResolved of each job
  resolving,  \* the job each resolve request has checked, and the value it will write
  clock,      \* createdOn of the newest set
  cursor,     \* createdAfter of the client's next poll
  polled      \* the sets it has got

runVars  == <<job, status, plan, left, toReport>>
rowVars  == <<fileSet, unsaved, outputFile, clock>>
userVars == <<resolved, resolving>>
clientVars == <<cursor, polled>>
vars == <<runVars, stored, rowVars, userVars, clientVars>>

Runs == 1..MaxRuns
Dirs == {"ods", "non-ods"}
Key(dir, file) == [dir |-> dir, file |-> file]
Unmatched == Key("output", "input_no_student_id_match.csv")
Keys == {Key(d, f) : d \in Dirs, f \in Files} \cup {Unmatched}
FileSets == [files : SUBSET Files, createdOn : 1..(2 * MaxRuns)]

(* "No value yet" is none of the values that it stands beside.              *)
ASSUME NoneOK ==
  /\ None \notin Jobs /\ None \notin FileSets /\ None \notin [job : Jobs, value : BOOLEAN]
  /\ None \notin {"running", "success", "error", "complete with errors"}

TypeOK ==
  /\ job \in [Runs -> Jobs \cup {None}]
  /\ status \in [Runs -> {None, "running", "success", "error"}]
  /\ plan \in [Runs -> SUBSET Keys] /\ left \in [Runs -> SUBSET Keys]
  /\ toReport \in [Runs -> SUBSET Dirs]
  /\ stored \in [Jobs -> SUBSET Keys]
  /\ fileSet \in [Runs -> [Dirs -> FileSets \cup {None}]]
  /\ unsaved \subseteq Runs \X Dirs
  /\ outputFile \in [Runs -> (SUBSET Keys) \cup {None, Unlisted}]
  /\ resolved \in [Jobs -> BOOLEAN]
  /\ resolving \in [Requests -> [job : Jobs, value : BOOLEAN] \cup {None}]
  /\ clock \in 0..(2 * MaxRuns) /\ cursor \in 0..(2 * MaxRuns)
  /\ polled \subseteq Runs \X Dirs

Init ==
  /\ job = [r \in Runs |-> None] /\ status = [r \in Runs |-> None]
  /\ plan = [r \in Runs |-> {}] /\ left = [r \in Runs |-> {}]
  /\ toReport = [r \in Runs |-> {}]
  /\ stored = [j \in Jobs |-> {}]
  /\ fileSet = [r \in Runs |-> [d \in Dirs |-> None]]
  /\ unsaved = {} /\ outputFile = [r \in Runs |-> None]
  /\ resolved = [j \in Jobs |-> FALSE] /\ resolving = [q \in Requests |-> None]
  /\ clock = 0 /\ cursor = 0
  /\ polled = {}

-----------------------------------------------------------------------------
(* What the app makes of the rows.                                          *)

RunsOf(j) == {r \in Runs : job[r] = j}
LastRun(j) == Max(RunsOf(j))

FilesSaved(r) == outputFile[r] \notin {None, Unlisted}
HasUnmatchedFile(r) == FilesSaved(r) /\ Unmatched \in outputFile[r]

OriginalStatus(j) ==
  IF RunsOf(j) = {} THEN None
  ELSE IF status[LastRun(j)] = "success" /\ HasUnmatchedFile(LastRun(j)) THEN "complete with errors"
  ELSE status[LastRun(j)]

IsStatusChangeable(j) == resolved[j] \/ OriginalStatus(j) = "complete with errors"

-----------------------------------------------------------------------------
(* A run.                                                                   *)

\* Faulty variant: a job is started again while its last run is under way.
MayStart_Any(j) == j \in Jobs

MayStart(j) == \A r \in RunsOf(j) : status[r] # "running"

(* startJob creates the run; its executor converts the input.  It sends to *)
(* the ODS or not, or, after matching across years, does both.             *)
Start(j, r) ==
  /\ job[r] = None /\ \A q \in Runs : q < r => job[q] # None
  /\ MayStart(j)
  /\ job' = [job EXCEPT ![r] = j]
  /\ status' = [status EXCEPT ![r] = "running"]
  /\ \E dirs \in (SUBSET Dirs) \ {{}}, keys \in SUBSET Keys :
       /\ \A k \in keys : k.dir \in dirs \cup {"output"}
       /\ plan' = [plan EXCEPT ![r] = keys]
       /\ left' = [left EXCEPT ![r] = keys]
       /\ toReport' = [toReport EXCEPT ![r] = dirs]
  /\ UNCHANGED <<stored, rowVars, userVars, clientVars>>

(* First the unmatched students, then set by set.                          *)
NextUp(r) ==
  IF Unmatched \in left[r] THEN "output" ELSE IF "ods" \in toReport[r] THEN "ods" ELSE "non-ods"

Upload(r, k) ==
  /\ status[r] = "running"
  /\ k \in left[r] /\ k.dir = NextUp(r)
  /\ left' = [left EXCEPT ![r] = @ \ {k}]
  /\ stored' = [stored EXCEPT ![job[r]] = @ \cup {k}]
  /\ UNCHANGED <<job, status, plan, toReport, rowVars, userVars, clientVars>>

KeysOf(keys, d) == {k \in keys : k.dir = d}

\* Faulty variant: a set is reported before its files are there.
SetUploaded_First(r, d) == Unmatched \notin left[r]

SetUploaded(r, d) == KeysOf(left[r], d) = {}

\* Faulty variant: all files of the job are listed.
ListFilesAtPath_OfJob(j, d) == {k.file : k \in stored[j]}

ListFilesAtPath(j, d) == {k.file : k \in KeysOf(stored[j], d)}

(* A set without files is not reported.  If S3 cannot be listed or the row *)
(* not be written, the app answers with an error, which the executor does  *)
(* not look at: it goes on as if the set had been saved.                   *)
SaveFileSet(r, d) ==
  /\ clock' = clock + 1
  /\ fileSet' = [fileSet EXCEPT ![r][d] =
       [files |-> ListFilesAtPath(job[r], d), createdOn |-> clock']]
  /\ UNCHANGED unsaved

ReportOutputFiles(r, d) ==
  /\ status[r] = "running"
  /\ d \in toReport[r] /\ d = NextUp(r)
  /\ SetUploaded(r, d)
  /\ toReport' = [toReport EXCEPT ![r] = @ \ {d}]
  /\ \/ KeysOf(plan[r], d) = {} /\ UNCHANGED <<fileSet, unsaved, clock>>
     \/ KeysOf(plan[r], d) # {} /\ SaveFileSet(r, d)
     \/ /\ KeysOf(plan[r], d) # {} /\ unsaved' = unsaved \cup {<<r, d>>}
        /\ UNCHANGED <<fileSet, clock>>
  /\ UNCHANGED <<job, status, plan, left, stored, outputFile, userVars, clientVars>>

AllReported(r) == toReport[r] = {} /\ left[r] = {}

(* The executor reports that it is done, or that it failed on the way.     *)
SetTerminalStatus(r) ==
  /\ status[r] = "running"
  /\ \/ AllReported(r) /\ status' = [status EXCEPT ![r] = "success"]
     \/ status' = [status EXCEPT ![r] = "error"]
  /\ UNCHANGED <<job, plan, left, toReport, stored, rowVars, userVars, clientVars>>

\* Faulty variant: the output files of failed runs only are saved.
FilesToSave_OfFailures(r) == IF status[r] = "error" THEN stored[job[r]] ELSE {}

FilesToSave(r) == stored[job[r]]

(* If S3 cannot be listed, the run keeps its status and gets no files.     *)
SaveOutputFiles(r) ==
  /\ status[r] \in {"success", "error"} /\ outputFile[r] = None
  /\ outputFile' \in {[outputFile EXCEPT ![r] = f] : f \in {FilesToSave(r), Unlisted}}
  /\ UNCHANGED <<runVars, stored, fileSet, unsaved, clock, userVars, clientVars>>

-----------------------------------------------------------------------------
(* Users and API clients.                                                   *)

\* Faulty variant: every job whose last run has ended can be resolved.
MayResolve_Ended(j) == OriginalStatus(j) \notin {None, "running"}

MayResolve(j) == IsStatusChangeable(j)

(* A request reads the job and its runs, and writes later what it was      *)
(* asked for.  Any number of them may be at it, for one job, too.          *)
CheckResolve(q, j) ==
  /\ resolving[q] = None
  /\ MayResolve(j)
  /\ \E value \in BOOLEAN : resolving' = [resolving EXCEPT ![q] = [job |-> j, value |-> value]]
  /\ UNCHANGED <<runVars, stored, rowVars, resolved, clientVars>>

Resolve(q) ==
  /\ resolving[q] # None
  /\ resolved' = [resolved EXCEPT ![resolving[q].job] = resolving[q].value]
  /\ resolving' = [resolving EXCEPT ![q] = None]
  /\ UNCHANGED <<runVars, stored, rowVars, clientVars>>

SetsOf(r) == {<<r, d>> : d \in {d \in Dirs : fileSet[r][d] # None}}
CreatedOn(s) == fileSet[s[1]][s[2]].createdOn

\* Faulty variant: the sets of runs under way are listed, too.
Listed_All == UNION {SetsOf(r) : r \in Runs}

Listed == UNION {SetsOf(r) : r \in {r \in Runs : status[r] = "success"}}

Poll ==
  LET new == {s \in Listed : CreatedOn(s) > cursor} IN
  /\ new # {}
  /\ polled' = polled \cup new
  /\ cursor' = Max({CreatedOn(s) : s \in new})
  /\ UNCHANGED <<runVars, stored, rowVars, userVars>>

RunStep(r) ==
  \/ \E k \in Keys : Upload(r, k)
  \/ \E d \in Dirs : ReportOutputFiles(r, d)
  \/ SetTerminalStatus(r)
  \/ SaveOutputFiles(r)

Next ==
  \/ \E j \in Jobs, r \in Runs : Start(j, r)
  \/ \E r \in Runs : RunStep(r)
  \/ \E q \in Requests : Resolve(q) \/ \E j \in Jobs : CheckResolve(q, j)
  \/ Poll

Spec == Init /\ [][Next]_vars

-----------------------------------------------------------------------------
(* A set has every file that its run produced for it, whatever else        *)
(* happens: it is listed only when all of them are there.                  *)
SetsAreComplete ==
  \A r \in Runs, d \in Dirs : fileSet[r][d] # None =>
    {k.file : k \in KeysOf(plan[r], d)} \subseteq fileSet[r][d].files

(* The API never lists half of a run: the sets of a run become visible     *)
(* together, when it has succeeded, and all that it produced is in them,   *)
(* but for a set whose report the app has answered with an error.          *)
RunsAppearWhole ==
  \A r \in Runs : (\E d \in Dirs : <<r, d>> \in Listed) =>
    \A k \in plan[r] \ {Unmatched} :
      \/ <<r, k.dir>> \in unsaved
      \/ <<r, k.dir>> \in Listed /\ k.file \in fileSet[r][k.dir].files

(* What the runs of j before r have left in S3.                             *)
LeftBefore(j, r) == UNION {plan[q] \ left[q] : q \in {q \in RunsOf(j) : q < r}}

(* The status of a job tells what its last run did: it is "complete with   *)
(* errors" exactly if that run succeeded and left students unmatched, also *)
(* if earlier runs ended otherwise (unless one of them has left a file of  *)
(* unmatched students, which the run then inherits).                       *)
StatusIsOfLastRun ==
  \A j \in Jobs : RunsOf(j) # {} /\ FilesSaved(LastRun(j)) =>
    LET r == LastRun(j) IN
    \/ Unmatched \in LeftBefore(j, r)
    \/ (OriginalStatus(j) = "complete with errors") = (status[r] = "success" /\ Unmatched \in plan[r])

(* A set has no file but what its own run produced for it and what earlier *)
(* runs of the same job have left in its directory.                        *)
SetsAreOfTheirJob ==
  \A r \in Runs, d \in Dirs : fileSet[r][d] # None =>
    \A f \in fileSet[r][d].files : Key(d, f) \in plan[r] \cup LeftBefore(job[r], r)

(* A client that polls from the newest set it has got loses a set for good *)
(* only behind one of another job: the sets of one job are listed in the   *)
(* order in which they were stamped, although they are stamped before they *)
(* are listed, and one run may fail and the next succeed.                  *)
MissedBehindOthersOnly ==
  \A s \in Listed \ polled : CreatedOn(s) <= cursor =>
    \E t \in polled : job[t[1]] # job[s[1]] /\ CreatedOn(s) <= CreatedOn(t)

(* The sets of a run: typed, whole when they appear, of their own job, and *)
(* seen by the clients that follow the job.                                *)
SetsAreSound ==
  TypeOK /\ SetsAreComplete /\ RunsAppearWhole /\ SetsAreOfTheirJob /\ MissedBehindOthersOnly

(* A job that is marked as resolved has had errors to resolve: one of its  *)
(* runs has succeeded and left students unmatched, however many requests   *)
(* were at it and whatever has been started since they looked.             *)
HasHadErrors(j) == \E r \in RunsOf(j) : status[r] = "success" /\ HasUnmatchedFile(r)

ResolvedJobsHadErrors == \A j \in Jobs : resolved[j] => HasHadErrors(j)

=============================================================================

----------------------------- MODULE RunLifecycle -----------------------------
(***************************************************************************)
(* A run from the start request to the "run complete" event.               *)
(*                                                                         *)
(* Three kinds of process meet in the run's database rows:                 *)
(*                                                                         *)
(*   - start requests (PUT jobs/:id/start and the external API's POST      *)
(*     jobs/:uid/start), which create the run and launch the executor;     *)
(*   - the executor, one process per launched run, which trades its init   *)
(*     token for an access token, does its work and reports how it ended;  *)
(*   - the API's handlers of what the executor sends: init, error, and     *)
(*     the status update "done", which completes the run.                  *)
(*                                                                         *)
(* Every handler is split where it awaits the database, S3 or AWS, because *)
(* other handlers run there.  What the executor does between init and its  *)
(* last messages is the subject of module Executor; here it succeeds or    *)
(* fails.                                                                  *)
(*                                                                         *)
(* Disturbances names what the environment may do beyond the ordinary.     *)
(***************************************************************************)
EXTENDS Naturals

CONSTANTS
  Jobs,              \* jobs whose configuration and files are complete
  Runs,              \* identities a run row can take: bounds the runs
  Starts,            \* start requests: bounds them
  JobOf,             \* the job each start request names
  MaxInitAttempts,   \* how often the executor's HTTP client sends init at most
  NoJob, NoRun,      \* "none" values
  Disturbances       \* a subset of the list below

(* concurrent_starts  a client starts a job while its last start is open   *)
(* late_launch_error  executor.start throws though the task does run       *)
(* handler_dies       a handler ends between two awaits: restart, DB error *)
(* response_lost      the answer to init is lost and the HTTP client       *)
(*                    (urllib3 Retry) sends the GET again                  *)
(* overlapping_inits  the same while the first handler is still at work    *)
(* post_lost          an error or done POST fails; its answer is not read  *)
(* late_alarm         SIGALRM goes off while the executor cleans up after  *)
(*                    a failure or reports its end                         *)
(* executor_killed    the container ends without running its handlers      *)
(* slow_boot          the init token expires before its first use          *)
(* bad_payload        the job payload cannot be built or unpacked          *)
(* event_lost         EventBridge does not take the run_complete event     *)
KnownDisturbances ==
  {"concurrent_starts", "late_launch_error", "handler_dies", "response_lost",
   "overlapping_inits", "post_lost", "late_alarm", "executor_killed", "slow_boot",
   "bad_payload", "event_lost"}

(* What the code itself does not guard against: two handlers working on    *)
(* one job or one token at the same time.                                  *)
Orderly ==
  Disturbances \cap {"concurrent_starts", "late_launch_error", "overlapping_inits"} = {}

ASSUME ConstantsOK ==
  /\ JobOf \in [Starts -> Jobs]
  /\ MaxInitAttempts \in Nat \ {0}
  /\ NoJob \notin Jobs
  /\ NoRun \notin Runs
  /\ Disturbances \subseteq KnownDisturbances

VARIABLES
  runJob,      \* run.job_id
  runStatus,   \* run.status, "absent" while there is no row
  doneRows,    \* run_update rows with action "done", by their status
  runErrors,   \* run_error rows, by who wrote them
  startPc,     \* where each start request is
  startRun,    \* the run a start request created
  initPc,      \* where each init request of a run is
  executor,    \* where the run's executor process is
  unreported,  \* runs whose executor failed without its error reaching the API
  outcome,     \* body.status of the "done" update the API accepted
  completion,  \* where the handler of that update is
  errorsRead   \* completeRun's copy of the run had error rows

rowVars  == <<runJob, runStatus, doneRows, runErrors>>
doneVars == <<unreported, outcome, completion, errorsRead>>
vars == <<runJob, runStatus, doneRows, runErrors, startPc, startRun, initPc,
          executor, unreported, outcome, completion, errorsRead>>

Rows == INSTANCE JobRuns
Unfinished == Rows!Unfinished
Terminal == Rows!Terminal

Attempts == 1..MaxInitAttempts
Outcomes == {"success", "failure"}

StartOpen == {"clear", "created", "launch_failed"}
StartPcs  == StartOpen \cup {"idle", "in_progress", "started", "start_failed", "died"}
InitOpen  == {"received", "read_new"}
InitPcs   == InitOpen \cup {"unsent", "granted", "refused", "died"}
ExecutorPcs ==
  {"absent", "booting", "initialising", "holding_token", "working",
   "failed", "reported", "succeeded", "exited"}
CompletionOpen == {"inserted", "status_set", "files_saved"}
CompletionPcs  == CompletionOpen \cup {"none", "emitted", "not_emitted", "died"}

TypeOK ==
  /\ runJob \in [Runs -> Jobs \cup {NoJob}]
  /\ runStatus \in [Runs -> Rows!RunStatus \cup {"absent"}]
  /\ doneRows \in [Runs -> SUBSET Outcomes]
  /\ runErrors \in [Runs -> SUBSET {"start", "executor"}]
  /\ startPc \in [Starts -> StartPcs]
  /\ startRun \in [Starts -> Runs \cup {NoRun}]
  /\ initPc \in [Runs -> [Attempts -> InitPcs]]
  /\ executor \in [Runs -> ExecutorPcs]
  /\ unreported \subseteq Runs
  /\ outcome \in [Runs -> Outcomes \cup {"none"}]
  /\ completion \in [Runs -> CompletionPcs]
  /\ errorsRead \in [Runs -> BOOLEAN]

Init ==
  /\ runJob = [r \in Runs |-> NoJob]
  /\ runStatus = [r \in Runs |-> "absent"]
  /\ doneRows = [r \in Runs |-> {}]
  /\ runErrors = [r \in Runs |-> {}]
  /\ startPc = [q \in Starts |-> "idle"]
  /\ startRun = [q \in Starts |-> NoRun]
  /\ initPc = [r \in Runs |-> [i \in Attempts |-> "unsent"]]
  /\ executor = [r \in Runs |-> "absent"]
  /\ unreported = {}
  /\ outcome = [r \in Runs |-> "none"]
  /\ completion = [r \in Runs |-> "none"]
  /\ errorsRead = [r \in Runs |-> FALSE]

-----------------------------------------------------------------------------
(* Start requests: JobsService.startJob.                                    *)

StartGoes(q, from, to) ==
  /\ startPc[q] = from
  /\ startPc' = [startPc EXCEPT ![q] = to]

OpenStarts(j) == {q \in Starts : JobOf[q] = j /\ startPc[q] \in StartOpen}

\* Faulty variant: a run that has not called in yet does not count.
InProgress_OnlyRunning(j) == \E r \in Runs : runJob[r] = j /\ runStatus[r] = "running"

InProgress(j) == Rows!UnfinishedRuns(j) # {}

(* The route marks the job's files uploaded, so the configuration check    *)
(* passes; then findMany and the in-progress test.                         *)
CheckInProgress(q) ==
  /\ "concurrent_starts" \in Disturbances \/ OpenStarts(JobOf[q]) = {}
  /\ StartGoes(q, "idle", IF InProgress(JobOf[q]) THEN "in_progress" ELSE "clear")
  /\ UNCHANGED <<rowVars, startRun, initPc, executor, doneVars>>

(* run.create: another statement, so the test may no longer hold.          *)
CreateRun(q, r) ==
  /\ runStatus[r] = "absent"
  /\ StartGoes(q, "clear", "created")
  /\ startRun' = [startRun EXCEPT ![q] = r]
  /\ runJob' = [runJob EXCEPT ![r] = JobOf[q]]
  /\ runStatus' = [runStatus EXCEPT ![r] = "new"]
  /\ UNCHANGED <<doneRows, runErrors, initPc, executor, doneVars>>

(* executor.start returns, or throws before or after the task exists.      *)
LaunchExecutor(q) ==
  /\ StartGoes(q, "created", "started")
  /\ executor' = [executor EXCEPT ![startRun[q]] = "booting"]
  /\ UNCHANGED <<rowVars, startRun, initPc, doneVars>>

LaunchThrows(q) ==
  /\ StartGoes(q, "created", "launch_failed")
  /\ UNCHANGED <<rowVars, startRun, initPc, executor, doneVars>>

LaunchThrowsLate(q) ==
  /\ "late_launch_error" \in Disturbances
  /\ StartGoes(q, "created", "launch_failed")
  /\ executor' = [executor EXCEPT ![startRun[q]] = "booting"]
  /\ UNCHANGED <<rowVars, startRun, initPc, doneVars>>

\* Faulty variant: the nested write leaves the run_update row out.
LaunchFailureRows_None(rows) == rows

LaunchFailureRows(rows) == rows \cup {"failure"}

(* One nested write: status, error row and done/failure row.  The primary  *)
(* key of run_update makes it throw when the executor's row came first.    *)
RecordLaunchFailure(q) ==
  LET r == startRun[q] IN
  /\ StartGoes(q, "launch_failed", "start_failed")
  /\ "failure" \notin doneRows[r]
  /\ runStatus' = [runStatus EXCEPT ![r] = "error"]
  /\ runErrors' = [runErrors EXCEPT ![r] = @ \cup {"start"}]
  /\ doneRows' = [doneRows EXCEPT ![r] = LaunchFailureRows(@)]
  /\ UNCHANGED <<runJob, startRun, initPc, executor, doneVars>>

StartDies(q) ==
  /\ \/ "handler_dies" \in Disturbances
     \/ startPc[q] = "launch_failed" /\ "failure" \in doneRows[startRun[q]]
  /\ startPc[q] \in StartOpen
  /\ startPc' = [startPc EXCEPT ![q] = "died"]
  /\ UNCHANGED <<rowVars, startRun, initPc, executor, doneVars>>

-----------------------------------------------------------------------------
(* Init: EarthbeamApiAuthService.initRun and the executor's GET.            *)

InitGoes(r, i, from, to) ==
  /\ initPc[r][i] = from
  /\ initPc' = [initPc EXCEPT ![r][i] = to]

ExecutorGoes(r, from, to) ==
  /\ executor[r] = from
  /\ executor' = [executor EXCEPT ![r] = to]

Unsent(r, i) == initPc[r][i] = "unsent"
LastAttempt(r, i) == ~Unsent(r, i) /\ \A k \in Attempts : k > i => Unsent(r, k)

SendInit(r) ==
  /\ ExecutorGoes(r, "booting", "initialising")
  /\ InitGoes(r, 1, "unsent", "received")
  /\ UNCHANGED <<rowVars, startPc, startRun, doneVars>>

\* Faulty variant: any unfinished run may be initialised.
TokenUnused_AnyUnfinished(r) == runStatus[r] \in Unfinished

TokenUnused(r) == runStatus[r] = "new"

(* The transaction's read.  Prisma's default isolation does not lock it.    *)
ReadRunForInit(r, i) ==
  /\ \/ TokenUnused(r) /\ InitGoes(r, i, "received", "read_new")
     \/ /\ ~TokenUnused(r) \/ "slow_boot" \in Disturbances
        /\ InitGoes(r, i, "received", "refused")
  /\ UNCHANGED <<rowVars, startPc, startRun, executor, doneVars>>

(* The transaction's update is by id alone; then the access token is made. *)
SetRunning(r, i) ==
  /\ InitGoes(r, i, "read_new", "granted")
  /\ runStatus' = [runStatus EXCEPT ![r] = "running"]
  /\ UNCHANGED <<runJob, doneRows, runErrors, startPc, startRun, executor, doneVars>>

InitDies(r, i) ==
  /\ "handler_dies" \in Disturbances
  /\ initPc[r][i] \in InitOpen
  /\ initPc' = [initPc EXCEPT ![r][i] = "died"]
  /\ UNCHANGED <<rowVars, startPc, startRun, executor, doneVars>>

(* The client resends; the handler of the lost request is not told.        *)
ResendInit(r, i) ==
  /\ \/ "overlapping_inits" \in Disturbances
     \/ "response_lost" \in Disturbances /\ initPc[r][i] \notin InitOpen
  /\ executor[r] = "initialising"
  /\ LastAttempt(r, i)
  /\ i + 1 \in Attempts
  /\ InitGoes(r, i + 1, "unsent", "received")
  /\ UNCHANGED <<rowVars, startPc, startRun, executor, doneVars>>

ReceiveToken(r, i) ==
  /\ LastAttempt(r, i)
  /\ initPc[r][i] = "granted"
  /\ ExecutorGoes(r, "initialising", "holding_token")
  /\ UNCHANGED <<rowVars, startPc, startRun, initPc, doneVars>>

(* raise_for_status throws before the executor knows where to report.      *)
InitFails(r, i) ==
  /\ LastAttempt(r, i)
  /\ initPc[r][i] \in {"refused", "died"}
  /\ ExecutorGoes(r, "initialising", "exited")
  /\ UNCHANGED <<rowVars, startPc, startRun, initPc, doneVars>>

-----------------------------------------------------------------------------
(* The executor's last messages: execute's except, else and finally.        *)

(* unpack_job sets status_url and error_url first; without them the        *)
(* process can only exit.                                                  *)
FetchJob(r) ==
  /\ \/ ExecutorGoes(r, "holding_token", "working")
     \/ /\ "bad_payload" \in Disturbances
        /\ ExecutorGoes(r, "holding_token", "exited")
  /\ UNCHANGED <<rowVars, startPc, startRun, initPc, doneVars>>

Work(r) ==
  /\ \E pc \in {"succeeded", "failed"} : ExecutorGoes(r, "working", pc)
  /\ UNCHANGED <<rowVars, startPc, startRun, initPc, doneVars>>

ReportsMayFail == {"post_lost", "late_alarm"} \cap Disturbances # {}

(* An alarm in the clean-up replaces the error by a timeout without a      *)
(* stack trace, which send_error cannot convert: it throws before it       *)
(* posts, and finally goes on to "done".                                   *)
SendError(r) ==
  /\ ExecutorGoes(r, "failed", "reported")
  /\ \/ /\ runErrors' = [runErrors EXCEPT ![r] = @ \cup {"executor"}]
        /\ UNCHANGED unreported
     \/ /\ ReportsMayFail
        /\ unreported' = unreported \cup {r}
        /\ UNCHANGED runErrors
  /\ UNCHANGED <<runJob, runStatus, doneRows, startPc, startRun, initPc,
                 outcome, completion, errorsRead>>

\* Faulty variants: done goes out before the error; done only after success.
DoneFrom_BeforeError(s) == IF s = "success" THEN "succeeded" ELSE "failed"
DoneFrom_SuccessOnly(s) == "succeeded"

DoneFrom(s) == IF s = "success" THEN "succeeded" ELSE "reported"

(* updateStatus inserts the row, unless the primary key already exists.    *)
SendDone(r, s) ==
  /\ ExecutorGoes(r, DoneFrom(s), "exited")
  /\ IF s \notin doneRows[r]
       THEN /\ doneRows' = [doneRows EXCEPT ![r] = @ \cup {s}]
            /\ outcome' = [outcome EXCEPT ![r] = s]
            /\ completion' = [completion EXCEPT ![r] = "inserted"]
       ELSE UNCHANGED <<doneRows, outcome, completion>>
  /\ UNCHANGED <<runJob, runStatus, runErrors, startPc, startRun, initPc, unreported,
                 errorsRead>>

LoseDone(r) ==
  /\ ReportsMayFail
  /\ executor[r] \in {"succeeded", "reported"}
  /\ executor' = [executor EXCEPT ![r] = "exited"]
  /\ UNCHANGED <<rowVars, startPc, startRun, initPc, doneVars>>

Killed(r) ==
  /\ "executor_killed" \in Disturbances
  /\ executor[r] \notin {"absent", "exited"}
  /\ executor' = [executor EXCEPT ![r] = "exited"]
  /\ UNCHANGED <<rowVars, startPc, startRun, initPc, doneVars>>

-----------------------------------------------------------------------------
(* The rest of updateStatus("done"): EarthbeamApiService.completeRun.       *)

CompletionGoes(r, from, to) ==
  /\ completion[r] = from
  /\ completion' = [completion EXCEPT ![r] = to]

\* Faulty variants: the body's status as it came; every end a success.
TerminalStatus_Raw(s) == s
TerminalStatus_Success(s) == "success"

TerminalStatus(s) == IF s = "success" THEN "success" ELSE "error"

(* run.update, by id alone, returns the row with its errors as they are.   *)
SetTerminalStatus(r) ==
  /\ CompletionGoes(r, "inserted", "status_set")
  /\ runStatus' = [runStatus EXCEPT ![r] = TerminalStatus(outcome[r])]
  /\ errorsRead' = [errorsRead EXCEPT ![r] = runErrors[r] # {}]
  /\ UNCHANGED <<runJob, doneRows, runErrors, startPc, startRun, initPc, executor,
                 unreported, outcome>>

SaveOutputFiles(r) ==
  /\ CompletionGoes(r, "status_set", "files_saved")
  /\ UNCHANGED <<rowVars, startPc, startRun, initPc, executor, unreported, outcome,
                 errorsRead>>

\* Faulty variant: the update does not return the error rows.
EventHasItsData_NoErrors(r) == outcome[r] = "success"

(* For a failed run the event needs the first error row; without one the   *)
(* TypeError is caught and logged.                                         *)
EventHasItsData(r) == outcome[r] = "success" \/ errorsRead[r]

(* An emit that fails is caught and logged too.                            *)
EmitRunComplete(r) ==
  /\ \/ EventHasItsData(r) /\ CompletionGoes(r, "files_saved", "emitted")
     \/ /\ ~EventHasItsData(r) \/ "event_lost" \in Disturbances
        /\ CompletionGoes(r, "files_saved", "not_emitted")
  /\ UNCHANGED <<rowVars, startPc, startRun, initPc, executor, unreported, outcome,
                 errorsRead>>

CompletionDies(r) ==
  /\ "handler_dies" \in Disturbances
  /\ completion[r] \in CompletionOpen
  /\ completion' = [completion EXCEPT ![r] = "died"]
  /\ UNCHANGED <<rowVars, startPc, startRun, initPc, executor, unreported, outcome,
                 errorsRead>>

-----------------------------------------------------------------------------
StartStep(q) ==
  \/ CheckInProgress(q)
  \/ \E r \in Runs : CreateRun(q, r)
  \/ LaunchExecutor(q)
  \/ LaunchThrows(q)
  \/ LaunchThrowsLate(q)
  \/ RecordLaunchFailure(q)
  \/ StartDies(q)

InitStep(r, i) ==
  \/ ReadRunForInit(r, i)
  \/ SetRunning(r, i)
  \/ InitDies(r, i)
  \/ ResendInit(r, i)
  \/ ReceiveToken(r, i)
  \/ InitFails(r, i)

RunStep(r) ==
  \/ SendInit(r)
  \/ FetchJob(r)
  \/ Work(r)
  \/ SendError(r)
  \/ \E s \in Outcomes : SendDone(r, s)
  \/ LoseDone(r)
  \/ Killed(r)
  \/ SetTerminalStatus(r)
  \/ SaveOutputFiles(r)
  \/ EmitRunComplete(r)
  \/ CompletionDies(r)

Next ==
  \/ \E q \in Starts : StartStep(q)
  \/ \E r \in Runs, i \in Attempts : InitStep(r, i)
  \/ \E r \in Runs : RunStep(r)

Spec == Init /\ [][Next]_vars

(* Requests that were received are worked on, and an executor that runs    *)
(* goes on running: SIGALRM ends its work if nothing else does.  Nobody    *)
(* has to send a start request.                                            *)
Fairness ==
  /\ \A q \in Starts : WF_vars(startPc[q] \in StartOpen /\ StartStep(q))
  /\ \A r \in Runs, i \in Attempts : WF_vars(InitStep(r, i))
  /\ \A r \in Runs : WF_vars(RunStep(r))

FairSpec == Spec /\ Fairness

-----------------------------------------------------------------------------
(* Properties that hold under every disturbance.                            *)

(* A run row says success or error only if the run_update table holds the  *)
(* "done" row that says the same: updateStatus and startJob's catch both   *)
(* write the two, in different orders and from different processes.        *)
EndIsRecorded ==
  \A r \in Runs :
    /\ runStatus[r] = "success" => "success" \in doneRows[r]
    /\ runStatus[r] = "error" => "failure" \in doneRows[r]

(* A run is a success only if its executor was let in with the init token, *)
(* did its work and said so; in particular no start request, resent init   *)
(* or killed executor can make it one.                                     *)
SuccessIsEarned ==
  \A r \in Runs :
    runStatus[r] = "success" =>
      /\ outcome[r] = "success"
      /\ executor[r] = "exited"
      /\ \E i \in Attempts : initPc[r][i] = "granted"

(* Of an executor no more is used here than ExecutorReport promises.       *)
Report(r) == INSTANCE ExecutorReport WITH
  phase <- IF executor[r] \in {"failed", "reported", "succeeded", "exited"}
             THEN executor[r] ELSE "working",
  errorRow <- "executor" \in runErrors[r],
  doneRow <- outcome[r]

ExecutorsReport ==
  /\ \A r \in Runs : Report(r)!Init
  /\ [][\A r \in Runs : [Report(r)!Next]_(Report(r)!vars)]_vars

(* A run that is an error has a row that says why, unless the report of    *)
(* its own executor was lost or could not be made: the failed start writes *)
(* the two together, and the executor sends its error before "done".       *)
FailureIsExplained ==
  \A r \in Runs : runStatus[r] = "error" => runErrors[r] # {} \/ r \in unreported

(* Properties that hold as long as handlers do not overlap (Orderly).       *)

(* An init token opens one session: of all init requests of a run, resent  *)
(* ones included, one at most is answered with an access token             *)
(* (earthbeam-api-auth.service.ts: "cannot use a token twice").            *)
TokenUsedOnce ==
  \A r \in Runs : \A i, k \in Attempts :
    initPc[r][i] = "granted" /\ initPc[r][k] = "granted" => i = k

(* Two executors never work for the same job: they would write to the same *)
(* S3 prefix, which belongs to the job and not to the run.                 *)
ExecutorsDoNotOverlap ==
  \A r1, r2 \in Runs :
    /\ executor[r1] \notin {"absent", "exited"}
    /\ executor[r2] \notin {"absent", "exited"}
    /\ runJob[r1] = runJob[r2]
    => r1 = r2

(* The rows are those of JobRuns: no run is created while another of the   *)
(* job is unfinished, and a run that is over stays as it ended.            *)
ImplementsJobRuns == Rows!Spec

(* "Job already in progress" (jobs.controller.ts:230): a job has at most   *)
(* one run that is not over.  With concurrent_starts the code does not     *)
(* keep that.                                                              *)
OneUnfinishedRun == Rows!OneUnfinishedRun

(* Without disturbances (FairSpec).                                         *)

(* Every run that was created ends, so its job can be started again.       *)
EveryRunEnds ==
  \A r \in Runs : runStatus[r] = "new" ~> runStatus[r] \in Terminal

(* Every run that an executor ended is announced by a run_complete event.  *)
EveryEndIsAnnounced ==
  \A r \in Runs : outcome[r] # "none" ~> completion[r] = "emitted"

=============================================================================

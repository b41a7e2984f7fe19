------------------------------- MODULE Executor -------------------------------
(***************************************************************************)
(* JobExecutor.execute: the program that runs in the container of a run.   *)
(*                                                                         *)
(* One process.  Its try block is a list of steps; a step may first set an *)
(* action, which is two POSTs to the app (the last action succeeded, this  *)
(* one begins), and then does its work.  A step is interrupted by an error *)
(* of its own, by a POST that throws, or by SIGALRM, whose handler throws  *)
(* TimeoutError wherever the program is: in the work, in the except branch *)
(* that reports a failure, or in the last messages.                        *)
(*                                                                         *)
(* Data is kept as far as control depends on it: which artifacts exist,    *)
(* are wanted in S3 and are there; how well the students matched; which    *)
(* error object is set and whether it has the stack trace without which it *)
(* cannot be turned into JSON.                                             *)
(***************************************************************************)
EXTENDS Naturals, Sequences, FiniteSets

CONSTANTS
  None,           \* Python's None, and "no row" of the app
  MaxFailedPosts  \* bound on the POSTs that throw or are refused

ASSUME MaxFailedPostsOK == MaxFailedPosts \in Nat

VARIABLES
  job,          \* what the payload says: sendToOds, crossYearMatchAvailable
  step,         \* the step the try block is at, or was at when it was left
  pc,           \* the part of the step, or of what follows the try block
  action,       \* self.action, "" for none
  error,        \* self.error: its code and whether it has a stack trace
  success,      \* the local variable of execute()
  reachable,    \* status_url and error_url are set
  alarm,        \* SIGALRM: armed, or where it went off
  match,        \* the best match rate and the unmatched rows on record
  ratesFile,    \* what the last pass's match rates file says
  outputSets,   \* by output set, the roster its pass used
  needsUpload,  \* artifacts with needs_upload
  onDisk,       \* artifacts that exist and are not empty
  inS3,         \* artifacts in the job's S3 output directory
  odsGot,       \* the roster behind what lightbeam sent to the ODS
  setsUploaded, \* output sets upload_output is done with
  rows,         \* the app's run_update rows, as <<action, status>>
  errorRow,     \* the code of the app's run_error row
  idMatches,    \* the unmatched count in the app's run row
  failedPosts   \* the POSTs that failed

env      == <<job, success, reachable>>
control  == <<step, pc, action, error, alarm>>
matching == <<match, ratesFile, outputSets>>
files    == <<needsUpload, onDisk, inS3>>
output   == <<odsGot, setsUploaded>>
app      == <<rows, errorRow, idMatches, failedPosts>>
vars     == <<env, control, matching, files, output, app>>

Artifacts == {"roster", "cross_year_roster", "em_results", "em_results_x_year",
              "match_rates", "unmatched", "lb_send_results"}
Rosters == {"this_year", "cross_year", "uploaded"}

(* The try block.  The cross-year steps and lightbeam's are conditional.   *)
Program ==
  <<"init", "unpack_job", "refresh_bundle_code", "earthmover_deps",
    "get_student_roster", "upload_roster", "get_input_files", "map_descriptors",
    "unpack_id_types", "first_pass", "upload_results", "judge_first_pass",
    "cross_year_roster", "upload_cross_year_roster", "second_pass", "upload_x_year_results",
    "judge_second_pass", "upload_match_rates",
    "lightbeam_send", "upload_send_results", "judge_send",
    "report_unmatched", "upload_unmatched", "upload_output", "compile_summary">>
Steps == {Program[i] : i \in DOMAIN Program}
Rank == [s \in Steps |-> CHOOSE i \in DOMAIN Program : Program[i] = s]
Following(s) == Program[Rank[s] + 1]

(* The action a step sets with set_action, if it sets one.                 *)
ActionOf(s) ==
  CASE s \in {"refresh_bundle_code", "earthmover_deps", "get_student_roster",
              "get_input_files", "lightbeam_send", "upload_output"} -> s
    [] s = "unpack_id_types" -> "earthmover_run"
    [] OTHER -> ""
Actions == {ActionOf(s) : s \in Steps} \ {""}
Announcing == {"close", "begin"}
Working == {"body"} \cup Announcing
Cleanup == {"lock_error", "upload_remaining", "update_failure", "send_error"}

(* SIGALRM goes off once: during the work, while a failure is cleaned up   *)
(* or the end announced, or in a request of the work that swallows it.     *)
Alarms == {"armed", "at_work", "late", "swallowed"}

(* How a pass matched: its best rate against REQUIRED_ID_MATCH_RATE, and   *)
(* the rows left over.  Without a match the file has no data rows.         *)
NoMatch == [rate |-> "none", unmatched |-> None]
PassResults ==
  {NoMatch} \cup [rate : {"below"}, unmatched : {1}] \cup [rate : {"enough"}, unmatched : {0, 1}]

Error(code) == [code |-> code, trace |-> FALSE]
NoError == Error(None)
ErrorCodes ==
  {"unknown", "executor_timeout", "invalid_job", "bundle_git_pull", "earthmover_deps",
   "lightbeam_fetch", "missing_ods_roster", "cross_year_roster_fetch", "input_s3_download",
   "earthmover_run", "insufficient_matches", "lightbeam_send", "artifact"}

ASSUME NoneOK == None \notin Nat \cup ErrorCodes \cup Rosters \cup Artifacts

TypeOK ==
  /\ job \in [sendToOds : BOOLEAN, crossYear : BOOLEAN]
  /\ step \in Steps
  /\ pc \in Working \cup Cleanup \cup {"succeeded", "send_done", "exited"}
  /\ action \in Actions \cup {""}
  /\ error \in [code : ErrorCodes \cup {None}, trace : BOOLEAN]
  /\ success \in BOOLEAN
  /\ reachable \in BOOLEAN
  /\ alarm \in Alarms
  /\ match \in PassResults
  /\ ratesFile \in PassResults
  /\ outputSets \in Seq(Rosters)
  /\ needsUpload \subseteq Artifacts
  /\ onDisk \subseteq Artifacts
  /\ inS3 \subseteq Artifacts
  /\ odsGot \in Rosters \cup {None}
  /\ setsUploaded \in 0..2
  /\ rows \subseteq (Actions \cup {"done"}) \X {"begin", "success", "failure"}
  /\ errorRow \in ErrorCodes \cup {None}
  /\ idMatches \in {1, None}
  /\ failedPosts \in 0..MaxFailedPosts

Init ==
  /\ job \in [sendToOds : BOOLEAN, crossYear : BOOLEAN]
  /\ step = "init"
  /\ pc = "body"
  /\ action = ""
  /\ error = NoError
  /\ success = FALSE
  /\ reachable = FALSE
  /\ alarm = "armed"
  /\ match = NoMatch
  /\ ratesFile = NoMatch
  /\ outputSets = <<>>
  /\ needsUpload = {"roster", "em_results", "match_rates", "lb_send_results"}
  /\ onDisk = {}
  /\ inS3 = {}
  /\ odsGot = None
  /\ setsUploaded = 0
  /\ rows = {}
  /\ errorRow = None
  /\ idMatches = None
  /\ failedPosts = 0

-----------------------------------------------------------------------------
(* Control: going on, throwing, posting.                                    *)

Doing(s) == step = s /\ pc = "body"

GoTo(s) ==
  /\ step' = s
  /\ pc' = IF ActionOf(s) = "" THEN "body" ELSE IF action = "" THEN "begin" ELSE "close"
  /\ UNCHANGED <<action, error, alarm>>

(* An exception leaves the try block; e is self.error by then.             *)
Throw(e) ==
  /\ error' = e
  /\ pc' = "lock_error"
  /\ UNCHANGED <<step, action, alarm>>

(* A step fails with one of its own errors, or with any other exception.   *)
Fails(codes) == Throw(error) \/ \E c \in codes : Throw(Error(c))

(* A POST either leaves its mark or fails.  One that fails may have been   *)
(* handled, its answer lost, and it may throw; the executor does not look  *)
(* at the answers to these.                                                *)
Post(mark, nothing) ==
  \/ mark /\ UNCHANGED failedPosts
  \/ failedPosts < MaxFailedPosts /\ failedPosts' = failedPosts + 1 /\ (mark \/ nothing)

PostThrows == failedPosts' # failedPosts /\ Throw(error)

(* The app refuses an update without an action and, by primary key, one it *)
(* has.                                                                    *)
PostUpdate(row) == Post(rows' = rows \cup {r \in {row} : r[1] # ""}, UNCHANGED rows)

\* Faulty variant: set_action sets the next action before it closes the last.
ActionToClose_Next == ActionOf(step)

ActionToClose == action

(* set_action: update_success, which clears the action, and update_begin.  *)
CloseAction ==
  /\ pc = "close"
  /\ PostUpdate(<<ActionToClose, "success">>)
  /\ \/ PostThrows
     \/ pc' = "begin" /\ action' = "" /\ UNCHANGED <<step, error, alarm>>
  /\ UNCHANGED <<env, matching, files, output, errorRow, idMatches>>

BeginAction ==
  /\ pc = "begin"
  /\ PostUpdate(<<ActionOf(step), "begin">>)
  /\ action' = ActionOf(step)
  /\ pc' = "body" \/ (failedPosts' # failedPosts /\ pc' = "lock_error")
  /\ UNCHANGED <<env, step, error, alarm, matching, files, output, errorRow, idMatches>>

(* upload_artifact, of an artifact that every run has to have.             *)
ArtifactOf(s) ==
  CASE s = "upload_roster" -> "roster"
    [] s = "upload_results" -> "em_results"
    [] s = "upload_cross_year_roster" -> "cross_year_roster"
    [] s = "upload_x_year_results" -> "em_results_x_year"
    [] s = "upload_match_rates" -> "match_rates"
    [] s = "upload_send_results" -> "lb_send_results"
    [] s = "upload_unmatched" -> "unmatched"
    [] OTHER -> None

(* Cross-year artifacts and unmatched students are wanted once produced.   *)
Wanted(a) ==
  IF a \in {"cross_year_roster", "em_results_x_year", "unmatched"}
  THEN needsUpload \cup {a} ELSE needsUpload

(* Without an ODS there is no send step after the match rates.             *)
After(s) ==
  IF s = "upload_match_rates" /\ ~job.sendToOds THEN "report_unmatched" ELSE Following(s)

UploadArtifact(s) ==
  LET a == ArtifactOf(s) IN
  /\ Doing(s)
  /\ a # None
  /\ \/ /\ a \in onDisk
        /\ inS3' = inS3 \cup {a}
        /\ needsUpload' = Wanted(a) \ {a}
        /\ GoTo(After(s))
     \/ /\ needsUpload' = Wanted(a)
        /\ Fails({"artifact"})
        /\ UNCHANGED inS3
  /\ UNCHANGED <<env, onDisk, matching, output, app>>

-----------------------------------------------------------------------------
(* The steps of the try block.                                              *)

(* GET init, GET job, and the URLs in the payload.                         *)
InitRun ==
  /\ Doing("init")
  /\ \/ reachable' = TRUE /\ GoTo("unpack_job")
     \/ UNCHANGED reachable /\ Fails({"invalid_job"})
  /\ UNCHANGED <<job, success, matching, files, output, app>>

UnpackJob ==
  /\ Doing("unpack_job")
  /\ \/ /\ needsUpload' = IF job.sendToOds THEN needsUpload ELSE needsUpload \ {"lb_send_results"}
        /\ GoTo("refresh_bundle_code")
     \/ UNCHANGED needsUpload /\ Fails({"invalid_job"})
  /\ UNCHANGED <<env, onDisk, inS3, matching, output, app>>

(* Steps that prepare Earthmover's run: all that counts is if they fail.   *)
Prepare(s, codes) ==
  /\ Doing(s)
  /\ GoTo(Following(s)) \/ Fails(codes)
  /\ UNCHANGED <<env, matching, files, output, app>>

RefreshBundleCode == Prepare("refresh_bundle_code", {"bundle_git_pull"})
EarthmoverDeps    == Prepare("earthmover_deps", {"earthmover_deps"})
GetInputFiles     == Prepare("get_input_files", {"input_s3_download"})
MapDescriptors    == Prepare("map_descriptors", {})
UnpackIdTypes     == Prepare("unpack_id_types", {})

FirstRoster ==
  IF job.sendToOds THEN "this_year" ELSE IF job.crossYear THEN "cross_year" ELSE "uploaded"

RosterErrors ==
  CASE FirstRoster = "this_year" -> {"missing_ods_roster", "lightbeam_fetch"}
    [] FirstRoster = "cross_year" -> {"cross_year_roster_fetch"}
    [] FirstRoster = "uploaded" -> {"missing_ods_roster", "input_s3_download"}

(* A failed download may leave a part of the file.                         *)
GetStudentRoster ==
  /\ Doing("get_student_roster")
  /\ \/ onDisk' = onDisk \cup {"roster"} /\ GoTo("upload_roster")
     \/ onDisk' \in {onDisk, onDisk \cup {"roster"}} /\ Fails(RosterErrors)
  /\ UNCHANGED <<env, needsUpload, inS3, matching, output, app>>

(* The files of a pass.  Of a pass that matched nothing, the match rates   *)
(* file may be missing or empty, or hold a header.                         *)
FilesOfPass(results, m) ==
  {f \in SUBSET {results, "match_rates", "unmatched"} :
     /\ results \in f
     /\ m # NoMatch => "match_rates" \in f
     /\ m.unmatched # 0 => "unmatched" \in f}

\* Faulty variant: the match rates of a failed pass are kept for the app.
RatesWanted_Kept == needsUpload

RatesWithheld == needsUpload \ {"match_rates"}

(* earthmover_run.  Earthmover may fail after it has matched students.     *)
EarthmoverRun(s, results) ==
  /\ Doing(s)
  /\ \/ \E m \in PassResults :
          /\ ratesFile' = m
          /\ \E f \in FilesOfPass(results, m) : onDisk' = onDisk \cup f
          /\ GoTo(Following(s))
          /\ UNCHANGED needsUpload
     \/ /\ onDisk' \in {onDisk, onDisk \cup {results, "match_rates", "unmatched"}}
        /\ \/ needsUpload' = RatesWithheld /\ Throw(Error("earthmover_run"))
           \/ UNCHANGED needsUpload /\ Throw(error)
        /\ UNCHANGED ratesFile
  /\ UNCHANGED <<env, inS3, match, outputSets, output, app>>

FirstPass == EarthmoverRun("first_pass", "em_results")
SecondPass == EarthmoverRun("second_pass", "em_results_x_year")

SecondPassWanted(m) == job.sendToOds /\ job.crossYear /\ m.unmatched # 0

(* enforce_match_threshold                                                  *)
EnoughMatches(m) == m.unmatched = 0 \/ m.rate = "enough"

(* record_highest_match_rate, the first output set, and the choice between *)
(* a cross-year pass, which moves the output away, and the threshold.      *)
JudgeFirstPass ==
  /\ Doing("judge_first_pass")
  /\ match' = ratesFile
  /\ outputSets' = <<FirstRoster>>
  /\ \/ /\ SecondPassWanted(ratesFile)
        /\ onDisk' = onDisk \ {"match_rates", "unmatched"}
        /\ GoTo("cross_year_roster")
     \/ /\ ~SecondPassWanted(ratesFile)
        /\ UNCHANGED onDisk
        /\ IF EnoughMatches(ratesFile) THEN GoTo("upload_match_rates")
                                       ELSE Throw(Error("insufficient_matches"))
  /\ UNCHANGED <<env, ratesFile, needsUpload, inS3, output, app>>

CrossYearRoster ==
  /\ Doing("cross_year_roster")
  /\ \/ onDisk' = onDisk \cup {"cross_year_roster"} /\ GoTo(Following(step))
     \/ /\ onDisk' \in {onDisk, onDisk \cup {"cross_year_roster"}}
        /\ Fails({"cross_year_roster_fetch"})
  /\ UNCHANGED <<env, needsUpload, inS3, matching, output, app>>

\* Faulty variant: the count of the second pass as it is, None included.
Remaining_OfFile(before) == ratesFile.unmatched

(* The unmatched rows after both passes: if the second matched nothing,    *)
(* those the record has.                                                   *)
Remaining(before) == IF ratesFile = NoMatch THEN before ELSE ratesFile.unmatched

(* If the first pass met the threshold, the second took its unmatched rows *)
(* only, and what it matched is not judged.                                *)
JudgeSecondPass ==
  /\ Doing("judge_second_pass")
  /\ LET judged == IF match.rate = "enough" THEN match ELSE ratesFile IN
     IF EnoughMatches(judged)
     THEN /\ match' = [judged EXCEPT !.unmatched = Remaining(@)]
          /\ outputSets' = Append(outputSets, "cross_year")
          /\ GoTo("upload_match_rates")
     ELSE /\ match' = judged
          /\ Throw(Error("insufficient_matches"))
          /\ UNCHANGED outputSets
  /\ UNCHANGED <<env, ratesFile, files, output, app>>

\* Faulty variant: lightbeam sends what Earthmover produced last.
SetForOds_Last == outputSets[Len(outputSets)]

SetForOds == outputSets[1]

(* lightbeam send.  A failing exit code sets self.error and goes on.       *)
LightbeamSend ==
  /\ Doing("lightbeam_send")
  /\ odsGot' = SetForOds
  /\ onDisk' \in {onDisk, onDisk \cup {"lb_send_results"}}
  /\ \/ GoTo("upload_send_results")
     \/ /\ error' = Error("lightbeam_send")
        /\ step' = "upload_send_results"
        /\ UNCHANGED <<pc, action, alarm>>
     \/ Throw(error)
  /\ UNCHANGED <<env, needsUpload, inS3, matching, setsUploaded, app>>

(* Nothing of the output was accepted, or some was.                        *)
JudgeSend ==
  /\ Doing("judge_send")
  /\ GoTo("report_unmatched") \/ Fails({"lightbeam_send"})
  /\ UNCHANGED <<env, matching, files, output, app>>

(* report_unmatched_students: the count, then the file.                    *)
ReportUnmatched ==
  /\ Doing("report_unmatched")
  /\ IF match.unmatched = 0
     THEN GoTo("upload_output") /\ UNCHANGED <<idMatches, failedPosts>>
     ELSE /\ Post(idMatches' = match.unmatched, UNCHANGED idMatches)
          /\ GoTo("upload_unmatched") \/ PostThrows
  /\ UNCHANGED <<env, matching, files, output, rows, errorRow>>

(* upload_output, one output set at a time; the app lists the files itself. *)
UploadOutputSet ==
  /\ Doing("upload_output")
  /\ \/ /\ setsUploaded < Len(outputSets)
        /\ \/ setsUploaded' = setsUploaded + 1 /\ UNCHANGED control
           \/ Fails({"artifact"}) /\ UNCHANGED setsUploaded
     \/ /\ setsUploaded = Len(outputSets)
        /\ GoTo("compile_summary")
        /\ UNCHANGED setsUploaded
  /\ UNCHANGED <<env, matching, files, odsGot, app>>

(* The last step of the try block; the else branch sets success.           *)
CompileSummary ==
  /\ Doing("compile_summary")
  /\ \/ success' = TRUE /\ pc' = "succeeded" /\ UNCHANGED <<step, action, error, alarm>>
     \/ Fails({}) /\ UNCHANGED success
  /\ UNCHANGED <<job, reachable, matching, files, output, app>>

-----------------------------------------------------------------------------
(* After the try block.                                                     *)

Leave(to) == pc' = to /\ UNCHANGED <<step, action, alarm>>

(* The else branch: the last action succeeded.  An exception here goes     *)
(* straight to finally.                                                    *)
FinishSuccess ==
  /\ pc = "succeeded"
  /\ PostUpdate(<<action, "success">>)
  /\ pc' = "send_done"
  /\ action' = ""
  /\ UNCHANGED <<env, step, error, alarm, matching, files, output, errorRow, idMatches>>

\* Faulty variant: only an unknown error is given its stack trace.
Locked_UnknownOnly(e) == IF e = NoError THEN [code |-> "unknown", trace |-> TRUE] ELSE e

Locked(e) == [code |-> IF e = NoError THEN "unknown" ELSE e.code, trace |-> TRUE]

(* The except branch gives every failure an error with a stack trace.      *)
LockError ==
  /\ pc = "lock_error"
  /\ error' = Locked(error)
  /\ Leave("upload_remaining")
  /\ UNCHANGED <<env, matching, files, output, app>>

(* Uploads, one by one, what is wanted and there; failures are passed over. *)
UploadRemaining ==
  /\ pc = "upload_remaining"
  /\ \/ /\ reachable
        /\ \E a \in needsUpload \cap onDisk :
             inS3' = inS3 \cup {a} /\ needsUpload' = needsUpload \ {a}
        /\ UNCHANGED <<step, pc, action, alarm>>
     \/ Leave("update_failure") /\ UNCHANGED <<inS3, needsUpload>>
  /\ UNCHANGED <<env, error, onDisk, matching, output, app>>

(* Up to three attempts.                                                   *)
UpdateFailure ==
  /\ pc = "update_failure"
  /\ IF reachable THEN PostUpdate(<<action, "failure">>) ELSE UNCHANGED <<rows, failedPosts>>
  /\ Leave("send_error")
  /\ UNCHANGED <<env, error, matching, files, output, errorRow, idMatches>>

(* to_json needs the stack trace; without it send_error throws.            *)
CanReport == reachable /\ error.trace

SendError ==
  /\ pc = "send_error"
  /\ IF CanReport THEN Post(errorRow' = error.code, UNCHANGED errorRow)
                  ELSE UNCHANGED <<errorRow, failedPosts>>
  /\ Leave("send_done")
  /\ UNCHANGED <<env, error, matching, files, output, rows, idMatches>>

(* finally *)
SendDone ==
  /\ pc = "send_done"
  /\ IF reachable THEN PostUpdate(<<"done", IF success THEN "success" ELSE "failure">>)
                  ELSE UNCHANGED <<rows, failedPosts>>
  /\ Leave("exited")
  /\ UNCHANGED <<env, error, matching, files, output, errorRow, idMatches>>

-----------------------------------------------------------------------------
(* SIGALRM.                                                                 *)

\* Faulty variant: a step that catches TimeoutError goes on.
Interrupted_Caught(p) == p

(* Where the TimeoutError thrown at p is caught: by the except branch, by  *)
(* the two guarded steps in it, or by nobody before finally.               *)
Interrupted(p) ==
  CASE p \in Working -> "lock_error"
    [] p = "upload_remaining" -> "update_failure"
    [] p = "update_failure" -> "send_error"
    [] p \in {"lock_error", "send_error", "succeeded"} -> "send_done"
    [] OTHER -> "exited"

(* The message being sent may have reached the app.                        *)
MessageAt(p) ==
  CASE p = "close" -> {<<action, "success">>}
    [] p = "begin" -> {<<ActionOf(step), "begin">>}
    [] p = "succeeded" -> {<<action, "success">>}
    [] p = "update_failure" /\ reachable /\ action # "" -> {<<action, "failure">>}
    [] p = "send_done" /\ reachable -> {<<"done", IF success THEN "success" ELSE "failure">>}
    [] OTHER -> {}

(* timeout_handler: a new error, without a stack trace, and the exception. *)
Alarm ==
  /\ alarm = "armed"
  /\ pc # "exited"
  /\ alarm' = IF pc \in Working THEN "at_work" ELSE "late"
  /\ error' = Error("executor_timeout")
  /\ pc' = Interrupted(pc)
  /\ \/ rows' = rows \cup MessageAt(pc)
        /\ action' = IF pc = "begin" THEN ActionOf(step) ELSE action
     \/ UNCHANGED <<rows, action>>
  /\ errorRow' \in {errorRow} \cup {c \in {error.code} : pc = "send_error" /\ CanReport}
  /\ UNCHANGED <<env, step, matching, files, output, idMatches, failedPosts>>

(* A TimeoutError thrown in urllib3 or requests is taken for a timeout of  *)
(* the socket.  The session's adapter has Retry: it sends a GET again, and *)
(* connects again for a POST, though it does not send a POST again.        *)
(* stream_to_file tries a broken download again.  Then the step goes on.   *)
(* (A message of the clean-up or the end that is retried has the outcomes  *)
(* of one that Alarm interrupts and the app has.)                          *)
Requesting ==
  \/ pc \in Announcing
  \/ \E s \in {"init", "cross_year_roster", "report_unmatched", "upload_output", "compile_summary"} :
       Doing(s)
  \/ Doing("get_student_roster") /\ FirstRoster = "cross_year"

AlarmInRequest ==
  /\ alarm = "armed"
  /\ Requesting
  /\ alarm' = "swallowed"
  /\ error' = Error("executor_timeout")
  /\ UNCHANGED <<env, step, pc, action, matching, files, output, app>>

-----------------------------------------------------------------------------
WorkStep ==
  \/ InitRun
  \/ UnpackJob
  \/ RefreshBundleCode
  \/ EarthmoverDeps
  \/ GetInputFiles
  \/ MapDescriptors
  \/ UnpackIdTypes
  \/ \E s \in Steps : UploadArtifact(s)
  \/ GetStudentRoster
  \/ FirstPass
  \/ JudgeFirstPass
  \/ CrossYearRoster
  \/ SecondPass
  \/ JudgeSecondPass
  \/ LightbeamSend
  \/ JudgeSend
  \/ ReportUnmatched
  \/ UploadOutputSet
  \/ CompileSummary

MessageStep ==
  \/ CloseAction
  \/ BeginAction
  \/ FinishSuccess
  \/ LockError
  \/ UploadRemaining
  \/ UpdateFailure
  \/ SendError
  \/ SendDone

Next == WorkStep \/ MessageStep \/ Alarm \/ AlarmInRequest

Spec == Init /\ [][Next]_vars

(* A step of the work may hang, for the timeout expires.  After it nothing *)
(* bounds the messages and the clean-up but that the app and S3 answer or  *)
(* the connection breaks: requests is used without a timeout.              *)
FairSpec == Spec /\ WF_vars(MessageStep) /\ WF_vars(Alarm)

-----------------------------------------------------------------------------
(* The progress tracker of the job's page, worked out from the rows.        *)

StepsByStage ==
  [preprocessing |-> {"refresh_bundle_code", "get_student_roster", "get_input_files", "earthmover_deps"},
   transforming |-> {"earthmover_run"},
   sending |-> {"lightbeam_send"}]

GetStageStatus(stepsToCheck) ==
  LET relevant == {r \in rows : r[1] \in stepsToCheck}
      count(status) == Cardinality({r \in relevant : r[2] = status})
  IN  CASE relevant = {} -> "not started"
        [] count("failure") > 0 -> "error"
        [] count("failure") = 0 /\ count("begin") = Cardinality(stepsToCheck)
             /\ count("success") = count("begin") -> "done"
        [] OTHER -> "in progress"

(* The sending stage is shown of a job that sends to the ODS.              *)
StagesShown == {"preprocessing", "transforming"} \cup {s \in {"sending"} : job.sendToOds}
Statuses == [s \in StagesShown |-> GetStageStatus(StepsByStage[s])]
DoneStatus == IF <<"done", "success">> \in rows THEN "done" ELSE "not started"

-----------------------------------------------------------------------------
(* Properties.                                                              *)

(* An action has begun if the work has got to its step, and has done all   *)
(* of its own once another begins or all is done.                          *)
Begun(a) ==
  \E s \in Steps : ActionOf(s) = a /\ Rank[s] <= Rank[step] /\ (s = "lightbeam_send" => job.sendToOds)

Finished(a) ==
  success \/ \E s, t \in Steps :
    ActionOf(s) = a /\ ActionOf(t) # "" /\ Rank[s] < Rank[t] /\ Begun(ActionOf(t))

(* The progress tracker trusts the rows: an action the app has as a        *)
(* success has done all its work, although its success is only announced   *)
(* by the step that comes next and may be announced while that one fails.  *)
SuccessRowsAreTrue ==
  \A a \in Actions : <<a, "success">> \in rows => Finished(a)

(* The comment in earthmover_run: the match rates of a pass that failed    *)
(* are not sent to the app, not even by the clean-up that uploads whatever *)
(* is wanted, and not those of an earlier pass in their place.             *)
RatesOfFailedPassStay ==
  errorRow = "earthmover_run" => "match_rates" \notin inS3

(* What goes to the ODS was matched with this year's students: of two      *)
(* output sets lightbeam gets the first, even though Earthmover wrote the  *)
(* second one last and to the directory of the first.                      *)
OdsGetsThisYear ==
  odsGot # None => odsGot = "this_year" /\ job.sendToOds

(* What the executor's messages leave in the app is what ExecutorReport    *)
(* allows, so what RunLifecycle builds on.                                 *)
Report == INSTANCE ExecutorReport WITH
  phase <- CASE pc \in Working -> "working"
             [] pc \in Cleanup -> "failed"
             [] pc = "succeeded" \/ (pc = "send_done" /\ success) -> "succeeded"
             [] pc = "send_done" /\ ~success -> "reported"
             [] pc = "exited" -> "exited",
  errorRow <- errorRow # None,
  doneRow <- CASE <<"done", "success">> \in rows -> "success"
               [] <<"done", "failure">> \in rows -> "failure"
               [] OTHER -> "none"

ImplementsExecutorReport == Report!Spec

(* No row of the input is lost without a word: a run succeeds with every   *)
(* row matched, or having told the app how many are not and given it the   *)
(* file, whichever of two passes left them (unless the POST failed).       *)
UnmatchedAreAccountedFor ==
  success /\ failedPosts = 0 =>
    \/ match.unmatched = 0
    \/ match.unmatched = 1 /\ idMatches = 1 /\ "unmatched" \in inS3

(* At the end of an undisturbed execution the rows tell which action       *)
(* failed: those before it began and succeeded, it began and failed, and   *)
(* none is both a success and a failure.                                   *)
TrailTellsTheFailure ==
  pc = "exited" /\ reachable /\ alarm = "armed" /\ failedPosts = 0 =>
    \A a \in Actions :
      /\ (<<a, "begin">> \in rows) = Begun(a)
      /\ (<<a, "success">> \in rows) = (Begun(a) /\ Finished(a))
      /\ (<<a, "failure">> \in rows) = (Begun(a) /\ ~Finished(a))

(* What the tracker shows of it: a success has every stage done; a failure *)
(* has the stage of the action that failed, and no other, in error, and    *)
(* the stages before it done (JobProgressTracker.tsx 19-42).  The tracker  *)
(* has no stage for a failure to upload the output, and none for one       *)
(* before the first action.                                                *)
TrackerTellsTheEnd ==
  pc = "exited" /\ reachable /\ alarm = "armed" /\ failedPosts = 0 =>
    /\ success => DoneStatus = "done" /\ \A s \in StagesShown : Statuses[s] = "done"
    /\ ~success => DoneStatus = "not started"
    /\ \A s \in StagesShown :
         Statuses[s] = "error" <=> ~success /\ action \in StepsByStage[s]
    /\ action = "earthmover_run" => Statuses["preprocessing"] = "done"
    /\ action = "lightbeam_send" => \A s \in StagesShown \ {"sending"} : Statuses[s] = "done"

(* A run that fails, also by the timeout, has its error in the app, unless *)
(* a POST fails or the alarm goes off after the work: it then replaces the *)
(* error by one without a stack trace, which cannot be reported.           *)
ErrorIsReported ==
  pc = "exited" /\ reachable /\ ~success /\ failedPosts = 0 /\ alarm # "late" => errorRow # None

(* "After which point we will gracefully shut down": no step of the work   *)
(* goes on once the timeout has expired, unless a request takes it for     *)
(* its own.                                                                *)
NoWorkAfterTimeout ==
  alarm \in {"at_work", "late"} => pc \notin Working

(* However long a step hangs, the process ends; only an alarm that a       *)
(* request has swallowed leaves the work without a bound (FairSpec).       *)
EveryExecutionEnds == <>(pc = "exited" \/ alarm = "swallowed")

(* The error told is that of a step that failed, the one the program was   *)
(* at or, as a failing lightbeam lets it go on, lightbeam's before it: a   *)
(* later step that fails without an error of its own is told as that.      *)
ErrorIsOfItsStep ==
  /\ errorRow = "lightbeam_send" => odsGot # None /\ Rank[step] > Rank["lightbeam_send"]
  /\ errorRow = "insufficient_matches" => step \in {"judge_first_pass", "judge_second_pass"}
  /\ errorRow = "earthmover_run" => step \in {"first_pass", "second_pass"}
  /\ errorRow = "artifact" => ArtifactOf(step) # None \/ step = "upload_output"

(***************************************************************************)
(* What is told of an execution, in two parts: what the app has is true,   *)
(* and of a failure it has what there is to know.                          *)
(***************************************************************************)
WhatIsToldIsTrue == SuccessRowsAreTrue /\ RatesOfFailedPassStay /\ UnmatchedAreAccountedFor /\ ErrorIsOfItsStep
(* The failure's part: the updates, the tracker and the error tell of it.   *)
FailureIsTold == TrailTellsTheFailure /\ TrackerTellsTheEnd /\ ErrorIsReported /\ NoWorkAfterTimeout

=============================================================================

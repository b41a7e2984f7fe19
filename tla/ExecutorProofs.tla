---------------------------- MODULE ExecutorProofs ----------------------------
(***************************************************************************)
(* Theorems about Executor, for every number of POSTs that fail, every     *)
(* moment of the alarm and every way that a step can end.                  *)
(*                                                                         *)
(* The invariant says what is true by the time the program is at a step of *)
(* its try block, as long as it is there: which output sets it has, that   *)
(* the match rates are not uploaded yet, that no error is told.  A step    *)
(* that fails leaves the try block and step keeps its value, so what is    *)
(* said of errors holds of the step at which they were thrown.             *)
(*                                                                         *)
(* Of executions that nothing disturbs, a second invariant (TrailHolds)    *)
(* ties the rows to the actions announced so far and the current one.      *)
(***************************************************************************)
EXTENDS Executor, SequenceTheorems, FiniteSetTheorems, TLAPS

-----------------------------------------------------------------------------
(* The program as a list.                                                   *)

(* Every step has one place, and its rank is that place.                   *)
LEMMA RankOfPlace ==
  ASSUME NEW i \in 1..25
  PROVE  Program[i] \in Steps /\ Rank[Program[i]] = i
<1>1. DOMAIN Program = 1..25
  BY DEF Program
<1>2. \A k, m \in 1..25 : Program[k] = Program[m] => k = m
  BY SMTT(60) DEF Program
<1> QED
  BY <1>1, <1>2 DEF Steps, Rank

LEMMA StepAtRank == \A s \in Steps : Rank[s] \in 1..25 /\ Program[Rank[s]] = s
<1>1. DOMAIN Program = 1..25
  BY DEF Program
<1> QED
  BY <1>1, RankOfPlace DEF Steps

(* The places that the program jumps from, to or over.                     *)
LEMMA Ranks ==
  /\ Rank["init"] = 1 /\ Rank["unpack_job"] = 2 /\ Rank["refresh_bundle_code"] = 3
  /\ Rank["earthmover_deps"] = 4 /\ Rank["get_student_roster"] = 5 /\ Rank["upload_roster"] = 6
  /\ Rank["get_input_files"] = 7 /\ Rank["map_descriptors"] = 8 /\ Rank["unpack_id_types"] = 9
  /\ Rank["first_pass"] = 10 /\ Rank["upload_results"] = 11 /\ Rank["judge_first_pass"] = 12
  /\ Rank["cross_year_roster"] = 13 /\ Rank["upload_cross_year_roster"] = 14
  /\ Rank["second_pass"] = 15 /\ Rank["upload_x_year_results"] = 16
  /\ Rank["judge_second_pass"] = 17 /\ Rank["upload_match_rates"] = 18
  /\ Rank["lightbeam_send"] = 19 /\ Rank["upload_send_results"] = 20 /\ Rank["judge_send"] = 21
  /\ Rank["report_unmatched"] = 22 /\ Rank["upload_unmatched"] = 23
  /\ Rank["upload_output"] = 24 /\ Rank["compile_summary"] = 25
<1>1. /\ Program[1] = "init" /\ Program[2] = "unpack_job" /\ Program[3] = "refresh_bundle_code"
      /\ Program[4] = "earthmover_deps" /\ Program[5] = "get_student_roster"
      /\ Program[6] = "upload_roster" /\ Program[7] = "get_input_files"
      /\ Program[8] = "map_descriptors" /\ Program[9] = "unpack_id_types"
      /\ Program[10] = "first_pass" /\ Program[11] = "upload_results"
      /\ Program[12] = "judge_first_pass" /\ Program[13] = "cross_year_roster"
      /\ Program[14] = "upload_cross_year_roster" /\ Program[15] = "second_pass"
      /\ Program[16] = "upload_x_year_results" /\ Program[17] = "judge_second_pass"
      /\ Program[18] = "upload_match_rates" /\ Program[19] = "lightbeam_send"
      /\ Program[20] = "upload_send_results" /\ Program[21] = "judge_send"
      /\ Program[22] = "report_unmatched" /\ Program[23] = "upload_unmatched"
      /\ Program[24] = "upload_output" /\ Program[25] = "compile_summary"
  BY DEF Program
<1> QED
  BY <1>1, RankOfPlace

LEMMA RankIsNat == \A s \in Steps : Rank[s] \in Nat /\ 1 <= Rank[s] /\ Rank[s] <= 25
BY StepAtRank

LEMMA StepNames ==
  {"init", "unpack_job", "refresh_bundle_code", "earthmover_deps", "get_student_roster",
   "upload_roster", "get_input_files", "map_descriptors", "unpack_id_types", "first_pass",
   "upload_results", "judge_first_pass", "cross_year_roster", "upload_cross_year_roster",
   "second_pass", "upload_x_year_results", "judge_second_pass", "upload_match_rates",
   "lightbeam_send", "upload_send_results", "judge_send", "report_unmatched",
   "upload_unmatched", "upload_output", "compile_summary"} = Steps
<1>1. DOMAIN Program = 1..25
  BY DEF Program
<1> QED
  BY <1>1 DEF Steps, Program

(* The step after this one is at the next place.                           *)
LEMMA FollowingRank ==
  ASSUME NEW s \in Steps, Rank[s] < 25
  PROVE  Following(s) \in Steps /\ Rank[Following(s)] = Rank[s] + 1
BY StepAtRank, RankOfPlace DEF Following

LEMMA ActionNames ==
  /\ Actions = {"refresh_bundle_code", "earthmover_deps", "get_student_roster",
                "get_input_files", "earthmover_run", "lightbeam_send", "upload_output"}
  /\ \A s \in Steps : ActionOf(s) # "" => ActionOf(s) \in Actions
  /\ \A s, t \in Steps : ActionOf(s) # "" /\ ActionOf(s) = ActionOf(t) => s = t
<1> DEFINE Named == {"refresh_bundle_code", "earthmover_deps", "get_student_roster",
                     "get_input_files", "lightbeam_send", "upload_output"}
<1>1. /\ \A s : s \in Named => ActionOf(s) = s
      /\ ActionOf("unpack_id_types") = "earthmover_run"
      /\ \A s : s \notin Named \cup {"unpack_id_types"} => ActionOf(s) = ""
  BY DEF ActionOf
<1>2. Named \cup {"unpack_id_types"} \subseteq Steps
  BY StepNames
<1>3. Named \cup {"earthmover_run"} \subseteq Actions
  <2>1. \A s \in Named : ActionOf(s) = s /\ s # "" /\ s \in Steps
    BY <1>1, <1>2
  <2>2. "earthmover_run" = ActionOf("unpack_id_types") /\ "unpack_id_types" \in Steps
    BY <1>1, <1>2
  <2> QED
    BY <2>1, <2>2 DEF Actions
<1>4. Actions \subseteq Named \cup {"earthmover_run"}
  <2> SUFFICES ASSUME NEW s \in Steps, ActionOf(s) # "" PROVE ActionOf(s) \in Named \cup {"earthmover_run"}
    BY DEF Actions
  <2> QED
    BY <1>1
<1>5. \A s \in Steps : ActionOf(s) # "" => ActionOf(s) \in Actions
  BY DEF Actions
<1>6. \A s, t \in Steps : ActionOf(s) # "" /\ ActionOf(s) = ActionOf(t) => s = t
  BY <1>1
<1> QED
  BY <1>3, <1>4, <1>5, <1>6

-----------------------------------------------------------------------------
(* The inductive invariant.                                                 *)

(* The step and the action that has begun last.                             *)
EntryHolds ==
  /\ pc \in Announcing => ActionOf(step) # ""
  /\ pc = "begin" => action = ""
  /\ pc = "close" => action # ""
  /\ pc = "body" /\ step \notin {"init", "unpack_job"} => action # ""
  /\ pc = "succeeded" => action # ""
  /\ action # "" => \E s \in Steps :
       ActionOf(s) = action /\ Rank[s] <= Rank[step] /\ (pc \in Announcing => s # step)
  /\ step \in {"lightbeam_send", "upload_send_results", "judge_send"} => job.sendToOds

(* The output sets by the time the program is at a step, and what is sent  *)
(* of them.                                                                 *)
FirstSet == <<FirstRoster>>
BothSets == <<FirstRoster, "cross_year">>

SetsHold ==
  /\ outputSets \in {<<>>, FirstSet, BothSets}
  /\ pc \in Working =>
       /\ Rank[step] <= Rank["judge_first_pass"] => outputSets = <<>>
       /\ Rank[step] > Rank["judge_first_pass"] => outputSets # <<>>
       /\ Rank[step] <= Rank["judge_second_pass"] => outputSets # BothSets
  /\ setsUploaded \in 0..Len(outputSets)

OdsHolds ==
  /\ OdsGetsThisYear
  /\ step \in {"upload_send_results", "judge_send"} => odsGot # None

(* The unmatched rows are told.                                             *)
Told ==
  failedPosts = 0 =>
    \/ match.unmatched = 0
    \/ match.unmatched = 1 /\ idMatches = 1 /\ "unmatched" \in inS3

MatchHolds ==
  /\ pc \in Working /\ Rank[step] > Rank["judge_second_pass"] => match.unmatched \in {0, 1}
  /\ pc \in Working /\ step = "upload_unmatched" /\ failedPosts = 0 =>
       match.unmatched = 1 /\ idMatches = 1
  /\ pc \in Working /\ step \in {"upload_output", "compile_summary"} => Told
  /\ success => Told

(* The match rates of a failed pass, and those of one that did not fail,   *)
(* before they are uploaded.                                                *)
RatesHold ==
  /\ error.code = "earthmover_run" \/ errorRow = "earthmover_run" =>
       pc \notin Working /\ "match_rates" \notin inS3 \cup needsUpload
  /\ pc \in Working /\ Rank[step] <= Rank["upload_match_rates"] => "match_rates" \notin inS3

(* The step is one that can have failed with the error c.                   *)
ErrorOfStep(c) ==
  /\ c = "lightbeam_send" => odsGot # None /\ Rank[step] > Rank["lightbeam_send"]
  /\ c = "insufficient_matches" => step \in {"judge_first_pass", "judge_second_pass"}
  /\ c = "earthmover_run" => step \in {"first_pass", "second_pass"}
  /\ c = "artifact" => ArtifactOf(step) # None \/ step = "upload_output"

ErrorsHold ==
  /\ ErrorOfStep(error.code) /\ ErrorOfStep(errorRow)
  /\ error.trace => error.code # None
  /\ pc \in Working => errorRow = None /\ error.code \in {None, "lightbeam_send", "executor_timeout"}
  /\ pc \in {"upload_remaining", "update_failure", "send_error"} /\ alarm # "late" =>
       error.trace /\ error.code # None
  /\ pc \in {"send_done", "exited"} /\ reachable /\ ~success /\ failedPosts = 0 /\ alarm # "late" =>
       errorRow # None

(* The outcome is settled when the try block is left, and told last.       *)
OutcomeHolds ==
  /\ pc \in Working \cup Cleanup => ~success
  /\ pc = "succeeded" => success
  /\ pc # "exited" => \A s \in {"success", "failure"} : <<"done", s>> \notin rows

ExecutorInv ==
  /\ TypeOK /\ EntryHolds /\ SetsHold /\ OdsHolds /\ MatchHolds /\ RatesHold /\ ErrorsHold
  /\ OutcomeHolds /\ NoWorkAfterTimeout /\ SuccessRowsAreTrue

-----------------------------------------------------------------------------
(* Steps of the work, by what they do to the control and what they change.  *)

(* To the next place, or over steps that are not wanted.                   *)
Jump(s, t) ==
  \/ Rank[t] = Rank[s] + 1 /\ (t = "lightbeam_send" => job.sendToOds)
  \/ s = "judge_first_pass" /\ t = "upload_match_rates"
  \/ s = "upload_match_rates" /\ t = "report_unmatched" /\ ~job.sendToOds
  \/ s = "report_unmatched" /\ t = "upload_output"

Moving == \E t \in Steps : Jump(step, t) /\ GoTo(t)
Staying == UNCHANGED control
Sending ==
  /\ step = "lightbeam_send" /\ step' = "upload_send_results"
  /\ error' = Error("lightbeam_send") /\ UNCHANGED <<pc, action, alarm>>
Ending ==
  /\ step = "compile_summary" /\ success' = TRUE /\ pc' = "succeeded"
  /\ UNCHANGED <<step, action, error, alarm>>
Throwing ==
  /\ pc' = "lock_error" /\ UNCHANGED <<step, action, alarm>>
  /\ error' = error \/ \E c \in ErrorCodes : error' = Error(c)

LEMMA FailsThrows ==
  ASSUME NEW codes \in SUBSET ErrorCodes, Fails(codes)
  PROVE  Throwing /\ (error' = error \/ \E c \in codes : error' = Error(c))
BY DEF Fails, Throw, Throwing

LEMMA FollowingJumps ==
  ASSUME NEW s \in Steps, Rank[s] < 25, Rank[s] # Rank["upload_match_rates"]
  PROVE  Following(s) \in Steps /\ Jump(s, Following(s))
<1>1. Following(s) \in Steps /\ Rank[Following(s)] = Rank[s] + 1
  BY FollowingRank
<1>2. Following(s) # "lightbeam_send"
  BY <1>1, Ranks, StepAtRank
<1> QED
  BY <1>1, <1>2 DEF Jump

(* Every step of the work does one of these to the control.                *)
LEMMA WorkShape ==
  ASSUME TypeOK, WorkStep
  PROVE  /\ pc = "body" /\ job' = job
         /\ Moving \/ Staying \/ Sending \/ Ending \/ Throwing
<1> USE DEF Doing, env
<1>0. step \in Steps
  BY DEF TypeOK
<1>1. CASE InitRun
  <2>1. Following("init") = "unpack_job" /\ "unpack_job" \in Steps /\ Jump("init", "unpack_job")
    BY Ranks, StepAtRank, StepNames DEF Following, Jump
  <2>2. CASE Fails({"invalid_job"})
    BY <1>1, <2>2, FailsThrows DEF InitRun, ErrorCodes
  <2> QED
    BY <1>1, <2>1, <2>2 DEF InitRun, Moving
<1>2. CASE UnpackJob
  <2>1. "refresh_bundle_code" \in Steps /\ Jump("unpack_job", "refresh_bundle_code")
    BY Ranks, StepNames DEF Jump
  <2>2. CASE Fails({"invalid_job"})
    BY <1>2, <2>2, FailsThrows DEF UnpackJob, ErrorCodes
  <2> QED
    BY <1>2, <2>1, <2>2 DEF UnpackJob, Moving
<1>3. ASSUME NEW s \in Steps, NEW codes \in SUBSET ErrorCodes, Prepare(s, codes), Rank[s] < 18
      PROVE  pc = "body" /\ job' = job /\ (Moving \/ Throwing)
  <2>1. Following(s) \in Steps /\ Jump(s, Following(s))
    BY <1>3, FollowingJumps, Ranks, StepAtRank
  <2>2. CASE Fails(codes)
    BY <1>3, <2>2, FailsThrows DEF Prepare
  <2> QED
    BY <1>3, <2>1, <2>2 DEF Prepare, Moving
<1>4. CASE RefreshBundleCode
  BY <1>3, <1>4, Ranks, StepNames DEF RefreshBundleCode, ErrorCodes
<1>5. CASE EarthmoverDeps
  BY <1>3, <1>5, Ranks, StepNames DEF EarthmoverDeps, ErrorCodes
<1>6. CASE GetInputFiles
  BY <1>3, <1>6, Ranks, StepNames DEF GetInputFiles, ErrorCodes
<1>7. CASE MapDescriptors
  BY <1>3, <1>7, Ranks, StepNames DEF MapDescriptors
<1>8. CASE UnpackIdTypes
  BY <1>3, <1>8, Ranks, StepNames DEF UnpackIdTypes
<1>9. ASSUME NEW s \in Steps, UploadArtifact(s) PROVE pc = "body" /\ job' = job /\ (Moving \/ Throwing)
  <2>1. ASSUME GoTo(After(s)) PROVE Moving
    <3>1. CASE s = "upload_match_rates" /\ ~job.sendToOds
      BY <1>9, <2>1, <3>1, StepNames DEF After, Jump, Moving, UploadArtifact
    <3>2. CASE s = "upload_match_rates" /\ job.sendToOds
      <4>1. Following(s) \in Steps /\ Rank[Following(s)] = Rank[s] + 1
        BY <3>2, FollowingRank, Ranks
      <4> QED
        BY <1>9, <2>1, <3>2, <4>1 DEF After, Jump, Moving, UploadArtifact
    <3>3. CASE s # "upload_match_rates"
      <4>1. Rank[s] < 25 /\ Rank[s] # 18
        BY <1>9, <3>3, StepAtRank, Ranks DEF UploadArtifact, ArtifactOf
      <4>2. Following(s) \in Steps /\ Jump(s, Following(s))
        BY <4>1, FollowingJumps, Ranks
      <4> QED
        BY <1>9, <2>1, <3>3, <4>2 DEF After, Moving, UploadArtifact
    <3> QED
      BY <3>1, <3>2, <3>3
  <2>2. CASE Fails({"artifact"})
    BY <1>9, <2>2, FailsThrows DEF UploadArtifact, ErrorCodes
  <2> QED
    BY <1>9, <2>1, <2>2 DEF UploadArtifact
<1>10. CASE GetStudentRoster
  <2>1. "upload_roster" \in Steps /\ Jump("get_student_roster", "upload_roster")
    BY Ranks, StepNames DEF Jump
  <2>2. CASE Fails(RosterErrors)
    BY <1>10, <2>2, FailsThrows DEF GetStudentRoster, RosterErrors, FirstRoster, ErrorCodes
  <2> QED
    BY <1>10, <2>1, <2>2 DEF GetStudentRoster, Moving
<1>11. ASSUME NEW s \in Steps, NEW results, EarthmoverRun(s, results), Rank[s] < 18
       PROVE  pc = "body" /\ job' = job /\ (Moving \/ Throwing)
  <2>1. Following(s) \in Steps /\ Jump(s, Following(s))
    BY <1>11, FollowingJumps, Ranks, StepAtRank
  <2>2. CASE GoTo(Following(s))
    BY <1>11, <2>1, <2>2 DEF EarthmoverRun, Moving
  <2>3. CASE Throw(error) \/ Throw(Error("earthmover_run"))
    BY <1>11, <2>3 DEF EarthmoverRun, Throw, Throwing, ErrorCodes
  <2> QED
    BY <1>11, <2>2, <2>3 DEF EarthmoverRun
<1>12. CASE FirstPass \/ SecondPass
  BY <1>11, <1>12, Ranks, StepNames DEF FirstPass, SecondPass
<1>13. CASE JudgeFirstPass
  <2>1. /\ "cross_year_roster" \in Steps /\ Jump("judge_first_pass", "cross_year_roster")
        /\ "upload_match_rates" \in Steps /\ Jump("judge_first_pass", "upload_match_rates")
    BY Ranks, StepNames DEF Jump
  <2> QED
    BY <1>13, <2>1 DEF JudgeFirstPass, Moving, Throw, Throwing, ErrorCodes
<1>14. CASE CrossYearRoster
  <2>1. Following(step) \in Steps /\ Jump(step, Following(step))
    BY <1>0, <1>14, FollowingJumps, Ranks DEF CrossYearRoster
  <2>2. CASE Fails({"cross_year_roster_fetch"})
    BY <1>14, <2>2, FailsThrows DEF CrossYearRoster, ErrorCodes
  <2> QED
    BY <1>14, <2>1, <2>2 DEF CrossYearRoster, Moving
<1>15. CASE JudgeSecondPass
  <2>1. "upload_match_rates" \in Steps /\ Jump("judge_second_pass", "upload_match_rates")
    BY Ranks, StepNames DEF Jump
  <2> QED
    BY <1>15, <2>1 DEF JudgeSecondPass, Moving, Throw, Throwing, ErrorCodes
<1>16. CASE LightbeamSend
  <2>1. "upload_send_results" \in Steps /\ Jump("lightbeam_send", "upload_send_results")
    BY Ranks, StepNames DEF Jump
  <2> QED
    BY <1>16, <2>1 DEF LightbeamSend, Moving, Sending, Throw, Throwing, ErrorCodes
<1>17. CASE JudgeSend
  <2>1. "report_unmatched" \in Steps /\ Jump("judge_send", "report_unmatched")
    BY Ranks, StepNames DEF Jump
  <2>2. CASE Fails({"lightbeam_send"})
    BY <1>17, <2>2, FailsThrows DEF JudgeSend, ErrorCodes
  <2> QED
    BY <1>17, <2>1, <2>2 DEF JudgeSend, Moving
<1>18. CASE ReportUnmatched
  <2>1. /\ "upload_output" \in Steps /\ Jump("report_unmatched", "upload_output")
        /\ "upload_unmatched" \in Steps /\ Jump("report_unmatched", "upload_unmatched")
    BY Ranks, StepNames DEF Jump
  <2> QED
    BY <1>18, <2>1 DEF ReportUnmatched, Moving, PostThrows, Throw, Throwing
<1>19. CASE UploadOutputSet
  <2>1. "compile_summary" \in Steps /\ Jump("upload_output", "compile_summary")
    BY Ranks, StepNames DEF Jump
  <2>2. CASE Fails({"artifact"})
    BY <1>19, <2>2, FailsThrows DEF UploadOutputSet, ErrorCodes
  <2> QED
    BY <1>19, <2>1, <2>2 DEF UploadOutputSet, Moving, Staying
<1>20. CASE CompileSummary
  <2>1. CASE Fails({})
    BY <1>20, <2>1, FailsThrows DEF CompileSummary
  <2> QED
    BY <1>20, <2>1 DEF CompileSummary, Ending
<1> QED
  BY <1>1, <1>2, <1>4, <1>5, <1>6, <1>7, <1>8, <1>9, <1>10, <1>12, <1>13, <1>14, <1>15, <1>16,
     <1>17, <1>18, <1>19, <1>20 DEF WorkStep

(* Who changes what.                                                        *)
LEMMA WorkFrame ==
  ASSUME WorkStep
  PROVE  /\ UNCHANGED <<rows, errorRow>>
         /\ InitRun \/ UNCHANGED reachable
         /\ CompileSummary \/ UNCHANGED success
         /\ FirstPass \/ SecondPass \/ UNCHANGED ratesFile
         /\ JudgeFirstPass \/ JudgeSecondPass \/ UNCHANGED <<match, outputSets>>
         /\ LightbeamSend \/ UNCHANGED odsGot
         /\ UploadOutputSet \/ UNCHANGED setsUploaded
         /\ ReportUnmatched \/ UNCHANGED <<idMatches, failedPosts>>
         /\ (\E s \in Steps : UploadArtifact(s)) \/ UNCHANGED inS3
         /\ (\E s \in Steps : UploadArtifact(s)) \/ FirstPass \/ SecondPass \/ UnpackJob
              \/ UNCHANGED needsUpload
<1> USE DEF env, matching, files, output, app
<1>1. CASE \/ InitRun \/ UnpackJob \/ RefreshBundleCode \/ EarthmoverDeps \/ GetInputFiles
           \/ MapDescriptors \/ UnpackIdTypes
  BY <1>1 DEF InitRun, UnpackJob, RefreshBundleCode, EarthmoverDeps, GetInputFiles, MapDescriptors,
              UnpackIdTypes, Prepare
<1>2. CASE \E s \in Steps : UploadArtifact(s)
  BY <1>2 DEF UploadArtifact
<1>3. CASE GetStudentRoster \/ FirstPass \/ JudgeFirstPass \/ CrossYearRoster \/ SecondPass \/ JudgeSecondPass
  BY <1>3 DEF GetStudentRoster, FirstPass, JudgeFirstPass, CrossYearRoster, SecondPass, JudgeSecondPass,
              EarthmoverRun
<1>4. CASE LightbeamSend \/ JudgeSend \/ ReportUnmatched \/ UploadOutputSet \/ CompileSummary
  BY <1>4 DEF LightbeamSend, JudgeSend, ReportUnmatched, UploadOutputSet, CompileSummary
<1> QED
  BY <1>1, <1>2, <1>3, <1>4 DEF WorkStep

-----------------------------------------------------------------------------
(* Control.                                                                 *)

ControlTypeOK ==
  /\ step \in Steps
  /\ pc \in Working \cup Cleanup \cup {"succeeded", "send_done", "exited"}
  /\ action \in Actions \cup {""}
  /\ error \in [code : ErrorCodes \cup {None}, trace : BOOLEAN]
  /\ alarm \in Alarms

LEMMA JumpsAhead ==
  ASSUME NEW s \in Steps, NEW t \in Steps, Jump(s, t)
  PROVE  /\ Rank[s] \in Nat /\ Rank[t] \in Nat /\ Rank[s] < Rank[t]
         /\ Rank[s] < 12 => Rank[t] = Rank[s] + 1
         /\ Rank[s] < 18 => Rank[t] <= 18
         /\ 12 < Rank[s] /\ Rank[s] < 17 => Rank[t] = Rank[s] + 1
<1>1. Rank[s] \in Nat /\ Rank[t] \in Nat
  BY RankIsNat
<1> QED
  BY <1>1, Ranks DEF Jump

LEMMA ControlMoves ==
  ASSUME TypeOK, EntryHolds, pc = "body", job' = job,
         Moving \/ Staying \/ Sending \/ Ending \/ Throwing
  PROVE  ControlTypeOK' /\ EntryHolds'
<1>0. /\ step \in Steps /\ action \in Actions \cup {""} /\ alarm \in Alarms
      /\ error \in [code : ErrorCodes \cup {None}, trace : BOOLEAN]
  BY DEF TypeOK
<1>1. ASSUME NEW t \in Steps, Jump(step, t), GoTo(t) PROVE ControlTypeOK' /\ EntryHolds'
  <2>1. step' = t /\ action' = action /\ error' = error /\ alarm' = alarm
        /\ pc' = IF ActionOf(t) = "" THEN "body" ELSE IF action = "" THEN "begin" ELSE "close"
    BY <1>1 DEF GoTo
  <2>2. ControlTypeOK'
    BY <1>0, <2>1 DEF ControlTypeOK, Working, Announcing
  <2>3. /\ pc' \in Announcing => ActionOf(step') # ""
        /\ pc' # "succeeded"
    BY <2>1 DEF Announcing
  <2>4. pc' = "begin" => action' = ""
    BY <2>1
  <2>5. pc' = "close" => action' # ""
    BY <2>1
  <2>6. pc' = "body" /\ step' \notin {"init", "unpack_job"} => action' # ""
    <3>1. CASE step = "init"
      <4>1. Rank[t] = 2
        BY <1>1, <3>1, Ranks DEF Jump
      <4>2. t = "unpack_job"
        BY <4>1, StepAtRank DEF Program
      <4> QED
        BY <2>1, <4>2
    <3>2. CASE step = "unpack_job"
      <4>1. Rank[t] = 3
        BY <1>1, <3>2, Ranks DEF Jump
      <4>2. t = "refresh_bundle_code"
        BY <4>1, StepAtRank DEF Program
      <4> QED
        BY <2>1, <4>2 DEF ActionOf
    <3>3. CASE step \notin {"init", "unpack_job"}
      BY <2>1, <3>3 DEF EntryHolds
    <3> QED
      BY <3>1, <3>2, <3>3
  <2>7. action' # "" => \E s \in Steps : ActionOf(s) = action' /\ Rank[s] <= Rank[step'] /\ s # step'
    <3>1. ASSUME action # "" PROVE \E s \in Steps : ActionOf(s) = action /\ Rank[s] < Rank[t]
      <4>1. PICK s \in Steps : ActionOf(s) = action /\ Rank[s] <= Rank[step]
        BY <3>1 DEF EntryHolds
      <4>2. Rank[s] \in Nat /\ Rank[step] \in Nat /\ Rank[t] \in Nat /\ Rank[step] < Rank[t]
        BY <1>0, <1>1, JumpsAhead, RankIsNat
      <4> QED
        BY <4>1, <4>2
    <3>2. \A s \in Steps : Rank[s] \in Nat /\ Rank[t] \in Nat
      BY RankIsNat
    <3>3. \A s \in Steps : Rank[s] < Rank[t] => Rank[s] <= Rank[t] /\ s # t
      BY <3>2
    <3>4. CASE action # ""
      BY <2>1, <3>1, <3>3, <3>4
    <3> QED
      BY <2>1, <3>4
  <2>8. step' \in {"lightbeam_send", "upload_send_results", "judge_send"} => job'.sendToOds
    <3>1. Rank[step] \in 1..25 /\ Program[Rank[step]] = step
      BY <1>0, StepAtRank
    <3>2. CASE t = "upload_send_results"
      <4>1. step = "lightbeam_send"
        <5>1. Rank[step] = 19
          BY <1>1, <3>1, <3>2, Ranks DEF Jump
        <5> QED
          BY <3>1, <5>1 DEF Program
      <4> QED
        BY <4>1 DEF EntryHolds
    <3>3. CASE t = "judge_send"
      <4>1. step = "upload_send_results"
        <5>1. Rank[step] = 20
          BY <1>1, <3>1, <3>3, Ranks DEF Jump
        <5> QED
          BY <3>1, <5>1 DEF Program
      <4> QED
        BY <4>1 DEF EntryHolds
    <3>4. CASE t = "lightbeam_send"
      BY <1>1, <3>4 DEF Jump
    <3> QED
      BY <2>1, <3>2, <3>3, <3>4
  <2> QED
    BY <2>2, <2>3, <2>4, <2>5, <2>6, <2>7, <2>8 DEF EntryHolds
<1>2. CASE Staying
  BY <1>0, <1>2 DEF Staying, control, EntryHolds, TypeOK, ControlTypeOK
<1>3. CASE Sending
  <2>1. /\ step = "lightbeam_send" /\ step' = "upload_send_results" /\ pc' = "body" /\ action' = action
        /\ error' = [code |-> "lightbeam_send", trace |-> FALSE] /\ alarm' = alarm
    BY <1>3 DEF Sending, Error
  <2>2. ControlTypeOK'
    BY <1>0, <2>1, StepNames DEF ControlTypeOK, Working, ErrorCodes
  <2>3. action # "" /\ job.sendToOds /\ \E s \in Steps : ActionOf(s) = action /\ Rank[s] <= Rank[step]
    BY <2>1 DEF EntryHolds
  <2>4. \E s \in Steps : ActionOf(s) = action /\ Rank[s] <= Rank[step']
    <3>1. Rank[step] = 19 /\ Rank[step'] = 20
      BY <2>1, Ranks
    <3>2. PICK s \in Steps : ActionOf(s) = action /\ Rank[s] <= Rank[step]
      BY <2>3
    <3>3. Rank[s] \in Nat
      BY RankIsNat
    <3> QED
      BY <3>1, <3>2, <3>3
  <2> QED
    BY <2>1, <2>2, <2>3, <2>4 DEF EntryHolds, Announcing
<1>4. CASE Ending
  <2>1. step = "compile_summary" /\ pc' = "succeeded" /\ UNCHANGED <<step, action, error, alarm>>
    BY <1>4 DEF Ending
  <2> QED
    BY <1>0, <2>1 DEF ControlTypeOK, EntryHolds, Announcing
<1>5. CASE Throwing
  <2>1. /\ pc' = "lock_error" /\ step' = step /\ action' = action /\ alarm' = alarm
        /\ error' \in [code : ErrorCodes \cup {None}, trace : BOOLEAN]
    <3>1. \A c \in ErrorCodes : [code |-> c, trace |-> FALSE] \in [code : ErrorCodes \cup {None}, trace : BOOLEAN]
      OBVIOUS
    <3> QED
      BY <1>0, <1>5, <3>1 DEF Throwing, Error
  <2> QED
    BY <1>0, <2>1 DEF ControlTypeOK, EntryHolds, Announcing, Cleanup
<1> QED
  BY <1>1, <1>2, <1>3, <1>4, <1>5 DEF Moving

-----------------------------------------------------------------------------
(* Output sets and the matching.                                            *)

LEMMA PlacesOfJudges ==
  ASSUME NEW s \in Steps
  PROVE  /\ Rank[s] = 12 => s = "judge_first_pass"
         /\ Rank[s] = 17 => s = "judge_second_pass"
         /\ Rank[s] = 18 => s = "upload_match_rates"
         /\ Rank[s] = 21 => s = "judge_send"
         /\ Rank[s] = 22 => s = "report_unmatched"
         /\ Rank[s] = 23 => s = "upload_unmatched"
         /\ Rank[s] = 24 => s = "upload_output"
BY StepAtRank DEF Program

(* A step that stays in the work passes neither judgement unless it is one. *)
LEMMA RegionsKept ==
  ASSUME step \in Steps, Moving \/ Staying \/ Sending \/ Ending \/ Throwing, pc' \in Working,
         step # "judge_first_pass", step # "judge_second_pass"
  PROVE  /\ Rank[step'] \in Nat /\ Rank[step] \in Nat /\ step' \in Steps
         /\ Rank[step] <= Rank[step']
         /\ (Rank[step] <= 12) <=> (Rank[step'] <= 12)
         /\ (Rank[step] <= 17) <=> (Rank[step'] <= 17)
<1>1. Rank[step] \in Nat /\ Rank[step] # 12 /\ Rank[step] # 17
  BY RankIsNat, PlacesOfJudges
<1>2. CASE Moving
  <2>1. PICK t \in Steps : Jump(step, t) /\ step' = t
    BY <1>2 DEF Moving, GoTo
  <2> QED
    BY <1>1, <2>1, JumpsAhead
<1>3. CASE Staying
  BY <1>1, <1>3 DEF Staying, control
<1>4. CASE Sending
  BY <1>4, Ranks, StepNames DEF Sending
<1>5. CASE Ending \/ Throwing
  BY <1>5 DEF Ending, Throwing, Working, Announcing
<1> QED
  BY <1>2, <1>3, <1>4, <1>5

(* The first output set is of the first roster, and it is made once.       *)
LEMMA WorkSets ==
  ASSUME TypeOK, SetsHold, OdsHolds, EntryHolds, WorkStep
  PROVE  SetsHold' /\ OdsHolds' /\ odsGot' \in Rosters \cup {None}
<1>0. /\ pc = "body" /\ job' = job /\ step \in Steps /\ pc \in Working
      /\ Moving \/ Staying \/ Sending \/ Ending \/ Throwing
  BY WorkShape DEF TypeOK, Working
<1>1. FirstSet' = FirstSet /\ BothSets' = BothSets /\ Len(<<>>) = 0 /\ Len(FirstSet) = 1 /\ Len(BothSets) = 2
      /\ FirstSet # <<>> /\ BothSets # <<>> /\ FirstSet # BothSets
  <2>1. FirstRoster' = FirstRoster
    BY <1>0 DEF FirstRoster
  <2> QED
    BY <2>1 DEF FirstSet, BothSets
<1>2. CASE JudgeFirstPass
  <2>1. /\ step = "judge_first_pass" /\ outputSets = <<>> /\ setsUploaded = 0
        /\ outputSets' = FirstSet /\ odsGot' = odsGot /\ setsUploaded' = setsUploaded
    BY <1>0, <1>1, <1>2, Ranks DEF JudgeFirstPass, Doing, output, FirstSet, SetsHold
  <2>2. pc' \in Working => step' \in {"cross_year_roster", "upload_match_rates"}
    BY <1>2 DEF JudgeFirstPass, GoTo, Throw, Working, Announcing
  <2>3. step' \notin {"upload_send_results", "judge_send"}
    BY <1>2, <2>1 DEF JudgeFirstPass, GoTo, Throw
  <2>4. SetsHold'
    <3>1. setsUploaded' \in 0..Len(outputSets')
      BY <1>1, <2>1
    <3>2. /\ Rank[step'] <= Rank["judge_first_pass"] => pc' \notin Working
          /\ outputSets' # <<>> /\ outputSets' # BothSets'
      BY <1>1, <2>1, <2>2, Ranks
    <3> QED
      BY <1>1, <2>1, <3>1, <3>2 DEF SetsHold
  <2> QED
    BY <1>0, <2>1, <2>3, <2>4 DEF OdsHolds, OdsGetsThisYear, TypeOK
<1>3. CASE JudgeSecondPass
  <2>1. /\ step = "judge_second_pass" /\ outputSets = FirstSet
    BY <1>0, <1>1, <1>3, Ranks DEF JudgeSecondPass, Doing, SetsHold
  <2>2. Append(FirstSet, "cross_year") = BothSets
    <3>1. FirstSet \in Seq(Rosters) /\ "cross_year" \in Rosters
      BY DEF FirstSet, FirstRoster, Rosters
    <3> DEFINE s == Append(FirstSet, "cross_year")
    <3>2. /\ s \in Seq(Rosters) /\ Len(s) = 2 /\ s[2] = "cross_year" /\ s[1] = FirstSet[1]
      BY <1>1, <3>1, AppendProperties
    <3>3. BothSets \in Seq(Rosters) /\ BothSets[1] = FirstSet[1] /\ BothSets[2] = "cross_year"
      BY DEF FirstSet, BothSets, FirstRoster, Rosters
    <3> QED
      BY <1>1, <3>2, <3>3, SeqEqual
  <2>3. /\ odsGot' = odsGot /\ setsUploaded' = setsUploaded
        /\ \/ outputSets' = BothSets /\ step' = "upload_match_rates"
           \/ outputSets' = FirstSet /\ step' = "judge_second_pass" /\ pc' \notin Working
    BY <1>3, <2>1, <2>2 DEF JudgeSecondPass, output, GoTo, Throw, Working, Announcing
  <2>4. SetsHold'
    <3>1. setsUploaded' \in 0..Len(outputSets')
      BY <1>1, <2>1, <2>3 DEF SetsHold
    <3>2. pc' \in Working => outputSets' = BothSets' /\ step' = "upload_match_rates"
      BY <1>1, <2>3
    <3>3. outputSets' \in {FirstSet', BothSets'}
      BY <1>1, <2>3
    <3>4. CASE pc' \in Working
      <4>1. Rank[step'] = 18 /\ outputSets' # <<>>
        BY <1>1, <3>2, <3>4, Ranks
      <4> QED
        BY <3>1, <3>3, <4>1, Ranks DEF SetsHold
    <3>5. CASE pc' \notin Working
      BY <3>1, <3>3, <3>5 DEF SetsHold
    <3> QED
      BY <3>4, <3>5
  <2> QED
    BY <1>0, <2>3, <2>4 DEF OdsHolds, OdsGetsThisYear, TypeOK
<1>4. CASE ~JudgeFirstPass /\ ~JudgeSecondPass
  <2>1. outputSets' = outputSets
    BY <1>4, WorkFrame
  <2>2. step # "judge_first_pass" /\ step # "judge_second_pass"
    BY <1>4 DEF WorkStep, Doing, InitRun, UnpackJob, RefreshBundleCode, EarthmoverDeps, GetInputFiles,
       MapDescriptors, UnpackIdTypes, Prepare, UploadArtifact, ArtifactOf, GetStudentRoster, FirstPass,
       SecondPass, EarthmoverRun, CrossYearRoster, LightbeamSend, JudgeSend, ReportUnmatched,
       UploadOutputSet, CompileSummary
  <2>3. setsUploaded' \in 0..Len(outputSets)
    <3>1. CASE UploadOutputSet
      <4>1. setsUploaded' = setsUploaded \/ (setsUploaded < Len(outputSets) /\ setsUploaded' = setsUploaded + 1)
        BY <3>1 DEF UploadOutputSet
      <4>2. setsUploaded \in Nat /\ Len(outputSets) \in Nat /\ setsUploaded <= Len(outputSets)
        BY <1>1 DEF SetsHold
      <4> QED
        BY <4>1, <4>2
    <3>2. CASE ~UploadOutputSet
      BY <3>2, WorkFrame DEF SetsHold
    <3> QED
      BY <3>1, <3>2
  <2>4. SetsHold'
    <3>1. CASE pc' \in Working
      BY <1>0, <1>1, <2>1, <2>2, <2>3, <3>1, RegionsKept, Ranks DEF SetsHold
    <3>2. CASE pc' \notin Working
      BY <1>1, <2>1, <2>3, <3>2 DEF SetsHold
    <3> QED
      BY <3>1, <3>2
  <2>5. CASE LightbeamSend
    <3>1. job.sendToOds /\ step = "lightbeam_send"
      BY <2>5 DEF LightbeamSend, Doing, EntryHolds
    <3>2. outputSets \in {FirstSet, BothSets}
      BY <1>0, <1>1, <3>1, Ranks DEF SetsHold
    <3>3. odsGot' = "this_year"
      BY <2>5, <3>1, <3>2 DEF LightbeamSend, SetForOds, FirstSet, BothSets, FirstRoster
    <3>4. None # "this_year"
      BY NoneOK DEF Rosters
    <3> QED
      BY <1>0, <2>4, <3>1, <3>3, <3>4 DEF OdsHolds, OdsGetsThisYear, Rosters
  <2>6. CASE ~LightbeamSend
    <3>1. odsGot' = odsGot /\ step # "lightbeam_send"
      BY <2>6, WorkFrame DEF WorkStep, Doing, InitRun, UnpackJob, RefreshBundleCode, EarthmoverDeps, GetInputFiles,
         MapDescriptors, UnpackIdTypes, Prepare, UploadArtifact, ArtifactOf, GetStudentRoster, FirstPass,
         SecondPass, EarthmoverRun, CrossYearRoster, LightbeamSend, JudgeSend, ReportUnmatched,
         UploadOutputSet, CompileSummary, JudgeFirstPass, JudgeSecondPass
    <3>2. step' \in {"upload_send_results", "judge_send"} => step \in {"upload_send_results", "judge_send"}
      <4>1. ASSUME NEW t \in Steps, Jump(step, t), t \in {"upload_send_results", "judge_send"}
            PROVE  step \in {"upload_send_results", "judge_send"}
        <5>1. Rank[step] \in {19, 20}
          BY <1>0, <4>1, Ranks, RankIsNat DEF Jump
        <5> QED
          BY <1>0, <3>1, <5>1, StepAtRank DEF Program
      <4> QED
        BY <1>0, <3>1, <4>1 DEF Moving, GoTo, Staying, control, Sending, Ending, Throwing
    <3> QED
      BY <1>0, <2>4, <3>1, <3>2 DEF OdsHolds, OdsGetsThisYear, TypeOK
  <2> QED
    BY <2>5, <2>6
<1> QED
  BY <1>2, <1>3, <1>4

(* What is left of the types, and how well the students matched.           *)
DataTypeOK ==
  /\ job \in [sendToOds : BOOLEAN, crossYear : BOOLEAN]
  /\ success \in BOOLEAN /\ reachable \in BOOLEAN
  /\ match \in PassResults /\ ratesFile \in PassResults
  /\ needsUpload \subseteq Artifacts /\ onDisk \subseteq Artifacts /\ inS3 \subseteq Artifacts
  /\ rows \subseteq (Actions \cup {"done"}) \X {"begin", "success", "failure"}
  /\ errorRow \in ErrorCodes \cup {None}
  /\ idMatches \in {1, None}
  /\ failedPosts \in 0..MaxFailedPosts

LEMMA PassFields ==
  ASSUME NEW m \in PassResults
  PROVE  /\ m = [rate |-> m.rate, unmatched |-> m.unmatched]
         /\ m.rate \in {"none", "below", "enough"}
         /\ m.rate = "none" => m = NoMatch /\ m.unmatched = None
         /\ m.rate = "below" => m.unmatched = 1
         /\ m.rate = "enough" => m.unmatched \in {0, 1}
         /\ m # NoMatch => m.rate \in {"below", "enough"}
         /\ m.unmatched \in {0, 1, None}
<1>1. CASE m = NoMatch
  BY <1>1 DEF NoMatch
<1>2. CASE m \in [rate : {"below"}, unmatched : {1}]
  BY <1>2 DEF NoMatch
<1>3. CASE m \in [rate : {"enough"}, unmatched : {0, 1}]
  BY <1>3 DEF NoMatch
<1> QED
  BY <1>1, <1>2, <1>3 DEF PassResults

LEMMA NoneIsNoNumber == None # 0 /\ None # 1
<1>1. None \notin Nat
  BY NoneOK
<1> QED
  BY <1>1

(* A second judgement that is passed leaves a record with a number.        *)
LEMMA SecondJudgement ==
  ASSUME TypeOK, JudgeSecondPass
  PROVE  /\ match' \in PassResults
         /\ pc' \in Working => match'.unmatched \in {0, 1}
<1>1. match \in PassResults /\ ratesFile \in PassResults
  BY DEF TypeOK
<1>2. CASE match.rate = "enough"
  <2>1. EnoughMatches(match)
    BY <1>2 DEF EnoughMatches
  <2>2. match' = [match EXCEPT !.unmatched = Remaining(match.unmatched)]
    BY <1>2, <2>1 DEF JudgeSecondPass
  <2>3. Remaining(match.unmatched) \in {0, 1}
    BY <1>1, <1>2, PassFields DEF Remaining
  <2>4. match' = [rate |-> "enough", unmatched |-> Remaining(match.unmatched)]
    <3>1. match \in [rate : {"enough"}, unmatched : {0, 1}]
      BY <1>1, <1>2, PassFields DEF PassResults
    <3> QED
      BY <2>2, <3>1
  <2>5. [rate |-> "enough", unmatched |-> Remaining(match.unmatched)] \in PassResults
    BY <2>3 DEF PassResults
  <2> QED
    BY <2>3, <2>4, <2>5
<1>3. CASE match.rate # "enough" /\ EnoughMatches(ratesFile)
  <2>1. ratesFile.rate = "enough" /\ ratesFile.unmatched \in {0, 1} /\ ratesFile # NoMatch
    BY <1>1, <1>3, PassFields, NoneIsNoNumber DEF EnoughMatches, NoMatch
  <2>2. match' = [ratesFile EXCEPT !.unmatched = ratesFile.unmatched]
    BY <1>3, <2>1 DEF JudgeSecondPass, Remaining
  <2>3. match' = ratesFile
    <3>1. ratesFile \in [rate : {"enough"}, unmatched : {0, 1}]
      BY <1>1, <2>1, PassFields DEF PassResults
    <3> QED
      BY <2>2, <3>1
  <2> QED
    BY <1>1, <2>1, <2>3
<1>4. CASE match.rate # "enough" /\ ~EnoughMatches(ratesFile)
  BY <1>1, <1>4 DEF JudgeSecondPass, Throw, Working, Announcing
<1> QED
  BY <1>2, <1>3, <1>4

LEMMA WorkTypes ==
  ASSUME TypeOK, WorkStep
  PROVE  DataTypeOK'
<1>0. DataTypeOK /\ job' = job
  BY WorkShape DEF TypeOK, DataTypeOK
<1>1. success' \in BOOLEAN /\ reachable' \in BOOLEAN
  BY <1>0, WorkFrame DEF DataTypeOK, InitRun, CompileSummary
<1>2. ratesFile' \in PassResults
  BY <1>0, WorkFrame DEF DataTypeOK, FirstPass, SecondPass, EarthmoverRun
<1>3. match' \in PassResults
  BY <1>0, WorkFrame, SecondJudgement DEF DataTypeOK, JudgeFirstPass
<1>4. inS3' \subseteq Artifacts
  <2>1. ASSUME NEW s \in Steps, UploadArtifact(s), inS3' # inS3 PROVE ArtifactOf(s) \in Artifacts /\ inS3' = inS3 \cup {ArtifactOf(s)}
    BY <1>0, <2>1 DEF UploadArtifact, DataTypeOK
  <2> QED
    BY <1>0, <2>1, WorkFrame DEF DataTypeOK
<1>5. needsUpload' \subseteq Artifacts
  <2>1. \A a : Wanted(a) \subseteq needsUpload \cup Artifacts
    BY DEF Wanted, Artifacts
  <2>2. ASSUME NEW s \in Steps, UploadArtifact(s) PROVE needsUpload' \subseteq Wanted(ArtifactOf(s))
    BY <2>2 DEF UploadArtifact
  <2>3. CASE FirstPass \/ SecondPass \/ UnpackJob
    BY <1>0, <2>3 DEF FirstPass, SecondPass, EarthmoverRun, UnpackJob, RatesWithheld, DataTypeOK
  <2> QED
    BY <1>0, <2>1, <2>2, <2>3, WorkFrame DEF DataTypeOK
<1>6. onDisk' \subseteq Artifacts
  <2> USE DEF files
  <2>0. onDisk \subseteq Artifacts
    BY <1>0 DEF DataTypeOK
  <2>1. CASE GetStudentRoster \/ CrossYearRoster \/ LightbeamSend \/ JudgeFirstPass
    BY <2>0, <2>1 DEF GetStudentRoster, CrossYearRoster, LightbeamSend, JudgeFirstPass, Artifacts
  <2>2. ASSUME NEW s, NEW results \in Artifacts, EarthmoverRun(s, results) PROVE onDisk' \subseteq Artifacts
    <3>1. \A m : \A f \in FilesOfPass(results, m) : f \subseteq Artifacts
      BY DEF FilesOfPass, Artifacts
    <3>2. {results, "match_rates", "unmatched"} \subseteq Artifacts
      BY DEF Artifacts
    <3> QED
      BY <2>0, <2>2, <3>1, <3>2 DEF EarthmoverRun
  <2>3. CASE FirstPass \/ SecondPass
    BY <2>2, <2>3 DEF FirstPass, SecondPass, Artifacts
  <2>4. CASE \/ InitRun \/ UnpackJob \/ RefreshBundleCode \/ EarthmoverDeps \/ GetInputFiles
             \/ MapDescriptors \/ UnpackIdTypes \/ \E s \in Steps : UploadArtifact(s)
    BY <2>0, <2>4 DEF InitRun, UnpackJob, RefreshBundleCode, EarthmoverDeps, GetInputFiles, MapDescriptors,
                      UnpackIdTypes, Prepare, UploadArtifact
  <2>5. CASE JudgeSecondPass \/ JudgeSend \/ ReportUnmatched \/ UploadOutputSet \/ CompileSummary
    BY <2>0, <2>5 DEF JudgeSecondPass, JudgeSend, ReportUnmatched, UploadOutputSet, CompileSummary
  <2> QED
    BY <2>1, <2>3, <2>4, <2>5 DEF WorkStep
<1>7. idMatches' \in {1, None} /\ failedPosts' \in 0..MaxFailedPosts
  <2>1. CASE ReportUnmatched
    <3>1. match.unmatched \in {0, 1, None}
      BY <1>0, PassFields DEF DataTypeOK
    <3> QED
      BY <1>0, <2>1, <3>1, MaxFailedPostsOK DEF ReportUnmatched, Post, PostThrows, DataTypeOK
  <2> QED
    BY <1>0, <2>1, WorkFrame DEF DataTypeOK
<1>8. /\ rows' \subseteq (Actions \cup {"done"}) \X {"begin", "success", "failure"}
      /\ errorRow' \in ErrorCodes \cup {None}
  BY <1>0, WorkFrame DEF DataTypeOK
<1> QED
  BY <1>0, <1>1, <1>2, <1>3, <1>4, <1>5, <1>6, <1>7, <1>8 DEF DataTypeOK

(* A step's work is that step's.                                            *)
LEMMA WorkOfStep ==
  ASSUME WorkStep
  PROVE  /\ step = "judge_first_pass" => JudgeFirstPass
         /\ step = "judge_second_pass" => JudgeSecondPass
         /\ step = "report_unmatched" => ReportUnmatched
         /\ ArtifactOf(step) # None => UploadArtifact(step)
<1> USE DEF Doing, ArtifactOf
<1>1. CASE InitRun \/ UnpackJob \/ RefreshBundleCode \/ EarthmoverDeps \/ GetInputFiles
  BY <1>1 DEF InitRun, UnpackJob, RefreshBundleCode, EarthmoverDeps, GetInputFiles, Prepare
<1>2. CASE \/ MapDescriptors \/ UnpackIdTypes \/ GetStudentRoster \/ FirstPass \/ SecondPass \/ CrossYearRoster
  BY <1>2 DEF MapDescriptors, UnpackIdTypes, Prepare, GetStudentRoster, FirstPass, SecondPass,
              EarthmoverRun, CrossYearRoster
<1>3. CASE LightbeamSend \/ JudgeSend \/ UploadOutputSet \/ CompileSummary
  BY <1>3 DEF LightbeamSend, JudgeSend, UploadOutputSet, CompileSummary
<1>4. CASE JudgeFirstPass
  BY <1>4 DEF JudgeFirstPass
<1>5. CASE JudgeSecondPass
  BY <1>5 DEF JudgeSecondPass
<1>6. CASE ReportUnmatched
  BY <1>6 DEF ReportUnmatched
<1>7. CASE \E s \in Steps : UploadArtifact(s)
  BY <1>7 DEF UploadArtifact
<1> QED
  BY <1>1, <1>2, <1>3, <1>4, <1>5, <1>6, <1>7 DEF WorkStep

(* The work ends in success once, and in a failure before that.            *)
LEMMA WorkOutcome ==
  ASSUME TypeOK, OutcomeHolds, NoWorkAfterTimeout, WorkStep
  PROVE  /\ OutcomeHolds' /\ NoWorkAfterTimeout'
         /\ success' => CompileSummary
         /\ pc' \in Working \cup {"lock_error", "succeeded"}
<1>1. /\ pc = "body" /\ pc \in Working /\ ~success /\ alarm \notin {"at_work", "late"} /\ rows' = rows
      /\ Moving \/ Staying \/ Sending \/ Ending \/ Throwing
  BY WorkShape, WorkFrame DEF OutcomeHolds, NoWorkAfterTimeout, Working
<1>2. alarm' = alarm
  BY <1>1 DEF Moving, GoTo, Staying, control, Sending, Ending, Throwing
<1>3. pc' \in Working \cup {"lock_error", "succeeded"}
  BY <1>1 DEF Moving, GoTo, Staying, control, Sending, Ending, Throwing, Working, Announcing
<1>4. success' <=> pc' = "succeeded"
  <2>1. CASE CompileSummary
    BY <1>1, <2>1 DEF CompileSummary, Fails, Throw
  <2>2. CASE ~CompileSummary
    <3>1. success' = success
      BY <2>2, WorkFrame
    <3> QED
      BY <1>1, <3>1 DEF Moving, GoTo, Staying, control, Sending, Ending, Throwing
  <2> QED
    BY <2>1, <2>2
<1>5. success' => CompileSummary
  BY <1>1, WorkFrame
<1>6. OutcomeHolds'
  BY <1>1, <1>3, <1>4 DEF OutcomeHolds, Working, Announcing, Cleanup
<1> QED
  BY <1>1, <1>2, <1>3, <1>5, <1>6 DEF NoWorkAfterTimeout

(* By the time of the last steps the unmatched rows are told.              *)
LEMMA WorkMatch ==
  ASSUME TypeOK, MatchHolds, OutcomeHolds, NoWorkAfterTimeout, WorkStep
  PROVE  MatchHolds'
<1>0. /\ pc = "body" /\ pc \in Working /\ step \in Steps
      /\ Moving \/ Staying \/ Sending \/ Ending \/ Throwing
      /\ match \in PassResults /\ ratesFile \in PassResults
  BY WorkShape DEF TypeOK, Working
<1>1. success' => CompileSummary /\ step = "compile_summary"
  BY WorkOutcome DEF CompileSummary, Doing
<1>2. CASE JudgeFirstPass
  <2>1. step = "judge_first_pass" /\ match' = ratesFile
    BY <1>2 DEF JudgeFirstPass, Doing
  <2>2. \/ step' = "cross_year_roster" \/ pc' \notin Working
        \/ step' = "upload_match_rates" /\ EnoughMatches(ratesFile)
    BY <1>2 DEF JudgeFirstPass, GoTo, Throw, Working, Announcing
  <2>3. EnoughMatches(ratesFile) => ratesFile.unmatched \in {0, 1}
    BY <1>0, PassFields DEF EnoughMatches
  <2> QED
    BY <1>1, <2>1, <2>2, <2>3, Ranks DEF MatchHolds
<1>3. CASE JudgeSecondPass
  <2>1. step = "judge_second_pass" /\ (step' = "upload_match_rates" \/ pc' \notin Working)
    BY <1>3 DEF JudgeSecondPass, Doing, GoTo, Throw, Working, Announcing
  <2> QED
    BY <1>1, <1>3, <2>1, SecondJudgement DEF MatchHolds
<1>4. CASE ReportUnmatched
  <2>1. step = "report_unmatched" /\ match' = match /\ match.unmatched \in {0, 1}
    BY <1>0, <1>4, Ranks DEF ReportUnmatched, Doing, matching, MatchHolds
  <2>2. \/ pc' \notin Working
        \/ step' = "upload_output" /\ match.unmatched = 0
        \/ step' = "upload_unmatched" /\ match.unmatched = 1 /\ (failedPosts' = 0 => idMatches' = 1)
    <3>1. failedPosts \in Nat
      <4>1. failedPosts \in 0..MaxFailedPosts
        BY DEF TypeOK
      <4> QED
        BY <4>1, MaxFailedPostsOK
    <3>2. PostThrows => pc' \notin Working
      BY DEF PostThrows, Throw, Working, Announcing
    <3>3. GoTo("upload_output") => step' = "upload_output"
      BY DEF GoTo
    <3>4. GoTo("upload_unmatched") => step' = "upload_unmatched"
      BY DEF GoTo
    <3>5. CASE match.unmatched = 0
      BY <1>4, <3>3, <3>5 DEF ReportUnmatched
    <3>6. CASE match.unmatched # 0
      <4>1. Post(idMatches' = match.unmatched, UNCHANGED idMatches) => (failedPosts' = 0 => idMatches' = match.unmatched)
        BY <3>1 DEF Post
      <4>2. /\ Post(idMatches' = match.unmatched, UNCHANGED idMatches)
            /\ GoTo("upload_unmatched") \/ PostThrows
        BY <1>4, <3>6 DEF ReportUnmatched
      <4>3. match.unmatched = 1 /\ (failedPosts' = 0 => idMatches' = 1)
        BY <2>1, <3>6, <4>1, <4>2
      <4> QED
        BY <3>2, <3>4, <4>2, <4>3
    <3> QED
      BY <3>5, <3>6
  <2>3. ~success' /\ Rank["report_unmatched"] > 17
    BY <1>1, <2>1, Ranks
  <2>4. CASE pc' \notin Working
    BY <2>3, <2>4 DEF MatchHolds
  <2>5. CASE step' = "upload_output" /\ match.unmatched = 0
    BY <2>1, <2>3, <2>5 DEF MatchHolds, Told
  <2>6. CASE step' = "upload_unmatched" /\ match.unmatched = 1 /\ (failedPosts' = 0 => idMatches' = 1)
    BY <2>1, <2>3, <2>6 DEF MatchHolds
  <2> QED
    BY <2>2, <2>4, <2>5, <2>6
<1>5. CASE ~JudgeFirstPass /\ ~JudgeSecondPass /\ ~ReportUnmatched
  <2>1. /\ match' = match /\ idMatches' = idMatches /\ failedPosts' = failedPosts
        /\ step \notin {"judge_first_pass", "judge_second_pass", "report_unmatched"}
    BY <1>5, WorkFrame, WorkOfStep
  <2>2. inS3 \subseteq inS3'
    BY WorkFrame DEF UploadArtifact
  <2>3. Told => Told'
    BY <2>1, <2>2 DEF Told
  <2>4. pc' \in Working /\ Rank[step'] > 17 => match'.unmatched \in {0, 1}
    BY <1>0, <2>1, RegionsKept, Ranks DEF MatchHolds
  <2>5. ASSUME pc' \in Working, step' = "upload_unmatched" PROVE step = "upload_unmatched"
    <3>1. ASSUME NEW t \in Steps, Jump(step, t), t = "upload_unmatched" PROVE FALSE
      <4>1. Rank[step] = 22
        BY <3>1, Ranks, RankIsNat, <1>0 DEF Jump
      <4> QED
        BY <1>0, <2>1, <4>1, PlacesOfJudges
    <3> QED
      BY <1>0, <2>5, <3>1 DEF Moving, GoTo, Staying, control, Sending, Ending, Throwing, Working, Announcing
  <2>6. ASSUME pc' \in Working, step' \in {"upload_output", "compile_summary"} PROVE Told'
    <3>1. ASSUME NEW t \in Steps, Jump(step, t), t \in {"upload_output", "compile_summary"}
          PROVE  step \in {"upload_unmatched", "upload_output"}
      <4>1. Rank[step] \in {23, 24}
        BY <1>0, <2>1, <3>1, Ranks, RankIsNat DEF Jump
      <4> QED
        BY <1>0, <4>1, PlacesOfJudges
    <3>2. step \in {"upload_unmatched", "upload_output", "compile_summary"}
      BY <1>0, <2>6, <3>1 DEF Moving, GoTo, Staying, control, Sending, Ending, Throwing, Working, Announcing
    <3>3. CASE step = "upload_unmatched"
      <4>1. UploadArtifact(step) /\ ArtifactOf(step) = "unmatched"
        <5>1. None # "unmatched"
          BY NoneOK DEF Artifacts
        <5> QED
          BY <3>3, <5>1, WorkOfStep DEF ArtifactOf
      <4>2. "unmatched" \in inS3'
        <5>1. step' # step
          BY <2>6, <3>3
        <5> QED
          BY <4>1, <5>1 DEF UploadArtifact, Fails, Throw
      <4>3. failedPosts = 0 => match.unmatched = 1 /\ idMatches = 1
        BY <1>0, <3>3 DEF MatchHolds
      <4> QED
        BY <2>1, <4>2, <4>3 DEF Told
    <3>4. CASE step \in {"upload_output", "compile_summary"}
      BY <1>0, <2>3, <3>4 DEF MatchHolds
    <3> QED
      BY <3>2, <3>3, <3>4
  <2>7. success' => Told'
    BY <1>0, <1>1, <2>3 DEF MatchHolds
  <2>8. pc' \in Working /\ step' = "upload_unmatched" /\ failedPosts' = 0 => match'.unmatched = 1 /\ idMatches' = 1
    BY <1>0, <2>1, <2>5 DEF MatchHolds
  <2> QED
    BY <2>4, <2>6, <2>7, <2>8, Ranks DEF MatchHolds
<1> QED
  BY <1>2, <1>3, <1>4, <1>5

-----------------------------------------------------------------------------
(* Errors of the work.                                                      *)

(* Which step throws which error.                                           *)
ThrownBy(c) ==
  /\ c = "lightbeam_send" => (step = "judge_send" /\ step' = step) \/ (Sending /\ LightbeamSend)
  /\ c = "insufficient_matches" => step \in {"judge_first_pass", "judge_second_pass"} /\ step' = step
  /\ c = "earthmover_run" => /\ step \in {"first_pass", "second_pass"} /\ step' = step
                             /\ pc' = "lock_error"
                             /\ needsUpload' = needsUpload \ {"match_rates"} /\ inS3' = inS3
  /\ c = "artifact" => (ArtifactOf(step) # None \/ step = "upload_output") /\ step' = step

LEMMA ErrorsOfWork ==
  ASSUME WorkStep
  PROVE  error' = error \/ \E c \in ErrorCodes : error' = Error(c) /\ ThrownBy(c)
<1> DEFINE Own == error' = error \/ \E c \in ErrorCodes : error' = Error(c) /\ ThrownBy(c)
           Plain == {"invalid_job", "bundle_git_pull", "earthmover_deps", "input_s3_download",
                     "missing_ods_roster", "lightbeam_fetch", "cross_year_roster_fetch"}
<1>1. ASSUME NEW t, GoTo(t) PROVE Own
  BY <1>1 DEF GoTo
<1>2. ASSUME NEW codes \in SUBSET Plain, Fails(codes) PROVE Own
  <2>1. \A c \in Plain : c \in ErrorCodes /\ ThrownBy(c)
    BY DEF ThrownBy, ErrorCodes
  <2> QED
    BY <1>2, <2>1 DEF Fails, Throw
<1>3. CASE InitRun \/ UnpackJob
  BY <1>1, <1>2, <1>3 DEF InitRun, UnpackJob
<1>4. CASE RefreshBundleCode \/ EarthmoverDeps \/ GetInputFiles \/ MapDescriptors \/ UnpackIdTypes
  BY <1>1, <1>2, <1>4 DEF RefreshBundleCode, EarthmoverDeps, GetInputFiles, MapDescriptors, UnpackIdTypes, Prepare
<1>5. CASE GetStudentRoster
  <2>1. RosterErrors \subseteq Plain
    BY DEF RosterErrors, FirstRoster
  <2> QED
    BY <1>1, <1>2, <1>5, <2>1 DEF GetStudentRoster
<1>6. CASE CrossYearRoster
  BY <1>1, <1>2, <1>6 DEF CrossYearRoster
<1>7. ASSUME NEW s \in Steps, UploadArtifact(s) PROVE Own
  <2>1. CASE Fails({"artifact"})
    <3>1. step' = step /\ ArtifactOf(step) # None /\ (error' = error \/ error' = Error("artifact"))
      BY <1>7, <2>1 DEF UploadArtifact, Doing, Fails, Throw
    <3>2. ThrownBy("artifact") /\ "artifact" \in ErrorCodes
      BY <3>1 DEF ThrownBy, ErrorCodes
    <3> QED
      BY <3>1, <3>2
  <2> QED
    BY <1>1, <1>7, <2>1 DEF UploadArtifact
<1>8. CASE FirstPass \/ SecondPass
  <2>1. ASSUME NEW s \in {"first_pass", "second_pass"}, NEW results, EarthmoverRun(s, results) PROVE Own
    <3>1. CASE needsUpload' = RatesWithheld /\ Throw(Error("earthmover_run"))
      <4>1. ThrownBy("earthmover_run") /\ error' = Error("earthmover_run")
        BY <2>1, <3>1 DEF ThrownBy, EarthmoverRun, Doing, Throw, RatesWithheld
      <4> QED
        BY <4>1 DEF ErrorCodes
    <3> QED
      BY <1>1, <2>1, <3>1 DEF EarthmoverRun, Throw
  <2> QED
    BY <1>8, <2>1 DEF FirstPass, SecondPass
<1>9. ASSUME step \in {"judge_first_pass", "judge_second_pass"}, Throw(Error("insufficient_matches")) PROVE Own
  <2>1. ThrownBy("insufficient_matches") /\ error' = Error("insufficient_matches")
    BY <1>9 DEF ThrownBy, Throw
  <2> QED
    BY <2>1 DEF ErrorCodes
<1>10. CASE JudgeFirstPass
  BY <1>1, <1>9, <1>10 DEF JudgeFirstPass, Doing
<1>11. CASE JudgeSecondPass
  BY <1>1, <1>9, <1>11 DEF JudgeSecondPass, Doing
<1>12. CASE LightbeamSend
  <2>1. CASE error' = Error("lightbeam_send") /\ step' = "upload_send_results" /\ UNCHANGED <<pc, action, alarm>>
    <3>1. ThrownBy("lightbeam_send")
      BY <1>12, <2>1 DEF ThrownBy, Sending, LightbeamSend, Doing
    <3> QED
      BY <2>1, <3>1 DEF ErrorCodes
  <2> QED
    BY <1>1, <1>12, <2>1 DEF LightbeamSend, Throw
<1>13. CASE JudgeSend
  <2>1. CASE Fails({"lightbeam_send"})
    <3>1. step' = step /\ step = "judge_send" /\ (error' = error \/ error' = Error("lightbeam_send"))
      <4>1. step = "judge_send"
        BY <1>13 DEF JudgeSend, Doing
      <4>2. step' = step /\ (error' = error \/ error' = Error("lightbeam_send"))
        BY <2>1 DEF Fails, Throw
      <4> QED
        BY <4>1, <4>2
    <3>2. ThrownBy("lightbeam_send")
      BY <3>1 DEF ThrownBy
    <3>3. "lightbeam_send" \in ErrorCodes
      BY DEF ErrorCodes
    <3> QED
      BY <3>1, <3>2, <3>3
  <2> QED
    BY <1>1, <1>13, <2>1 DEF JudgeSend
<1>14. CASE ReportUnmatched
  BY <1>1, <1>14 DEF ReportUnmatched, PostThrows, Throw
<1>15. CASE UploadOutputSet
  <2>1. CASE Fails({"artifact"})
    <3>1. step' = step /\ step = "upload_output" /\ (error' = error \/ error' = Error("artifact"))
      BY <1>15, <2>1 DEF UploadOutputSet, Doing, Fails, Throw
    <3>2. ThrownBy("artifact") /\ "artifact" \in ErrorCodes
      BY <3>1 DEF ThrownBy, ErrorCodes
    <3> QED
      BY <3>1, <3>2
  <2> QED
    BY <1>1, <1>15, <2>1 DEF UploadOutputSet, control
<1>16. CASE CompileSummary
  BY <1>2, <1>16 DEF CompileSummary
<1> QED
  BY <1>3, <1>4, <1>5, <1>6, <1>7, <1>8, <1>10, <1>11, <1>12, <1>13, <1>14, <1>15, <1>16 DEF WorkStep

LEMMA StepsAhead ==
  ASSUME step \in Steps, Moving \/ Staying \/ Sending \/ Ending \/ Throwing
  PROVE  Rank[step] \in Nat /\ Rank[step'] \in Nat /\ Rank[step] <= Rank[step']
<1>1. Rank[step] \in Nat
  BY RankIsNat
<1>2. CASE Moving
  <2>1. PICK t \in Steps : Jump(step, t) /\ step' = t
    BY <1>2 DEF Moving, GoTo
  <2> QED
    BY <2>1, JumpsAhead
<1>3. CASE Sending
  BY <1>3, Ranks DEF Sending
<1> QED
  BY <1>1, <1>2, <1>3 DEF Staying, control, Ending, Throwing

(* The match rates of a pass that fails are withheld at once.              *)
LEMMA WorkRates ==
  ASSUME TypeOK, RatesHold, ErrorsHold, WorkStep
  PROVE  RatesHold'
<1>0. /\ pc = "body" /\ pc \in Working /\ step \in Steps
      /\ Moving \/ Staying \/ Sending \/ Ending \/ Throwing
  BY WorkShape DEF TypeOK, Working
<1>1. errorRow' # "earthmover_run" /\ error.code # "earthmover_run"
  <2>1. None # "earthmover_run"
    BY NoneOK DEF ErrorCodes
  <2> QED
    BY <1>0, <2>1, WorkFrame DEF ErrorsHold
<1>2. error'.code = "earthmover_run" => pc' \notin Working /\ "match_rates" \notin inS3' \cup needsUpload'
  <2> SUFFICES ASSUME error'.code = "earthmover_run"
               PROVE  pc' \notin Working /\ "match_rates" \notin inS3' \cup needsUpload'
    OBVIOUS
  <2>1. ThrownBy("earthmover_run")
    BY <1>1, ErrorsOfWork DEF Error
  <2>2. "match_rates" \notin inS3
    BY <1>0, <2>1, Ranks DEF ThrownBy, RatesHold
  <2> QED
    BY <2>1, <2>2 DEF ThrownBy, Working, Announcing
<1>3. ASSUME pc' \in Working, Rank[step'] <= 18 PROVE "match_rates" \notin inS3'
  <2>1. Rank[step] <= 18
    BY <1>0, <1>3, StepsAhead
  <2>2. "match_rates" \notin inS3
    BY <1>0, <2>1, Ranks DEF RatesHold
  <2>3. ASSUME NEW s \in Steps, UploadArtifact(s) PROVE "match_rates" \notin inS3'
    <3>1. s = step
      BY <2>3 DEF UploadArtifact, Doing
    <3>2. CASE s = "upload_match_rates"
      <4>1. GoTo(After(s))
        BY <1>3, <2>3 DEF UploadArtifact, Fails, Throw, Working, Announcing
      <4>2. ~(Rank[After(s)] <= 18)
        BY <3>2, Ranks, StepNames, FollowingRank DEF After
      <4> QED
        BY <1>3, <4>1, <4>2 DEF GoTo
    <3>3. CASE s # "upload_match_rates"
      <4>1. ArtifactOf(s) # "match_rates"
        <5>1. None # "match_rates"
          BY NoneOK DEF Artifacts
        <5> QED
          BY <3>3, <5>1 DEF ArtifactOf
      <4> QED
        BY <2>2, <2>3, <4>1 DEF UploadArtifact
    <3> QED
      BY <3>2, <3>3
  <2> QED
    BY <2>2, <2>3, WorkFrame
<1> QED
  BY <1>1, <1>2, <1>3, Ranks DEF RatesHold

(* An error is of the step that throws it; lightbeam's goes on.            *)
LEMMA WorkErrors ==
  ASSUME TypeOK, ErrorsHold, OdsHolds, SetsHold, EntryHolds, OutcomeHolds, NoWorkAfterTimeout, WorkStep
  PROVE  ErrorsHold'
<1>0. /\ pc = "body" /\ pc \in Working /\ step \in Steps
      /\ Moving \/ Staying \/ Sending \/ Ending \/ Throwing
  BY WorkShape DEF TypeOK, Working
<1>1. /\ errorRow' = None /\ None \notin ErrorCodes
      /\ error.code \in {None, "lightbeam_send", "executor_timeout"}
  BY <1>0, WorkFrame, NoneOK DEF ErrorsHold
<1>2. Rank[step] \in Nat /\ Rank[step'] \in Nat /\ Rank[step] <= Rank[step']
  BY <1>0, StepsAhead
<1>3. odsGot # None => odsGot' # None
  <2>1. OdsHolds'
    BY WorkSets
  <2>2. CASE LightbeamSend
    <3>1. outputSets \in {FirstSet, BothSets} /\ FirstRoster \in Rosters
      BY <1>0, <2>2, Ranks DEF LightbeamSend, Doing, SetsHold, FirstRoster, Rosters
    <3>2. odsGot' \in Rosters
      BY <2>2, <3>1 DEF LightbeamSend, SetForOds, FirstSet, BothSets
    <3> QED
      BY <3>2, NoneOK
  <2> QED
    BY <2>2, WorkFrame
<1>4. ErrorOfStep(errorRow)'
  BY <1>1 DEF ErrorOfStep, ErrorCodes
<1>7. error'.trace => error'.code # None
  BY ErrorsOfWork DEF Error, ErrorsHold
<1>5. CASE error' = error
  <2>1. ErrorOfStep(error.code)'
    BY <1>0, <1>1, <1>2, <1>3, <1>5, Ranks DEF ErrorsHold, ErrorOfStep, ErrorCodes
  <2>2. pc' \in Working \cup {"lock_error", "succeeded"}
    BY WorkOutcome
  <2> QED
    BY <1>1, <1>4, <1>5, <1>7, <2>1, <2>2 DEF ErrorsHold, Working, Announcing
<1>6. ASSUME NEW c \in ErrorCodes, error' = Error(c), ThrownBy(c), error' # error PROVE ErrorsHold'
  <2>1. pc' \in Working \cup {"lock_error", "succeeded"}
    BY WorkOutcome
  <2>2. error'.code = c
    BY <1>6 DEF Error
  <2>3. c = "lightbeam_send" => odsGot' # None /\ Rank[step'] > 19
    <3>1. CASE step = "judge_send" /\ step' = step
      <4>1. odsGot # None
        BY <3>1 DEF OdsHolds
      <4> QED
        BY <1>3, <3>1, <4>1, Ranks
    <3>2. CASE Sending /\ LightbeamSend
      <4>1. OdsHolds'
        BY WorkSets
      <4> QED
        BY <3>2, <4>1, Ranks DEF Sending, OdsHolds
    <3> QED
      BY <1>6, <3>1, <3>2 DEF ThrownBy
  <2>4. ErrorOfStep(c)'
    BY <1>6, <2>3, Ranks DEF ThrownBy, ErrorOfStep
  <2>5. pc' \in Working => c = "lightbeam_send"
    <3>1. CASE Sending
      BY <1>6, <3>1 DEF Sending, Error
    <3>2. CASE ~Sending
      BY <1>0, <1>6, <3>2 DEF Moving, GoTo, Staying, control, Ending, Throwing, Working, Announcing
    <3> QED
      BY <3>1, <3>2
  <2>6. ErrorOfStep(error.code)'
    BY <2>2, <2>4 DEF ErrorOfStep
  <2> QED
    BY <1>1, <1>4, <1>7, <2>1, <2>2, <2>5, <2>6 DEF ErrorsHold, Working, Announcing
<1> QED
  BY <1>5, <1>6, ErrorsOfWork

(* What has been finished stays finished.                                   *)
LEMMA FinishedStays ==
  ASSUME step \in Steps, step' \in Steps, Rank[step] <= Rank[step'], job' = job, success => success'
  PROVE  \A a : (Begun(a) => Begun(a)') /\ (Finished(a) => Finished(a)')
<1>1. \A s \in Steps : Rank[s] \in Nat
  BY RankIsNat
<1>2. \A a : Begun(a) => Begun(a)'
  BY <1>1 DEF Begun
<1> QED
  BY <1>2 DEF Finished

-----------------------------------------------------------------------------
(* Messages and the alarm.                                                  *)

LEMMA PostUpdateDoes ==
  ASSUME TypeOK, NEW row, PostUpdate(row)
  PROVE  /\ rows' = rows \/ (row[1] # "" /\ rows' = rows \cup {row})
         /\ failedPosts' \in 0..MaxFailedPosts /\ (failedPosts' = 0 => failedPosts = 0)
<1>1. failedPosts \in 0..MaxFailedPosts
  BY DEF TypeOK
<1>2. failedPosts \in Nat /\ MaxFailedPosts \in Nat
  BY <1>1, MaxFailedPostsOK
<1>3. failedPosts' \in 0..MaxFailedPosts /\ (failedPosts' = 0 => failedPosts = 0)
  <2>1. failedPosts' = failedPosts \/ (failedPosts < MaxFailedPosts /\ failedPosts' = failedPosts + 1)
    BY DEF PostUpdate, Post
  <2> QED
    BY <1>1, <1>2, <2>1
<1>4. rows' = rows \/ rows' = rows \cup {r \in {row} : r[1] # ""}
  BY DEF PostUpdate, Post
<1>5. CASE row[1] # ""
  <2>1. {r \in {row} : r[1] # ""} = {row}
    BY <1>5
  <2> QED
    BY <1>3, <1>4, <1>5, <2>1
<1>6. CASE row[1] = ""
  <2>1. {r \in {row} : r[1] # ""} = {}
    BY <1>6
  <2>2. rows \cup {} = rows
    OBVIOUS
  <2> QED
    BY <1>3, <1>4, <2>1, <2>2
<1> QED
  BY <1>5, <1>6

LEMMA PostUpdateOf ==
  ASSUME TypeOK, NEW a, NEW s, PostUpdate(<<a, s>>)
  PROVE  rows' = rows \/ (a # "" /\ rows' = rows \cup {<<a, s>>})
<1>1. PICK row : row = <<a, s>>
  OBVIOUS
<1>2. PostUpdate(row) /\ row[1] = a
  BY <1>1
<1> QED
  BY <1>1, <1>2, PostUpdateDoes

(* What the messages and the alarm leave alone.                            *)
LEMMA MessageFrame ==
  ASSUME MessageStep \/ Alarm \/ AlarmInRequest
  PROVE  /\ UNCHANGED <<job, success, reachable, step, match, ratesFile, outputSets>>
         /\ UNCHANGED <<onDisk, odsGot, setsUploaded, idMatches>>
         /\ inS3 \subseteq inS3' /\ (UploadRemaining \/ UNCHANGED <<inS3, needsUpload>>)
         /\ LockError \/ Alarm \/ AlarmInRequest \/ error' = error
         /\ SendError \/ Alarm \/ errorRow' = errorRow
<1> USE DEF env, matching, files, output, app, Leave
<1>1. CASE CloseAction \/ BeginAction \/ FinishSuccess
  BY <1>1 DEF CloseAction, BeginAction, FinishSuccess, PostThrows, Throw
<1>2. CASE LockError \/ UploadRemaining \/ UpdateFailure
  BY <1>2 DEF LockError, UploadRemaining, UpdateFailure
<1>3. CASE SendError \/ SendDone
  BY <1>3 DEF SendError, SendDone
<1>4. CASE Alarm \/ AlarmInRequest
  BY <1>4 DEF Alarm, AlarmInRequest
<1> QED
  BY <1>1, <1>2, <1>3, <1>4 DEF MessageStep

(* Where they go.                                                           *)
LEMMA MessageMoves ==
  ASSUME TypeOK, MessageStep \/ Alarm \/ AlarmInRequest
  PROVE  \/ pc = "close" /\ pc' \in {"begin", "lock_error"} /\ CloseAction
         \/ pc = "begin" /\ pc' \in {"body", "lock_error"} /\ BeginAction
         \/ pc = "succeeded" /\ pc' = "send_done" /\ FinishSuccess
         \/ pc = "lock_error" /\ pc' = "upload_remaining" /\ LockError
         \/ pc = "upload_remaining" /\ pc' \in {"upload_remaining", "update_failure"} /\ UploadRemaining
         \/ pc = "update_failure" /\ pc' = "send_error" /\ UpdateFailure
         \/ pc = "send_error" /\ pc' = "send_done" /\ SendError
         \/ pc = "send_done" /\ pc' = "exited" /\ SendDone
         \/ pc \in Working /\ pc' = "lock_error" /\ alarm' = "at_work" /\ Alarm
         \/ pc \in Cleanup \cup {"succeeded", "send_done"} /\ alarm' = "late" /\ Alarm
            /\ pc' \in {"update_failure", "send_error", "send_done", "exited"}
            /\ (pc' = "update_failure" => pc = "upload_remaining")
            /\ (pc' = "send_error" => pc = "update_failure")
            /\ (pc' = "send_done" => pc \in {"lock_error", "send_error", "succeeded"})
            /\ (pc' = "exited" => pc = "send_done")
         \/ pc \in Working /\ pc' = pc /\ AlarmInRequest
<1> USE DEF Leave
<1>1. CASE CloseAction
  BY <1>1 DEF CloseAction, PostThrows, Throw
<1>2. CASE BeginAction \/ FinishSuccess
  BY <1>2 DEF BeginAction, FinishSuccess
<1>3. CASE LockError \/ UploadRemaining
  BY <1>3 DEF LockError, UploadRemaining
<1>4. CASE UpdateFailure \/ SendError \/ SendDone
  BY <1>4 DEF UpdateFailure, SendError, SendDone
<1>5. CASE Alarm
  <2>0. /\ pc' = Interrupted(pc) /\ alarm' = IF pc \in Working THEN "at_work" ELSE "late"
        /\ pc \in Working \cup Cleanup \cup {"succeeded", "send_done"}
    BY <1>5 DEF Alarm, TypeOK
  <2>1. CASE pc \in Working
    <3>1. Interrupted(pc) = "lock_error"
      BY <2>1 DEF Interrupted, Working, Announcing
    <3> QED
      BY <1>5, <2>0, <2>1, <3>1
  <2>2. CASE pc \in Cleanup \cup {"succeeded", "send_done"}
    <3>1. pc \notin Working
      BY <2>2 DEF Cleanup, Working, Announcing
    <3>2. /\ pc = "upload_remaining" => Interrupted(pc) = "update_failure"
          /\ pc = "update_failure" => Interrupted(pc) = "send_error"
          /\ pc \in {"lock_error", "send_error", "succeeded"} => Interrupted(pc) = "send_done"
          /\ pc = "send_done" => Interrupted(pc) = "exited"
      BY <3>1 DEF Interrupted
    <3> QED
      BY <1>5, <2>0, <2>2, <3>1, <3>2 DEF Cleanup
  <2> QED
    BY <2>0, <2>1, <2>2
<1>6. CASE AlarmInRequest
  BY <1>6 DEF AlarmInRequest, Requesting, Doing, Working
<1> QED
  BY <1>1, <1>2, <1>3, <1>4, <1>5, <1>6 DEF MessageStep

LEMMA MessageControl ==
  ASSUME TypeOK, EntryHolds, MessageStep \/ Alarm \/ AlarmInRequest
  PROVE  ControlTypeOK' /\ EntryHolds'
<1>0. /\ step \in Steps /\ action \in Actions \cup {""} /\ alarm \in Alarms /\ step' = step /\ job' = job
      /\ error \in [code : ErrorCodes \cup {None}, trace : BOOLEAN]
      /\ pc \in Working \cup Cleanup \cup {"succeeded", "send_done", "exited"}
  BY MessageFrame DEF TypeOK
<1>1. pc \in Announcing => ActionOf(step) \in Actions
  BY <1>0, ActionNames DEF EntryHolds
<1>2. Rank[step] <= Rank[step]
  <2>1. Rank[step] \in Nat
    BY <1>0, RankIsNat
  <2> QED
    BY <2>1
<1>3. error' \in [code : ErrorCodes \cup {None}, trace : BOOLEAN]
  <2>1. \A e \in [code : ErrorCodes \cup {None}, trace : BOOLEAN] :
          Locked(e) \in [code : ErrorCodes \cup {None}, trace : BOOLEAN]
    BY DEF Locked, ErrorCodes
  <2>2. Error("executor_timeout") \in [code : ErrorCodes \cup {None}, trace : BOOLEAN]
    BY DEF Error, ErrorCodes
  <2> QED
    BY <1>0, <2>1, <2>2, MessageFrame DEF LockError, Alarm, AlarmInRequest
<1>4. CASE CloseAction
  <2>1. /\ pc = "close" /\ alarm' = alarm
        /\ \/ pc' = "lock_error" /\ action' = action
           \/ pc' = "begin" /\ action' = ""
    BY <1>4 DEF CloseAction, PostThrows, Throw
  <2>2. pc' \in Working \cup Cleanup
    BY <2>1 DEF Working, Announcing, Cleanup
  <2>3. EntryHolds'
    BY <1>0, <2>1 DEF EntryHolds, Announcing
  <2> QED
    BY <1>0, <1>3, <2>1, <2>2, <2>3 DEF ControlTypeOK
<1>5. CASE BeginAction
  <2>1. /\ pc = "begin" /\ alarm' = alarm /\ action' = ActionOf(step) /\ pc' \in {"body", "lock_error"}
    BY <1>5 DEF BeginAction
  <2>2. pc' \in Working \cup Cleanup /\ pc' \notin Announcing /\ action' \in Actions /\ action' # ""
    BY <1>1, <2>1, ActionNames DEF Working, Announcing, Cleanup
  <2>3. EntryHolds'
    BY <1>0, <1>2, <2>1, <2>2 DEF EntryHolds, Announcing
  <2> QED
    BY <1>0, <1>3, <2>1, <2>2, <2>3 DEF ControlTypeOK
<1>6. CASE Alarm
  <2>1. alarm' \in Alarms /\ pc' \in Cleanup \cup {"send_done", "exited"}
        /\ (action' = action \/ (pc = "begin" /\ action' = ActionOf(step)))
    <3>1. alarm' \in Alarms
      BY <1>6 DEF Alarm, Alarms
    <3>2. action' = action \/ (pc = "begin" /\ action' = ActionOf(step))
      BY <1>6 DEF Alarm
    <3>3. pc' \in Cleanup \cup {"send_done", "exited"}
      BY <1>6 DEF Alarm, Interrupted, Cleanup
    <3> QED
      BY <3>1, <3>2, <3>3
  <2>2. pc' \notin Announcing \cup {"body", "succeeded"}
    BY <2>1 DEF Cleanup, Announcing
  <2>3. action' \in Actions \cup {""}
    BY <1>0, <1>1, <2>1 DEF Announcing
  <2>4. EntryHolds'
    BY <1>0, <1>2, <2>1, <2>2 DEF EntryHolds, Announcing
  <2> QED
    BY <1>0, <1>3, <2>1, <2>3, <2>4 DEF ControlTypeOK
<1>7. CASE AlarmInRequest
  <2>1. pc' = pc /\ action' = action /\ alarm' = "swallowed"
    BY <1>7 DEF AlarmInRequest
  <2> QED
    BY <1>0, <1>3, <2>1 DEF ControlTypeOK, EntryHolds, Alarms
<1>8. CASE FinishSuccess
  <2>1. pc' = "send_done" /\ action' = "" /\ alarm' = alarm
    BY <1>8 DEF FinishSuccess
  <2> QED
    BY <1>0, <1>3, <2>1 DEF ControlTypeOK, EntryHolds, Announcing
<1>9. CASE LockError \/ UploadRemaining \/ UpdateFailure \/ SendError \/ SendDone
  <2>1. /\ action' = action /\ alarm' = alarm
        /\ pc' \in {"upload_remaining", "update_failure", "send_error", "send_done", "exited"}
    BY <1>9 DEF LockError, UploadRemaining, UpdateFailure, SendError, SendDone, Leave
  <2>2. pc' \notin Announcing \cup {"body", "succeeded"}
    BY <2>1 DEF Announcing
  <2>3. EntryHolds'
    BY <1>0, <2>1, <2>2 DEF EntryHolds, Announcing
  <2> QED
    BY <1>0, <1>3, <2>1, <2>3 DEF ControlTypeOK, Cleanup
<1> QED
  BY <1>4, <1>5, <1>6, <1>7, <1>8, <1>9 DEF MessageStep

(* A message leaves a row that the app may have; a success is announced of *)
(* an action that the program has gone past, or at the very end.           *)
LEMMA MessageRows ==
  ASSUME TypeOK, EntryHolds, OutcomeHolds, MessageStep \/ Alarm \/ AlarmInRequest
  PROVE  /\ failedPosts' \in 0..MaxFailedPosts /\ (failedPosts' = 0 => failedPosts = 0)
         /\ \/ rows' = rows
            \/ \E a \in Actions, s \in {"begin", "failure"} : rows' = rows \cup {<<a, s>>}
            \/ \E a \in Actions : rows' = rows \cup {<<a, "success">>} /\ Finished(a)
            \/ /\ pc = "send_done" /\ pc' = "exited"
               /\ rows' = rows \cup {<<"done", IF success THEN "success" ELSE "failure">>}
<1>0. /\ step \in Steps /\ action \in Actions \cup {""}
      /\ failedPosts \in 0..MaxFailedPosts
  BY DEF TypeOK
<1>1. pc \in Announcing => ActionOf(step) # "" /\ ActionOf(step) \in Actions
  BY <1>0, ActionNames DEF EntryHolds
<1>2. pc = "close" => action \in Actions /\ Finished(action)
  <2> SUFFICES ASSUME pc = "close" PROVE action \in Actions /\ Finished(action)
    OBVIOUS
  <2>1. PICK s \in Steps : ActionOf(s) = action /\ Rank[s] <= Rank[step] /\ s # step
    BY DEF EntryHolds, Announcing
  <2>2. Rank[s] < Rank[step]
    <3>1. Rank[s] \in Nat /\ Rank[step] \in Nat /\ Program[Rank[s]] = s /\ Program[Rank[step]] = step
      BY <1>0, RankIsNat, StepAtRank
    <3> QED
      BY <2>1, <3>1
  <2>3. Begun(ActionOf(step))
    <3>0. Rank[step] \in Nat
      BY <1>0, RankIsNat
    <3>1. Rank[step] <= Rank[step]
      BY <3>0
    <3>2. step = "lightbeam_send" => job.sendToOds
      BY DEF EntryHolds
    <3> QED
      BY <1>0, <3>1, <3>2 DEF Begun
  <2>4. ActionOf(step) # "" /\ action \in Actions
    BY <1>0 DEF EntryHolds, Announcing
  <2> QED
    BY <1>0, <2>1, <2>2, <2>3, <2>4 DEF Finished
<1>3. pc = "succeeded" => action \in Actions /\ Finished(action)
  BY <1>0 DEF EntryHolds, OutcomeHolds, Finished
<1>4. CASE CloseAction
  <2>1. pc = "close" /\ PostUpdate(<<action, "success">>)
    BY <1>4 DEF CloseAction, ActionToClose
  <2> QED
    BY <1>2, <2>1, PostUpdateDoes
<1>5. CASE BeginAction
  <2>1. pc = "begin" /\ PostUpdate(<<ActionOf(step), "begin">>)
    BY <1>5 DEF BeginAction
  <2> QED
    BY <1>1, <2>1, PostUpdateDoes DEF Announcing
<1>6. CASE FinishSuccess
  <2>1. pc = "succeeded" /\ PostUpdate(<<action, "success">>)
    BY <1>6 DEF FinishSuccess
  <2> QED
    BY <1>3, <2>1, PostUpdateDoes
<1>7. CASE LockError \/ UploadRemaining
  <2>1. rows' = rows /\ failedPosts' = failedPosts
    BY <1>7 DEF LockError, UploadRemaining, app
  <2> QED
    BY <1>0, <2>1
<1>8. CASE UpdateFailure
  <2>1. \/ rows' = rows /\ failedPosts' = failedPosts
        \/ PostUpdate(<<action, "failure">>)
    BY <1>8 DEF UpdateFailure
  <2>2. CASE PostUpdate(<<action, "failure">>)
    <3>1. \/ rows' = rows
          \/ action # "" /\ rows' = rows \cup {<<action, "failure">>}
      BY <2>2, PostUpdateOf
    <3>2. failedPosts' \in 0..MaxFailedPosts /\ (failedPosts' = 0 => failedPosts = 0)
      BY <2>2, PostUpdateDoes
    <3> QED
      BY <1>0, <3>1, <3>2
  <2> QED
    BY <1>0, <2>1, <2>2
<1>9. CASE SendError
  <2>1. rows' = rows /\ (failedPosts' = failedPosts \/ (failedPosts < MaxFailedPosts /\ failedPosts' = failedPosts + 1))
    BY <1>9 DEF SendError, Post
  <2>2. MaxFailedPosts \in Nat
    BY MaxFailedPostsOK
  <2>3. failedPosts' \in 0..MaxFailedPosts /\ (failedPosts' = 0 => failedPosts = 0)
    <3>0. failedPosts \in 0..MaxFailedPosts
      BY <1>0
    <3>1. failedPosts \in Nat /\ failedPosts <= MaxFailedPosts
      BY <2>2, <3>0
    <3> QED
      BY <2>1, <2>2, <3>1
  <2> QED
    BY <2>1, <2>3
<1>10. CASE SendDone
  <2>1. pc = "send_done" /\ pc' = "exited"
    BY <1>10 DEF SendDone, Leave
  <2>2. \/ rows' = rows /\ failedPosts' = failedPosts
        \/ PostUpdate(<<"done", IF success THEN "success" ELSE "failure">>)
    BY <1>10 DEF SendDone
  <2>3. CASE PostUpdate(<<"done", IF success THEN "success" ELSE "failure">>)
    BY <2>1, <2>3, PostUpdateDoes
  <2> QED
    BY <1>0, <2>2, <2>3
<1>11. CASE Alarm
  <2>1. failedPosts' = failedPosts
    BY <1>11 DEF Alarm
  <2>2. CASE rows' = rows \cup MessageAt(pc)
    <3>1. CASE pc = "close"
      BY <1>0, <1>2, <2>1, <2>2, <3>1 DEF MessageAt
    <3>2. CASE pc = "begin"
      BY <1>0, <1>1, <2>1, <2>2, <3>2 DEF MessageAt, Announcing
    <3>3. CASE pc = "succeeded"
      BY <1>0, <1>3, <2>1, <2>2, <3>3 DEF MessageAt
    <3>4. CASE pc = "update_failure"
      BY <1>0, <2>1, <2>2, <3>4 DEF MessageAt
    <3>5. CASE pc = "send_done"
      <4>1. pc' = "exited"
        BY <1>11, <3>5 DEF Alarm, Interrupted, Working, Announcing
      <4> QED
        BY <1>0, <2>1, <2>2, <3>5, <4>1 DEF MessageAt
    <3>6. CASE pc \notin {"close", "begin", "succeeded", "update_failure", "send_done"}
      BY <1>0, <2>1, <2>2, <3>6 DEF MessageAt
    <3> QED
      BY <3>1, <3>2, <3>3, <3>4, <3>5, <3>6
  <2> QED
    BY <1>0, <1>11, <2>1, <2>2 DEF Alarm
<1>12. CASE AlarmInRequest
  <2>1. rows' = rows /\ failedPosts' = failedPosts
    BY <1>12 DEF AlarmInRequest, app
  <2> QED
    BY <1>0, <2>1
<1> QED
  BY <1>4, <1>5, <1>6, <1>7, <1>8, <1>9, <1>10, <1>11, <1>12 DEF MessageStep

(* What the messages leave alone keeps what holds of it.                   *)
LEMMA MessageData ==
  ASSUME ExecutorInv, MessageStep \/ Alarm \/ AlarmInRequest
  PROVE  DataTypeOK' /\ SetsHold' /\ OdsHolds' /\ MatchHolds' /\ outputSets' = outputSets
<1>0. /\ TypeOK /\ EntryHolds /\ SetsHold /\ OdsHolds /\ MatchHolds /\ ErrorsHold /\ OutcomeHolds
  BY DEF ExecutorInv
<1>1. /\ job' = job /\ success' = success /\ reachable' = reachable /\ step' = step /\ match' = match
      /\ ratesFile' = ratesFile /\ outputSets' = outputSets /\ onDisk' = onDisk /\ odsGot' = odsGot
      /\ setsUploaded' = setsUploaded /\ idMatches' = idMatches /\ inS3 \subseteq inS3'
  BY MessageFrame
<1>2. pc' \in Working => pc \in Working
  BY <1>0, MessageMoves DEF Working, Announcing, Cleanup
<1>3. /\ failedPosts' \in 0..MaxFailedPosts /\ (failedPosts' = 0 => failedPosts = 0)
  BY <1>0, MessageRows
<1>4. rows' \subseteq (Actions \cup {"done"}) \X {"begin", "success", "failure"}
  <2>1. rows \subseteq (Actions \cup {"done"}) \X {"begin", "success", "failure"}
    BY <1>0 DEF TypeOK
  <2>2. \A a \in Actions, s \in {"begin", "success", "failure"} :
          <<a, s>> \in (Actions \cup {"done"}) \X {"begin", "success", "failure"}
    OBVIOUS
  <2>3. <<"done", IF success THEN "success" ELSE "failure">> \in (Actions \cup {"done"}) \X {"begin", "success", "failure"}
    OBVIOUS
  <2> QED
    BY <1>0, <2>1, <2>2, <2>3, MessageRows
<1>5. needsUpload' \subseteq Artifacts /\ inS3' \subseteq Artifacts
  BY <1>0, MessageFrame DEF TypeOK, UploadRemaining
<1>6. errorRow' \in ErrorCodes \cup {None}
  BY <1>0, MessageFrame DEF TypeOK, SendError, Post, Alarm
<1>7. DataTypeOK'
  BY <1>0, <1>1, <1>3, <1>4, <1>5, <1>6 DEF TypeOK, DataTypeOK
<1>8. SetsHold'
  <2>1. FirstSet' = FirstSet /\ BothSets' = BothSets
    BY <1>1 DEF FirstSet, BothSets, FirstRoster
  <2> QED
    BY <1>0, <1>1, <1>2, <2>1 DEF SetsHold
<1>9. OdsHolds'
  BY <1>0, <1>1 DEF OdsHolds, OdsGetsThisYear
<1>10. MatchHolds'
  <2>1. Told => Told'
    BY <1>1, <1>3 DEF Told
  <2> QED
    BY <1>0, <1>1, <1>2, <1>3, <2>1 DEF MatchHolds
<1> QED
  BY <1>1, <1>7, <1>8, <1>9, <1>10

(* The error may be given its stack trace or be replaced by the timeout,   *)
(* and is told as it is.                                                    *)
LEMMA MessageErrors ==
  ASSUME ExecutorInv, MessageStep \/ Alarm \/ AlarmInRequest
  PROVE  ErrorsHold' /\ RatesHold'
<1>0. TypeOK /\ ErrorsHold /\ RatesHold /\ OutcomeHolds /\ EntryHolds /\ NoWorkAfterTimeout
  BY DEF ExecutorInv
<1>1. /\ success' = success /\ reachable' = reachable /\ step' = step /\ odsGot' = odsGot
      /\ (failedPosts' = 0 => failedPosts = 0)
  BY <1>0, MessageFrame, MessageRows
<1>2. pc' \in Working => pc \in Working
  BY <1>0, MessageMoves DEF Working, Announcing, Cleanup
<1>3. error'.code \in {error.code, "unknown", "executor_timeout"} /\ (error'.trace => error'.code # None)
      /\ (error' = error \/ LockError \/ error'.code = "executor_timeout")
  <2>1. "unknown" # None
    BY NoneOK DEF ErrorCodes
  <2>2. CASE LockError
    <3>1. error' = Locked(error)
      BY <2>2 DEF LockError
    <3>2. error.code = None => error = NoError
      <4>1. error \in [code : ErrorCodes \cup {None}, trace : BOOLEAN]
        BY <1>0 DEF TypeOK
      <4>2. error = [code |-> error.code, trace |-> error.trace] /\ error.trace \in BOOLEAN
        BY <4>1
      <4> QED
        BY <1>0, <4>2 DEF ErrorsHold, NoError, Error
    <3> QED
      BY <2>1, <2>2, <3>1, <3>2 DEF Locked
  <2>3. CASE Alarm \/ AlarmInRequest
    BY <2>3 DEF Alarm, AlarmInRequest, Error
  <2> QED
    BY <1>0, <2>2, <2>3, MessageFrame DEF ErrorsHold
<1>4. errorRow' \in {errorRow, error.code} /\ (pc \in Working \cup {"lock_error"} => errorRow' = errorRow)
  <2>1. CASE SendError
    BY <2>1 DEF SendError, Post, Working, Announcing
  <2>2. CASE Alarm
    BY <2>2 DEF Alarm, Working, Announcing
  <2> QED
    BY <2>1, <2>2, MessageFrame
<1>5. ErrorOfStep(error.code)' /\ ErrorOfStep(errorRow)'
  BY <1>0, <1>1, <1>3, <1>4 DEF ErrorsHold, ErrorOfStep
<1>6. pc' \in Working => errorRow' = None /\ error'.code \in {None, "lightbeam_send", "executor_timeout"}
  <2> SUFFICES ASSUME pc' \in Working
               PROVE  errorRow' = None /\ error'.code \in {None, "lightbeam_send", "executor_timeout"}
    OBVIOUS
  <2>1. pc \in Working /\ ~LockError
    BY <1>2 DEF LockError, Leave, Working, Announcing
  <2> QED
    BY <1>0, <1>3, <1>4, <2>1 DEF ErrorsHold
<1>7. pc' \in {"upload_remaining", "update_failure", "send_error"} /\ alarm' # "late" =>
        error'.trace /\ error'.code # None
  <2> SUFFICES ASSUME pc' \in {"upload_remaining", "update_failure", "send_error"}, alarm' # "late"
               PROVE  error'.trace
    BY <1>3
  <2>1. CASE LockError
    BY <2>1 DEF LockError, Locked
  <2>2. CASE ~LockError
    <3>1. /\ UploadRemaining \/ UpdateFailure
          /\ pc \in {"upload_remaining", "update_failure"}
      BY <1>0, <2>2, MessageMoves DEF Working, Announcing
    <3>2. error' = error /\ alarm' = alarm
      BY <3>1 DEF UploadRemaining, UpdateFailure, Leave
    <3> QED
      BY <1>0, <3>1, <3>2 DEF ErrorsHold
  <2> QED
    BY <2>1, <2>2
<1>8. pc' \in {"send_done", "exited"} /\ reachable' /\ ~success' /\ failedPosts' = 0 /\ alarm' # "late" =>
        errorRow' # None
  <2> SUFFICES ASSUME pc' \in {"send_done", "exited"}, reachable, ~success, failedPosts' = 0, alarm' # "late"
               PROVE  errorRow' # None
    BY <1>1
  <2>1. (pc = "send_error" /\ SendError) \/ (pc = "send_done" /\ SendDone)
    BY <1>0, MessageMoves DEF Working, Announcing, OutcomeHolds
  <2>2. CASE pc = "send_error" /\ SendError
    <3>1. alarm' = alarm /\ error.trace /\ error.code # None
      BY <1>0, <2>2 DEF SendError, Leave, ErrorsHold
    <3>2. Post(errorRow' = error.code, UNCHANGED errorRow)
      BY <2>2, <3>1 DEF SendError, CanReport
    <3>3. errorRow' = error.code \/ failedPosts' = failedPosts + 1
      BY <3>2 DEF Post
    <3>4. failedPosts' # failedPosts + 1
      <4>1. failedPosts \in 0..MaxFailedPosts
        BY <1>0 DEF TypeOK
      <4>2. failedPosts = 0
        BY <1>1
      <4> QED
        BY <4>2
    <3> QED
      BY <3>1, <3>3, <3>4
  <2>3. CASE pc = "send_done" /\ SendDone
    <3>1. alarm' = alarm /\ errorRow' = errorRow
      BY <2>3 DEF SendDone, Leave
    <3> QED
      BY <1>0, <1>1, <2>3, <3>1 DEF ErrorsHold
  <2> QED
    BY <2>1, <2>2, <2>3
<1>9. ErrorsHold'
  BY <1>3, <1>5, <1>6, <1>7, <1>8 DEF ErrorsHold
<1>10. RatesHold'
  <2>1. pc \notin Working => pc' \notin Working
    BY <1>2
  <2>2. UploadRemaining => pc \notin Working /\ inS3' \cup needsUpload' \subseteq inS3 \cup needsUpload
    BY DEF UploadRemaining, Working, Announcing
  <2>3. ASSUME error'.code = "earthmover_run" \/ errorRow' = "earthmover_run"
        PROVE  pc' \notin Working /\ "match_rates" \notin inS3' \cup needsUpload'
    <3>1. error.code = "earthmover_run" \/ errorRow = "earthmover_run"
      BY <1>3, <1>4, <2>3
    <3> QED
      BY <1>0, <2>1, <2>2, <3>1, MessageFrame DEF RatesHold
  <2>4. ASSUME pc' \in Working, Rank[step'] <= Rank["upload_match_rates"] PROVE "match_rates" \notin inS3'
    BY <1>0, <1>1, <1>2, <2>2, <2>4, MessageFrame DEF RatesHold
  <2> QED
    BY <2>3, <2>4 DEF RatesHold
<1> QED
  BY <1>9, <1>10

(* The last row is the last.                                                *)
LEMMA MessageOutcome ==
  ASSUME ExecutorInv, MessageStep \/ Alarm \/ AlarmInRequest
  PROVE  OutcomeHolds' /\ NoWorkAfterTimeout' /\ SuccessRowsAreTrue'
<1>0. TypeOK /\ OutcomeHolds /\ EntryHolds /\ NoWorkAfterTimeout /\ SuccessRowsAreTrue
  BY DEF ExecutorInv
<1>1. success' = success /\ step' = step /\ job' = job
  BY MessageFrame
<1>2. /\ pc' \in Working => pc \in Working
      /\ pc' \in Working \cup Cleanup => pc \in Working \cup Cleanup
      /\ pc' # "succeeded"
  BY <1>0, MessageMoves DEF Working, Announcing, Cleanup
<1>3. "done" \notin Actions
  BY ActionNames
<1>4. pc' # "exited" => \A s \in {"success", "failure"} : <<"done", s>> \notin rows'
  <2> SUFFICES ASSUME pc' # "exited", NEW s \in {"success", "failure"} PROVE <<"done", s>> \notin rows'
    OBVIOUS
  <2>1. pc # "exited"
    BY <1>0, MessageMoves DEF Working, Announcing, Cleanup
  <2>2. <<"done", s>> \notin rows
    BY <1>0, <2>1 DEF OutcomeHolds
  <2>3. \A a \in Actions : \A t : <<a, t>> # <<"done", s>>
    BY <1>3
  <2>4. \/ rows' = rows
        \/ \E a \in Actions, t \in {"begin", "failure", "success"} : rows' = rows \cup {<<a, t>>}
    <3>1. ~(pc = "send_done" /\ pc' = "exited")
      OBVIOUS
    <3> QED
      BY <1>0, <3>1, MessageRows
  <2> QED
    BY <2>2, <2>3, <2>4
<1>5. OutcomeHolds'
  BY <1>0, <1>1, <1>2, <1>4 DEF OutcomeHolds
<1>6. NoWorkAfterTimeout'
  <2> SUFFICES ASSUME alarm' \in {"at_work", "late"} PROVE pc' \notin Working
    BY DEF NoWorkAfterTimeout
  <2>1. CASE Alarm
    <3>1. pc' \in {"lock_error", "update_failure", "send_error", "send_done", "exited"}
      BY <2>1 DEF Alarm, Interrupted
    <3> QED
      BY <3>1 DEF Working, Announcing
  <2>2. CASE ~Alarm
    <3>1. alarm' = alarm
      BY <2>2, <1>0, MessageMoves DEF Leave, CloseAction, PostThrows, Throw, BeginAction, FinishSuccess, LockError,
         UploadRemaining, UpdateFailure, SendError, SendDone, AlarmInRequest
    <3> QED
      BY <1>0, <1>2, <3>1 DEF NoWorkAfterTimeout
  <2> QED
    BY <2>1, <2>2
<1>7. SuccessRowsAreTrue'
  <2>1. \A a : Finished(a) => Finished(a)'
    BY <1>1 DEF Finished, Begun
  <2>2. \A a \in Actions : <<a, "success">> \in rows' => <<a, "success">> \in rows \/ Finished(a)
    BY <1>0, <1>3, MessageRows
  <2>3. \A a \in Actions : <<a, "success">> \in rows' => Finished(a)'
    BY <1>0, <2>1, <2>2 DEF SuccessRowsAreTrue
  <2> QED
    BY <2>3 DEF SuccessRowsAreTrue
<1> QED
  BY <1>5, <1>6, <1>7

-----------------------------------------------------------------------------
(* The invariant.                                                           *)

LEMMA InvariantAtFirst == Init => ExecutorInv
<1> SUFFICES ASSUME Init PROVE ExecutorInv
  OBVIOUS
<1>1. /\ step = "init" /\ pc = "body" /\ action = "" /\ error = NoError /\ alarm = "armed"
      /\ success = FALSE /\ reachable = FALSE
  BY DEF Init
<1>2. outputSets = <<>>
  BY DEF Init
<1>3. setsUploaded = 0 /\ failedPosts = 0
  BY DEF Init
<1>4. odsGot = None /\ errorRow = None /\ idMatches = None /\ rows = {} /\ inS3 = {} /\ onDisk = {}
  BY DEF Init
<1>5. "init" \in Steps /\ "body" \in Working /\ "body" \notin Announcing \cup Cleanup
  BY StepNames DEF Working, Announcing, Cleanup
<1>6. None \notin ErrorCodes /\ None \notin Rosters
  BY NoneOK
<1>7. Rank[step] = 1 /\ Rank["judge_first_pass"] = 12 /\ Rank["judge_second_pass"] = 17
  <2>1. Rank["init"] = 1 /\ Rank["judge_first_pass"] = 12 /\ Rank["judge_second_pass"] = 17
    BY Ranks
  <2> QED
    BY <1>1, <2>1
<1>8. TypeOK
  <2>1. match \in PassResults /\ ratesFile \in PassResults
    BY DEF Init, PassResults
  <2>2. outputSets \in Seq(Rosters)
    <3>1. <<>> \in Seq(Rosters)
      OBVIOUS
    <3> QED
      BY <1>2, <3>1
  <2>3. error \in [code : ErrorCodes \cup {None}, trace : BOOLEAN]
    BY <1>1 DEF NoError, Error
  <2>4. needsUpload \subseteq Artifacts
    BY DEF Init, Artifacts
  <2>5. setsUploaded \in 0..2
    BY <1>3
  <2>6. failedPosts \in 0..MaxFailedPosts
    BY <1>3, MaxFailedPostsOK
  <2>7. job \in [sendToOds : BOOLEAN, crossYear : BOOLEAN]
    BY DEF Init
  <2> QED
    BY <1>1, <1>4, <1>5, <2>1, <2>2, <2>3, <2>4, <2>5, <2>6, <2>7 DEF TypeOK, Alarms
<1>9. EntryHolds
  BY <1>1, <1>5 DEF EntryHolds
<1>10. SetsHold
  <2>1. outputSets # BothSets
    BY <1>2 DEF BothSets
  <2>2. Len(outputSets) = 0
    BY <1>2
  <2>3. setsUploaded \in 0..Len(outputSets)
    BY <1>3, <2>2
  <2>4. ~(Rank[step] > Rank["judge_first_pass"])
    BY <1>7
  <2> QED
    BY <1>2, <2>1, <2>3, <2>4 DEF SetsHold
<1>11. OdsHolds /\ MatchHolds
  <2>1. ~(Rank[step] > Rank["judge_second_pass"])
    BY <1>7
  <2> QED
    BY <1>1, <1>4, <2>1 DEF OdsHolds, OdsGetsThisYear, MatchHolds
<1>12. RatesHold /\ ErrorsHold
  BY <1>1, <1>4, <1>5, <1>6 DEF RatesHold, ErrorsHold, ErrorOfStep, ErrorCodes, NoError, Error
<1>13. OutcomeHolds /\ NoWorkAfterTimeout /\ SuccessRowsAreTrue
  BY <1>1, <1>4 DEF OutcomeHolds, NoWorkAfterTimeout, SuccessRowsAreTrue
<1> QED
  BY <1>8, <1>9, <1>10, <1>11, <1>12, <1>13 DEF ExecutorInv

LEMMA TypesTogether ==
  ASSUME ControlTypeOK', DataTypeOK', SetsHold', odsGot' \in Rosters \cup {None}
  PROVE  TypeOK'
<1>1. outputSets' \in Seq(Rosters) /\ Len(outputSets') \in 0..2
  <2>1. FirstRoster' \in Rosters
    BY DEF FirstRoster, Rosters
  <2>2. outputSets' \in {<<>>, FirstSet', BothSets'}
    BY DEF SetsHold
  <2>3. FirstSet' \in Seq(Rosters) /\ Len(FirstSet') = 1
    BY <2>1 DEF FirstSet
  <2>4. BothSets' \in Seq(Rosters) /\ Len(BothSets') = 2
    BY <2>1 DEF BothSets, Rosters
  <2>5. <<>> \in Seq(Rosters) /\ Len(<<>>) = 0
    OBVIOUS
  <2>6. CASE outputSets' = <<>>
    BY <2>5, <2>6
  <2>7. CASE outputSets' = FirstSet'
    BY <2>3, <2>7
  <2>8. CASE outputSets' = BothSets'
    BY <2>4, <2>8
  <2> QED
    BY <2>2, <2>6, <2>7, <2>8
<1>2. setsUploaded' \in 0..2
  <2>1. setsUploaded' \in 0..Len(outputSets')
    BY DEF SetsHold
  <2>2. PICK n \in 0..2 : n = Len(outputSets')
    BY <1>1
  <2>3. 0..n \subseteq 0..2
    BY <2>2
  <2> QED
    BY <2>1, <2>2, <2>3
<1> QED
  BY <1>1, <1>2 DEF ControlTypeOK, DataTypeOK, TypeOK

LEMMA WorkKeepsInvariant ==
  ASSUME ExecutorInv, WorkStep
  PROVE  ExecutorInv'
<1>0. /\ TypeOK /\ EntryHolds /\ SetsHold /\ OdsHolds /\ MatchHolds /\ RatesHold /\ ErrorsHold
      /\ OutcomeHolds /\ NoWorkAfterTimeout /\ SuccessRowsAreTrue
  BY DEF ExecutorInv
<1>1. /\ pc = "body" /\ job' = job /\ step \in Steps /\ ~success
      /\ Moving \/ Staying \/ Sending \/ Ending \/ Throwing
  BY <1>0, WorkShape DEF TypeOK, OutcomeHolds, Working
<1>2. ControlTypeOK' /\ EntryHolds'
  BY <1>0, <1>1, ControlMoves
<1>3. SetsHold' /\ OdsHolds' /\ odsGot' \in Rosters \cup {None}
  BY <1>0, WorkSets
<1>4. TypeOK'
  BY <1>0, <1>2, <1>3, WorkTypes, TypesTogether
<1>5. MatchHolds' /\ RatesHold' /\ ErrorsHold'
  BY <1>0, WorkMatch, WorkRates, WorkErrors
<1>6. OutcomeHolds' /\ NoWorkAfterTimeout'
  BY <1>0, WorkOutcome
<1>7. SuccessRowsAreTrue'
  <2>1. Rank[step] <= Rank[step'] /\ step' \in Steps
    BY <1>1, <1>2, StepsAhead DEF ControlTypeOK
  <2>2. \A a : Finished(a) => Finished(a)'
    BY <1>1, <2>1, FinishedStays
  <2>3. rows' = rows
    BY WorkFrame
  <2> QED
    BY <1>0, <2>2, <2>3 DEF SuccessRowsAreTrue
<1> QED
  BY <1>2, <1>3, <1>4, <1>5, <1>6, <1>7 DEF ExecutorInv

LEMMA MessagesKeepInvariant ==
  ASSUME ExecutorInv, MessageStep \/ Alarm \/ AlarmInRequest
  PROVE  ExecutorInv'
<1>0. TypeOK /\ EntryHolds
  BY DEF ExecutorInv
<1>1. ControlTypeOK' /\ EntryHolds'
  BY <1>0, MessageControl
<1>2. DataTypeOK' /\ SetsHold' /\ OdsHolds' /\ MatchHolds'
  BY MessageData
<1>3. odsGot' \in Rosters \cup {None}
  BY <1>0, MessageFrame DEF TypeOK
<1>4. TypeOK'
  BY <1>1, <1>2, <1>3, TypesTogether
<1>5. ErrorsHold' /\ RatesHold'
  BY MessageErrors
<1>6. OutcomeHolds' /\ NoWorkAfterTimeout' /\ SuccessRowsAreTrue'
  BY MessageOutcome
<1> QED
  BY <1>1, <1>2, <1>4, <1>5, <1>6 DEF ExecutorInv

LEMMA InvariantIsKept == ExecutorInv /\ [Next]_vars => ExecutorInv'
<1> SUFFICES ASSUME ExecutorInv, [Next]_vars PROVE ExecutorInv'
  OBVIOUS
<1>1. CASE Next
  BY <1>1, WorkKeepsInvariant, MessagesKeepInvariant DEF Next
<1>2. CASE UNCHANGED vars
  <2>1. /\ UNCHANGED <<job, success, reachable, step, pc, action, error, alarm, match, ratesFile, outputSets>>
        /\ UNCHANGED <<needsUpload, onDisk, inS3, odsGot, setsUploaded, rows, errorRow, idMatches, failedPosts>>
    BY <1>2 DEF vars, env, control, matching, files, output, app
  <2>2. SetsHold' /\ MatchHolds' /\ RatesHold'
    BY <2>1 DEF ExecutorInv, SetsHold, FirstSet, BothSets, FirstRoster, MatchHolds, Told, RatesHold
  <2>3. TypeOK'
    <3>1. ControlTypeOK'
      BY <2>1 DEF ExecutorInv, TypeOK, ControlTypeOK
    <3>2. DataTypeOK'
      BY <2>1 DEF ExecutorInv, TypeOK, DataTypeOK
    <3>3. odsGot' \in Rosters \cup {None}
      BY <2>1 DEF ExecutorInv, TypeOK
    <3> QED
      BY <2>2, <3>1, <3>2, <3>3, TypesTogether
  <2>4. EntryHolds' /\ OdsHolds'
    BY <2>1 DEF ExecutorInv, EntryHolds, OdsHolds, OdsGetsThisYear
  <2>5. OutcomeHolds' /\ NoWorkAfterTimeout'
    BY <2>1 DEF ExecutorInv, OutcomeHolds, NoWorkAfterTimeout
  <2>6. ErrorsHold'
    BY <2>1 DEF ExecutorInv, ErrorsHold, ErrorOfStep
  <2>7. SuccessRowsAreTrue'
    <3>1. \A a : Finished(a) => Finished(a)'
      BY <2>1 DEF Finished, Begun
    <3> QED
      BY <2>1, <3>1 DEF ExecutorInv, SuccessRowsAreTrue
  <2> QED
    BY <2>3, <2>2, <2>6, <2>4, <2>5, <2>7 DEF ExecutorInv
<1> QED
  BY <1>1, <1>2

THEOREM ExecutorInvariant == Spec => []ExecutorInv
BY InvariantAtFirst, InvariantIsKept, PTL DEF Spec

-----------------------------------------------------------------------------
(* What follows.                                                            *)

(* Type correctness: of every run, whatever fails in it.                   *)
THEOREM ExecutorTypeCorrect == Spec => []TypeOK
<1>1. ExecutorInv => TypeOK
  BY DEF ExecutorInv
<1> QED
  BY <1>1, ExecutorInvariant, PTL

(* lightbeam sends the output set that was matched with this year's        *)
(* students (executor.py: the first output set, also after a second pass). *)
THEOREM OdsGetsThisYearAlways == Spec => []OdsGetsThisYear
<1>1. ExecutorInv => OdsGetsThisYear
  BY DEF ExecutorInv, OdsHolds
<1> QED
  BY <1>1, ExecutorInvariant, PTL

(* A success row is of an action whose work is done, the rates of a pass   *)
(* that failed stay where they are, a success accounts for every unmatched *)
(* row, and an error that is told is one of the step it is told of.        *)
THEOREM WhatIsToldIsTrueAlways == Spec => []WhatIsToldIsTrue
<1>1. ExecutorInv => WhatIsToldIsTrue
  <2> SUFFICES ASSUME ExecutorInv PROVE WhatIsToldIsTrue
    OBVIOUS
  <2>1. SuccessRowsAreTrue /\ RatesOfFailedPassStay
    BY DEF ExecutorInv, RatesHold, RatesOfFailedPassStay
  <2>2. UnmatchedAreAccountedFor
    BY DEF ExecutorInv, MatchHolds, Told, UnmatchedAreAccountedFor
  <2>3. ErrorIsOfItsStep
    BY DEF ExecutorInv, ErrorsHold, ErrorOfStep, ErrorIsOfItsStep
  <2> QED
    BY <2>1, <2>2, <2>3 DEF WhatIsToldIsTrue
<1> QED
  BY <1>1, ExecutorInvariant, PTL

-----------------------------------------------------------------------------
(* The executor keeps to its report.                                        *)

PhaseNow ==
  CASE pc \in Working -> "working"
    [] pc \in Cleanup -> "failed"
    [] pc = "succeeded" \/ (pc = "send_done" /\ success) -> "succeeded"
    [] pc = "send_done" /\ ~success -> "reported"
    [] pc = "exited" -> "exited"

DoneNow ==
  CASE <<"done", "success">> \in rows -> "success"
    [] <<"done", "failure">> \in rows -> "failure"
    [] OTHER -> "none"

PhaseOf(p, succeeded, phase) ==
  /\ p \in Working => phase = "working"
  /\ p \in Cleanup => phase = "failed"
  /\ p = "succeeded" \/ (p = "send_done" /\ succeeded) => phase = "succeeded"
  /\ p = "send_done" /\ ~succeeded => phase = "reported"
  /\ p = "exited" => phase = "exited"

LEMMA Phases == PhaseOf(pc, success, PhaseNow) /\ PhaseOf(pc', success', PhaseNow')
BY DEF PhaseOf, PhaseNow, Working, Announcing, Cleanup

(* The row of the end is written by the last message or by none.           *)
LEMMA DoneRowMoves ==
  ASSUME ExecutorInv, MessageStep \/ Alarm \/ AlarmInRequest
  PROVE  /\ pc # "send_done" => DoneNow' = DoneNow
         /\ pc = "send_done" => DoneNow' \in {IF success THEN "success" ELSE "failure", "none"}
<1>0. TypeOK /\ EntryHolds /\ OutcomeHolds
  BY DEF ExecutorInv
<1>1. "done" \notin Actions
  BY ActionNames
<1>2. \A a \in Actions : \A s, t : <<a, t>> # <<"done", s>>
  BY <1>1
<1>3. \/ \A s \in {"success", "failure"} : <<"done", s>> \in rows' <=> <<"done", s>> \in rows
      \/ /\ pc = "send_done"
         /\ rows' = rows \cup {<<"done", IF success THEN "success" ELSE "failure">>}
  <2>1. CASE rows' = rows
    BY <2>1
  <2>2. CASE \E a \in Actions, t \in {"begin", "failure", "success"} : rows' = rows \cup {<<a, t>>}
    BY <1>2, <2>2
  <2> QED
    BY <1>0, <2>1, <2>2, MessageRows
<1>4. pc # "send_done" => DoneNow' = DoneNow
  BY <1>3 DEF DoneNow
<1>5. ASSUME pc = "send_done"
      PROVE  DoneNow' \in {IF success THEN "success" ELSE "failure", "none"}
  <2>1. <<"done", "success">> \notin rows /\ <<"done", "failure">> \notin rows
    BY <1>0, <1>5 DEF OutcomeHolds
  <2>2. \/ <<"done", "success">> \notin rows' /\ <<"done", "failure">> \notin rows'
        \/ success /\ <<"done", "success">> \in rows' /\ <<"done", "failure">> \notin rows'
        \/ ~success /\ <<"done", "success">> \notin rows' /\ <<"done", "failure">> \in rows'
    BY <1>3, <2>1
  <2>3. CASE success
    <3>1. DoneNow' \in {"success", "none"}
      BY <2>2, <2>3 DEF DoneNow
    <3> QED
      BY <2>3, <3>1
  <2>4. CASE ~success
    <3>1. DoneNow' \in {"failure", "none"}
      BY <2>2, <2>4 DEF DoneNow
    <3> QED
      BY <2>4, <3>1
  <2> QED
    BY <2>3, <2>4
<1> QED
  BY <1>4, <1>5

(* What the app has of the error changes by the report alone.              *)
LEMMA ErrorRowMoves ==
  ASSUME ExecutorInv, MessageStep \/ Alarm \/ AlarmInRequest
  PROVE  pc # "send_error" => errorRow' = errorRow
<1>1. CASE SendError
  BY <1>1 DEF SendError
<1>2. CASE Alarm
  BY <1>2 DEF Alarm
<1> QED
  BY <1>1, <1>2, MessageFrame

LEMMA ReportAtFirst == Init => Report!Init
<1> SUFFICES ASSUME Init PROVE Report!Init
  OBVIOUS
<1>1. pc \in Working /\ errorRow = None /\ rows = {}
  BY DEF Init, Working
<1>2. PhaseNow = "working" /\ DoneNow = "none"
  BY <1>1, Phases DEF PhaseOf, DoneNow
<1> QED
  BY <1>1, <1>2 DEF Report!Init, PhaseNow, DoneNow

LEMMA ReportSteps == ExecutorInv /\ [Next]_vars => [Report!Next]_(Report!vars)
<1>1. ASSUME PhaseNow' = PhaseNow, errorRow' = errorRow, DoneNow' = DoneNow PROVE UNCHANGED Report!vars
  BY <1>1 DEF Report!vars, PhaseNow, DoneNow
<1>2. ASSUME PhaseNow = "working", PhaseNow' \in {"failed", "succeeded"}, errorRow' = errorRow, DoneNow' = DoneNow
      PROVE  Report!EndWork
  BY <1>2 DEF Report!EndWork, PhaseNow, DoneNow
<1>3. ASSUME PhaseNow = "failed", PhaseNow' = "reported", DoneNow' = DoneNow
      PROVE  Report!SendError
  BY <1>3 DEF Report!SendError, PhaseNow, DoneNow
<1>4. ASSUME PhaseNow = IF success THEN "succeeded" ELSE "reported", PhaseNow' = "exited", errorRow' = errorRow,
             DoneNow' \in {IF success THEN "success" ELSE "failure", "none"}
      PROVE  \E s \in Report!Outcomes : Report!SendDone(s)
  <2>1. CASE success
    <3>1. Report!SendDone("success")
      BY <1>4, <2>1 DEF Report!SendDone, PhaseNow, DoneNow
    <3> QED
      BY <3>1 DEF Report!Outcomes
  <2>2. CASE ~success
    <3>1. Report!SendDone("failure")
      BY <1>4, <2>2 DEF Report!SendDone, PhaseNow, DoneNow
    <3> QED
      BY <3>1 DEF Report!Outcomes
  <2> QED
    BY <2>1, <2>2
<1> SUFFICES ASSUME ExecutorInv, [Next]_vars
             PROVE  Report!Next \/ UNCHANGED Report!vars
  OBVIOUS
<1>5. CASE UNCHANGED vars
  <2>1. pc' = pc /\ success' = success /\ rows' = rows /\ errorRow' = errorRow
    BY <1>5 DEF vars, env, control, app
  <2> QED
    BY <1>1, <2>1 DEF PhaseNow, DoneNow
<1>6. CASE WorkStep
  <2>1. /\ pc \in Working /\ errorRow' = errorRow /\ rows' = rows
        /\ pc' \in Working \cup {"lock_error", "succeeded"}
    BY <1>6, WorkShape, WorkFrame, WorkOutcome DEF ExecutorInv, Working
  <2>2. PhaseNow = "working" /\ PhaseNow' \in {"working", "failed", "succeeded"} /\ DoneNow' = DoneNow
    BY <2>1, Phases DEF PhaseOf, PhaseNow, DoneNow, Cleanup
  <2> QED
    BY <1>1, <1>2, <2>1, <2>2 DEF Report!Next
<1>7. CASE MessageStep \/ Alarm \/ AlarmInRequest
  <2>1. OutcomeHolds /\ success' = success
    BY <1>7, MessageFrame DEF ExecutorInv
  <2>2. \/ pc \in Working /\ pc' \in Working
        \/ pc \in Working /\ pc' \in Cleanup
        \/ pc \in Cleanup \ {"send_error"} /\ pc' \in Cleanup
        \/ pc \in Cleanup /\ pc' = "send_done" /\ ~success
        \/ pc = "succeeded" /\ pc' = "send_done" /\ success
        \/ pc = "send_done" /\ pc' = "exited"
    BY <1>7, <2>1, MessageMoves DEF ExecutorInv, OutcomeHolds, Working, Announcing, Cleanup
  <2>3. /\ pc # "send_done" => DoneNow' = DoneNow
        /\ pc = "send_done" => DoneNow' \in {IF success THEN "success" ELSE "failure", "none"}
        /\ pc # "send_error" => errorRow' = errorRow
    BY <1>7, DoneRowMoves, ErrorRowMoves
  <2>4. CASE \/ pc \in Working /\ pc' \in Working
             \/ pc \in Cleanup \ {"send_error"} /\ pc' \in Cleanup
             \/ pc = "succeeded" /\ pc' = "send_done" /\ success
    <3>1. PhaseNow' = PhaseNow
      BY <2>1, <2>4, Phases DEF PhaseOf
    <3>2. pc \notin {"send_done", "send_error"}
      BY <2>4 DEF Working, Announcing, Cleanup
    <3> QED
      BY <1>1, <2>3, <3>1, <3>2
  <2>5. CASE pc \in Working /\ pc' \in Cleanup
    <3>1. PhaseNow = "working" /\ PhaseNow' = "failed"
      BY <2>5, Phases DEF PhaseOf
    <3>2. pc \notin {"send_done", "send_error"}
      BY <2>5 DEF Working, Announcing
    <3> QED
      BY <1>2, <2>3, <3>1, <3>2 DEF Report!Next
  <2>6. CASE pc \in Cleanup /\ pc' = "send_done" /\ ~success
    <3>1. PhaseNow = "failed" /\ PhaseNow' = "reported"
      BY <2>1, <2>6, Phases DEF PhaseOf
    <3>2. pc # "send_done"
      BY <2>6 DEF Cleanup
    <3> QED
      BY <1>3, <2>3, <3>1, <3>2 DEF Report!Next
  <2>7. CASE pc = "send_done" /\ pc' = "exited"
    <3>1. PhaseNow = (IF success THEN "succeeded" ELSE "reported") /\ PhaseNow' = "exited"
      BY <2>7, Phases DEF PhaseOf
    <3> QED
      BY <1>4, <2>3, <2>7, <3>1 DEF Report!Next
  <2> QED
    BY <2>2, <2>4, <2>5, <2>6, <2>7
<1> QED
  BY <1>5, <1>6, <1>7 DEF Next


(* The rows that executor.py's messages leave in the app, and the order of *)
(* its end, are those the app may expect of an executor.                   *)
THEOREM ExecutorImplementsReport == Spec => ImplementsExecutorReport
BY ReportAtFirst, ReportSteps, ExecutorInvariant, PTL DEF Spec, ImplementsExecutorReport, Report!Spec

-----------------------------------------------------------------------------
(* The trail: what the updates tell of an execution that neither the alarm *)
(* nor a failed POST disturbs.                                              *)

Undisturbed == alarm = "armed" /\ failedPosts = 0

(* The app knows that the action has begun: it has, and its update is sent. *)
Announced(a) == Begun(a) /\ ~(pc \in Announcing /\ ActionOf(step) = a)

(* The rows tell of each action announced that it began, and that it       *)
(* succeeded unless it is the current one, whose failure is told last.     *)
Failed(a) ==
  a = action /\ ~success /\ reachable /\ pc \in {"send_error", "send_done", "exited"}

RowsTell ==
  /\ \A a \in Actions :
       /\ <<a, "begin">> \in rows <=> Announced(a)
       /\ <<a, "success">> \in rows <=> Announced(a) /\ a # action
       /\ <<a, "failure">> \in rows <=> Failed(a)
  /\ <<"done", "success">> \in rows <=> pc = "exited" /\ reachable /\ success

(* The current action is the last one announced; there is one from the     *)
(* first that begins to the success of the last.                           *)
CurrentIsLast ==
  action # "" =>
    /\ Announced(action)
    /\ \A s, t \in Steps :
         ActionOf(s) = action /\ ActionOf(t) # "" /\ Announced(ActionOf(t)) => Rank[t] <= Rank[s]

CurrentIsThere ==
  /\ action = "" /\ ~success /\ pc \notin Announcing => step \in {"init", "unpack_job"}
  /\ success => step = "compile_summary"
  /\ success /\ pc \in {"send_done", "exited"} => action = ""

TrailHolds == Undisturbed => RowsTell /\ CurrentIsLast /\ CurrentIsThere

(* The places of the steps that set an action.                              *)
ActionPlaces == {3, 4, 5, 7, 9, 19, 24}

LEMMA PlacesAre ==
  \A n : n = 3 \/ n = 4 \/ n = 5 \/ n = 7 \/ n = 9 \/ n = 24 => n \in ActionPlaces /\ n # 19
BY DEF ActionPlaces

LEMMA PlacesBetween ==
  \A n \in ActionPlaces : ~(12 < n /\ n < 18) /\ (18 < n /\ n < 22 => n = 19) /\ ~(22 < n /\ n < 24)
BY DEF ActionPlaces

LEMMA Orders ==
  \A x, y, z \in Nat :
    /\ ~(x < y /\ y < z /\ z = x + 1)
    /\ x <= y /\ y < z => x <= z /\ x # z
    /\ ~(x <= y) /\ x <= z /\ x # z => y < x /\ x < z
    /\ x <= y => ~(y < x)
    /\ x <= y /\ y <= z => x <= z
OBVIOUS

LEMMA ActionRanks ==
  ASSUME NEW s \in Steps, ActionOf(s) # ""
  PROVE  /\ Rank[s] \in ActionPlaces
         /\ Rank[s] = 19 => s = "lightbeam_send"
<1>1. s \in {"refresh_bundle_code", "earthmover_deps", "get_student_roster",
             "get_input_files", "lightbeam_send", "upload_output", "unpack_id_types"}
  BY DEF ActionOf
<1>2. CASE s # "lightbeam_send"
  <2>1. \/ Rank[s] = 3 \/ Rank[s] = 4 \/ Rank[s] = 5 \/ Rank[s] = 7 \/ Rank[s] = 9 \/ Rank[s] = 24
    BY <1>1, <1>2, Ranks
  <2> QED
    BY <2>1, PlacesAre
<1>3. CASE s = "lightbeam_send"
  BY <1>3, Ranks DEF ActionPlaces
<1> QED
  BY <1>2, <1>3

LEMMA BegunIs ==
  ASSUME NEW s \in Steps, ActionOf(s) # ""
  PROVE  /\ Begun(ActionOf(s)) <=> Rank[s] <= Rank[step] /\ (s = "lightbeam_send" => job.sendToOds)
         /\ Begun(ActionOf(s))' <=> Rank[s] <= Rank[step'] /\ (s = "lightbeam_send" => job'.sendToOds)
<1>1. \A t \in Steps : ActionOf(t) = ActionOf(s) <=> t = s
  BY ActionNames
<1> QED
  BY <1>1 DEF Begun

LEMMA StepOfAction ==
  ASSUME NEW a \in Actions
  PROVE  \E s \in Steps : ActionOf(s) = a /\ a # ""
BY DEF Actions

(* A jump passes no action that would have to begin.                       *)
LEMMA NothingBetween ==
  ASSUME NEW s \in Steps, NEW t \in Steps, NEW u \in Steps, Jump(s, t), ActionOf(u) # "",
         Rank[s] < Rank[u], Rank[u] < Rank[t]
  PROVE  u = "lightbeam_send" /\ ~job.sendToOds
<1>1. Rank[s] \in Nat /\ Rank[t] \in Nat /\ Rank[u] \in Nat
  BY RankIsNat
<1>2. Rank[u] \in ActionPlaces /\ (Rank[u] = 19 => u = "lightbeam_send")
  BY ActionRanks
<1>3. CASE s = "judge_first_pass" /\ t = "upload_match_rates"
  <2>1. Rank[s] = 12 /\ Rank[t] = 18
    BY <1>3, Ranks
  <2> QED
    BY <1>2, <2>1, PlacesBetween
<1>4. CASE s = "upload_match_rates" /\ t = "report_unmatched" /\ ~job.sendToOds
  <2>1. Rank[s] = 18 /\ Rank[t] = 22
    BY <1>4, Ranks
  <2>2. Rank[u] = 19
    BY <1>2, <2>1, PlacesBetween
  <2> QED
    BY <1>2, <1>4, <2>2
<1>5. CASE s = "report_unmatched" /\ t = "upload_output"
  <2>1. Rank[s] = 22 /\ Rank[t] = 24
    BY <1>5, Ranks
  <2> QED
    BY <1>2, <2>1, PlacesBetween
<1>6. CASE Rank[t] = Rank[s] + 1
  BY <1>1, <1>6, Orders
<1> QED
  BY <1>3, <1>4, <1>5, <1>6 DEF Jump

(* Getting to a step announces nothing yet.                                *)
LEMMA AnnouncedAfterJump ==
  ASSUME step \in Steps, job' = job, pc \notin Announcing, Jump(step, step'), step' \in Steps,
         ActionOf(step') # "" => pc' \in Announcing, NEW a \in Actions
  PROVE  Announced(a)' <=> Announced(a)
<1>1. PICK s \in Steps : ActionOf(s) = a /\ a # ""
  BY StepOfAction
<1>2. /\ Begun(a) <=> Rank[s] <= Rank[step] /\ (s = "lightbeam_send" => job.sendToOds)
      /\ Begun(a)' <=> Rank[s] <= Rank[step'] /\ (s = "lightbeam_send" => job'.sendToOds)
  BY <1>1, BegunIs
<1>3. Rank[step] \in Nat /\ Rank[step'] \in Nat /\ Rank[s] \in Nat /\ Rank[step] < Rank[step']
  BY JumpsAhead, RankIsNat
<1>4. Announced(a) <=> Begun(a)
  BY DEF Announced
<1>5. Announced(a)' <=> Begun(a)' /\ ~(pc' \in Announcing /\ ActionOf(step') = a)
  BY DEF Announced
<1>6. CASE Rank[s] <= Rank[step]
  <2>1. Rank[s] <= Rank[step'] /\ Rank[s] # Rank[step']
    BY <1>3, <1>6, Orders
  <2>2. ActionOf(step') # a
    <3>1. s # step'
      BY <2>1
    <3> QED
      BY <1>1, <3>1, ActionNames
  <2> QED
    BY <1>2, <1>4, <1>5, <1>6, <2>1, <2>2
<1>7. CASE ~(Rank[s] <= Rank[step]) /\ s = step'
  BY <1>1, <1>2, <1>4, <1>5, <1>7
<1>8. CASE ~(Rank[s] <= Rank[step]) /\ s # step' /\ Rank[s] <= Rank[step']
  <2>1. Rank[s] # Rank[step']
    BY <1>8, StepAtRank
  <2>2. Rank[step] < Rank[s] /\ Rank[s] < Rank[step']
    BY <1>3, <1>8, <2>1, Orders
  <2>3. s = "lightbeam_send" /\ ~job.sendToOds
    BY <1>1, <2>2, NothingBetween
  <2> QED
    BY <1>2, <1>4, <1>5, <2>3
<1>9. CASE ~(Rank[s] <= Rank[step]) /\ ~(Rank[s] <= Rank[step'])
  BY <1>2, <1>4, <1>5, <1>9
<1> QED
  BY <1>6, <1>7, <1>8, <1>9

(* Nor does leaving the try block, or what comes after it.                 *)
LEMMA AnnouncedAtStep ==
  ASSUME UNCHANGED <<step, job>>, pc \in Announcing <=> pc' \in Announcing
  PROVE  \A a : Announced(a)' <=> Announced(a)
BY DEF Announced, Begun

(* The rows stay, and so does what they tell, until the failure is told.    *)
LEMMA TrailStays ==
  ASSUME RowsTell, CurrentIsLast, UNCHANGED <<rows, action>>,
         \A a \in Actions : Announced(a)' <=> Announced(a),
         action \in Actions \cup {""},
         pc' \notin {"send_error", "send_done", "exited"},
         pc \notin {"send_error", "send_done", "exited"}
  PROVE  RowsTell' /\ CurrentIsLast'
<1>1. \A a : ~Failed(a) /\ ~Failed(a)'
  BY DEF Failed
<1>2. RowsTell'
  BY <1>1 DEF RowsTell
<1>3. CurrentIsLast'
  <2>1. \A t \in Steps : ActionOf(t) # "" => (Announced(ActionOf(t))' <=> Announced(ActionOf(t)))
    BY ActionNames
  <2> QED
    BY <2>1 DEF CurrentIsLast
<1> QED
  BY <1>2, <1>3

(* A step of the work sends no update.                                     *)
LEMMA WorkKeepsTrail ==
  ASSUME ExecutorInv, RowsTell, CurrentIsLast, CurrentIsThere, WorkStep
  PROVE  RowsTell' /\ CurrentIsLast' /\ CurrentIsThere'
<1>0. /\ step \in Steps /\ action \in Actions \cup {""}
      /\ TypeOK /\ EntryHolds /\ OutcomeHolds /\ NoWorkAfterTimeout
  BY DEF ExecutorInv, TypeOK
<1>1. /\ pc = "body" /\ job' = job /\ rows' = rows /\ ~success
      /\ Moving \/ Staying \/ Sending \/ Ending \/ Throwing
  BY <1>0, WorkShape, WorkFrame DEF OutcomeHolds, Working
<1>2. pc \notin Announcing
  BY <1>1 DEF Announcing
<1>3. EntryHolds' /\ OutcomeHolds' /\ pc' \in Working \cup {"lock_error", "succeeded"}
  BY <1>0, <1>1, ControlMoves, WorkOutcome
<1>4. action' = action
  BY <1>1 DEF Moving, GoTo, Staying, control, Sending, Ending, Throwing
<1>5. \A a \in Actions : Announced(a)' <=> Announced(a)
  <2>1. ASSUME NEW t \in Steps, Jump(step, t), GoTo(t) PROVE \A a \in Actions : Announced(a)' <=> Announced(a)
    <3>1. step' = t /\ (ActionOf(step') # "" => pc' \in Announcing)
      BY <2>1 DEF GoTo, Announcing
    <3> QED
      BY <1>0, <1>1, <1>2, <2>1, <3>1, AnnouncedAfterJump
  <2>2. CASE Sending
    <3>1. /\ step' = "upload_send_results" /\ step' \in Steps /\ Jump(step, step')
          /\ ActionOf(step') = ""
      BY <2>2, Ranks, StepNames DEF Sending, Jump, ActionOf
    <3> QED
      BY <1>0, <1>1, <1>2, <3>1, AnnouncedAfterJump
  <2>3. CASE Staying \/ Ending \/ Throwing
    <3>1. UNCHANGED <<step, job>> /\ pc' \notin Announcing
      BY <1>1, <2>3 DEF Staying, control, Ending, Throwing, Announcing
    <3> QED
      BY <1>2, <3>1, AnnouncedAtStep
  <2> QED
    BY <1>1, <2>1, <2>2, <2>3 DEF Moving
<1>6. RowsTell' /\ CurrentIsLast'
  <2>1. pc' \notin {"send_error", "send_done", "exited"}
    BY <1>3 DEF Working, Announcing
  <2> QED
    BY <1>0, <1>1, <1>4, <1>5, <2>1, TrailStays
<1>7. CurrentIsThere'
  <2>1. success' => step' = "compile_summary" /\ pc' = "succeeded"
    <3>1. success' => CompileSummary
      BY <1>0, WorkOutcome
    <3>2. CompileSummary /\ success' => step' = "compile_summary" /\ pc' = "succeeded"
      BY <1>1 DEF CompileSummary, Doing, Fails, Throw
    <3> QED
      BY <3>1, <3>2
  <2>2. ASSUME action' = "", pc' \notin Announcing, ~success' PROVE step' \in {"init", "unpack_job"}
    <3>1. CASE pc' = "body"
      BY <1>3, <2>2, <3>1 DEF EntryHolds
    <3>2. CASE pc' # "body"
      <4>1. step' = step \/ pc' \in Working
        BY <1>1 DEF Moving, GoTo, Staying, control, Sending, Ending, Throwing, Working, Announcing
      <4>2. step' = step
        BY <2>2, <3>2, <4>1 DEF Working
      <4> QED
        BY <1>0, <1>1, <1>4, <2>2, <4>2 DEF EntryHolds
    <3> QED
      BY <3>1, <3>2
  <2> QED
    BY <2>1, <2>2 DEF CurrentIsThere
<1> QED
  BY <1>6, <1>7

(* An update that is posted, and does not fail.                            *)
LEMMA PostedUpdate ==
  ASSUME NEW a, NEW s, PostUpdate(<<a, s>>), failedPosts' = failedPosts, failedPosts \in Nat
  PROVE  rows' = (IF a # "" THEN rows \cup {<<a, s>>} ELSE rows)
<1>1. PICK row : row = <<a, s>>
  OBVIOUS
<1>2. failedPosts' # failedPosts + 1
  <2>1. \A n \in Nat : n # n + 1
    OBVIOUS
  <2> QED
    BY <2>1
<1>3. rows' = rows \cup {r \in {row} : r[1] # ""}
  BY <1>1, <1>2 DEF PostUpdate, Post
<1>4. row[1] = a
  BY <1>1
<1>5. CASE a # ""
  <2>1. {r \in {row} : r[1] # ""} = {row}
    BY <1>4, <1>5
  <2> QED
    BY <1>1, <1>3, <1>5, <2>1
<1>6. CASE a = ""
  <2>1. {r \in {row} : r[1] # ""} = {}
    BY <1>4, <1>6
  <2>2. rows \cup {} = rows
    OBVIOUS
  <2> QED
    BY <1>3, <1>6, <2>1, <2>2
<1> QED
  BY <1>5, <1>6

(* What a row more tells: of its own action and status, nothing else.       *)
LEMMA RowsWith ==
  ASSUME NEW b, NEW s, rows' = rows \cup {<<b, s>>}
  PROVE  \A a, t : <<a, t>> \in rows' <=> <<a, t>> \in rows \/ (a = b /\ t = s)
OBVIOUS

LEMMA MessageFacts ==
  ASSUME ExecutorInv, MessageStep
  PROVE  /\ EntryHolds /\ OutcomeHolds /\ step \in Steps /\ action \in Actions \cup {""}
         /\ failedPosts \in Nat
         /\ UNCHANGED <<step, job, success, reachable>>
<1>1. EntryHolds /\ OutcomeHolds /\ step \in Steps /\ action \in Actions \cup {""}
  BY DEF ExecutorInv, TypeOK
<1>2. failedPosts \in Nat
  <2>1. failedPosts \in 0..MaxFailedPosts
    BY DEF ExecutorInv, TypeOK
  <2> QED
    BY <2>1, MaxFailedPostsOK
<1>3. UNCHANGED <<step, job, success, reachable>>
  BY MessageFrame
<1> QED
  BY <1>1, <1>2, <1>3

(* The updates of set_action: the last action succeeded, the next begins.   *)
LEMMA CloseKeepsTrail ==
  ASSUME ExecutorInv, RowsTell, CurrentIsLast, CurrentIsThere, CloseAction, failedPosts' = failedPosts
  PROVE  RowsTell' /\ CurrentIsLast' /\ CurrentIsThere'
<1>0. /\ EntryHolds /\ OutcomeHolds /\ failedPosts \in Nat /\ action \in Actions \cup {""}
      /\ UNCHANGED <<step, job, success, reachable>>
  BY MessageFacts DEF MessageStep
<1>1. /\ pc = "close" /\ pc' = "begin" /\ action # "" /\ action \in Actions /\ action' = ""
      /\ PostUpdate(<<action, "success">>)
  BY <1>0 DEF CloseAction, PostThrows, ActionToClose, EntryHolds
<1>2. rows' = rows \cup {<<action, "success">>}
  BY <1>0, <1>1, PostedUpdate
<1>3. \A a, t : <<a, t>> \in rows' <=> <<a, t>> \in rows \/ (a = action /\ t = "success")
  BY <1>2, RowsWith
<1>4. \A a : Announced(a)' <=> Announced(a)
  BY <1>0, <1>1, AnnouncedAtStep DEF Announcing
<1>5. "done" # action /\ \A a \in Actions : a # ""
  BY <1>1, ActionNames
<1>6. \A a : ~Failed(a) /\ ~Failed(a)'
  BY <1>1 DEF Failed
<1>7. Announced(action)
  BY <1>1 DEF CurrentIsLast
<1>8. RowsTell'
  <2>1. ASSUME NEW a \in Actions
        PROVE  /\ <<a, "begin">> \in rows' <=> Announced(a)'
               /\ <<a, "success">> \in rows' <=> Announced(a)' /\ a # action'
               /\ <<a, "failure">> \in rows' <=> Failed(a)'
    <3>0. /\ <<a, "begin">> \in rows <=> Announced(a)
          /\ <<a, "success">> \in rows <=> Announced(a) /\ a # action
          /\ <<a, "failure">> \in rows <=> Failed(a)
      BY DEF RowsTell
    <3>1. <<a, "begin">> \in rows' <=> Announced(a)'
      BY <1>3, <1>4, <3>0
    <3>2. <<a, "success">> \in rows' <=> Announced(a)' /\ a # action'
      BY <1>1, <1>3, <1>4, <1>5, <1>7, <3>0
    <3>3. <<a, "failure">> \in rows' <=> Failed(a)'
      BY <1>3, <1>6, <3>0
    <3> QED
      BY <3>1, <3>2, <3>3
  <2>2. <<"done", "success">> \in rows' <=> pc' = "exited" /\ reachable' /\ success'
    BY <1>1, <1>3, <1>5 DEF RowsTell
  <2> QED
    BY <2>1, <2>2 DEF RowsTell
<1>9. CurrentIsLast' /\ CurrentIsThere'
  <2>1. ~success
    BY <1>0, <1>1 DEF OutcomeHolds, Working, Announcing
  <2> QED
    BY <1>0, <1>1, <2>1 DEF CurrentIsLast, CurrentIsThere, Announcing
<1> QED
  BY <1>8, <1>9

LEMMA BeginKeepsTrail ==
  ASSUME ExecutorInv, RowsTell, CurrentIsLast, CurrentIsThere, BeginAction, failedPosts' = failedPosts
  PROVE  RowsTell' /\ CurrentIsLast' /\ CurrentIsThere'
<1>0. /\ EntryHolds /\ OutcomeHolds /\ failedPosts \in Nat /\ step \in Steps
      /\ UNCHANGED <<step, job, success, reachable>>
  BY MessageFacts DEF MessageStep
<1>1. /\ pc = "begin" /\ pc' = "body" /\ action = "" /\ action' = ActionOf(step)
      /\ ActionOf(step) # "" /\ ActionOf(step) \in Actions
      /\ PostUpdate(<<ActionOf(step), "begin">>)
  BY <1>0, ActionNames DEF BeginAction, EntryHolds, Announcing
<1>2. rows' = rows \cup {<<ActionOf(step), "begin">>}
  BY <1>0, <1>1, PostedUpdate
<1>3. \A a, t : <<a, t>> \in rows' <=> <<a, t>> \in rows \/ (a = ActionOf(step) /\ t = "begin")
  BY <1>2, RowsWith
<1>4. Begun(ActionOf(step))
  <2>1. Rank[step] <= Rank[step]
    <3>1. Rank[step] \in Nat
      BY <1>0, RankIsNat
    <3> QED
      BY <3>1
  <2>2. step = "lightbeam_send" => job.sendToOds
    BY <1>0 DEF EntryHolds
  <2> QED
    BY <1>0, <1>1, <2>1, <2>2, BegunIs
<1>5. \A a : Announced(a)' <=> Begun(a)
  BY <1>0, <1>1 DEF Announced, Begun, Announcing
<1>6. \A a : Announced(a) <=> Begun(a) /\ a # ActionOf(step)
  BY <1>1 DEF Announced, Announcing
<1>7. "done" # ActionOf(step) /\ \A a \in Actions : a # ""
  BY <1>1, ActionNames
<1>8. \A a : ~Failed(a) /\ ~Failed(a)'
  BY <1>1 DEF Failed
<1>9. RowsTell'
  <2>1. ASSUME NEW a \in Actions
        PROVE  /\ <<a, "begin">> \in rows' <=> Announced(a)'
               /\ <<a, "success">> \in rows' <=> Announced(a)' /\ a # action'
               /\ <<a, "failure">> \in rows' <=> Failed(a)'
    <3>0. /\ <<a, "begin">> \in rows <=> Announced(a)
          /\ <<a, "success">> \in rows <=> Announced(a) /\ a # action
          /\ <<a, "failure">> \in rows <=> Failed(a)
      BY DEF RowsTell
    <3>1. <<a, "begin">> \in rows' <=> Announced(a)'
      BY <1>3, <1>4, <1>5, <1>6, <3>0
    <3>2. <<a, "success">> \in rows' <=> Announced(a)' /\ a # action'
      <4>1. <<a, "success">> \in rows' <=> <<a, "success">> \in rows
        BY <1>3
      <4>2. a # action /\ (Announced(a) <=> Begun(a) /\ a # ActionOf(step))
        BY <1>1, <1>6, <1>7
      <4>3. Announced(a)' <=> Begun(a)
        BY <1>5
      <4> QED
        BY <1>1, <3>0, <4>1, <4>2, <4>3
    <3>3. <<a, "failure">> \in rows' <=> Failed(a)'
      BY <1>3, <1>8, <3>0
    <3> QED
      BY <3>1, <3>2, <3>3
  <2>2. <<"done", "success">> \in rows' <=> pc' = "exited" /\ reachable' /\ success'
    BY <1>1, <1>3, <1>7 DEF RowsTell
  <2> QED
    BY <2>1, <2>2 DEF RowsTell
<1>10. CurrentIsLast'
  <2>1. ASSUME NEW s \in Steps, NEW t \in Steps, ActionOf(s) = ActionOf(step), ActionOf(t) # "",
               Begun(ActionOf(t))
        PROVE  Rank[t] <= Rank[s]
    <3>1. s = step
      BY <1>0, <1>1, <2>1, ActionNames
    <3> QED
      BY <2>1, <3>1, BegunIs
  <2> QED
    BY <1>1, <1>4, <1>5, <2>1 DEF CurrentIsLast
<1>11. CurrentIsThere'
  BY <1>0, <1>1 DEF CurrentIsThere, OutcomeHolds, Working, Announcing
<1> QED
  BY <1>9, <1>10, <1>11

(* The updates of the end: the last action succeeded, or the current one   *)
(* failed, and the execution is done.                                       *)
LEMMA EndKeepsTrail ==
  ASSUME ExecutorInv, RowsTell, CurrentIsLast, CurrentIsThere, failedPosts' = failedPosts,
         FinishSuccess \/ UpdateFailure \/ SendDone
  PROVE  RowsTell' /\ CurrentIsLast' /\ CurrentIsThere'
<1>0. /\ EntryHolds /\ OutcomeHolds /\ failedPosts \in Nat /\ action \in Actions \cup {""}
      /\ UNCHANGED <<step, job, success, reachable>>
  BY MessageFacts DEF MessageStep
<1>1. "done" \notin Actions /\ "" \notin Actions
  BY ActionNames
<1>2. CASE FinishSuccess
  <2>1. /\ pc = "succeeded" /\ pc' = "send_done" /\ action' = "" /\ success
        /\ action # "" /\ action \in Actions /\ PostUpdate(<<action, "success">>)
    BY <1>0, <1>2 DEF FinishSuccess, EntryHolds, OutcomeHolds
  <2>2. rows' = rows \cup {<<action, "success">>}
    BY <1>0, <2>1, PostedUpdate
  <2>3. \A a, t : <<a, t>> \in rows' <=> <<a, t>> \in rows \/ (a = action /\ t = "success")
    BY <2>2, RowsWith
  <2>4. \A a : Announced(a)' <=> Announced(a)
    BY <1>0, <2>1, AnnouncedAtStep DEF Announcing
  <2>5. \A a : ~Failed(a) /\ ~Failed(a)'
    BY <1>0, <2>1 DEF Failed
  <2>6. Announced(action)
    BY <2>1 DEF CurrentIsLast
  <2>7. ASSUME NEW a \in Actions
        PROVE  /\ <<a, "begin">> \in rows' <=> Announced(a)'
               /\ <<a, "success">> \in rows' <=> Announced(a)' /\ a # action'
               /\ <<a, "failure">> \in rows' <=> Failed(a)'
    <3>0. /\ <<a, "begin">> \in rows <=> Announced(a)
          /\ <<a, "success">> \in rows <=> Announced(a) /\ a # action
          /\ <<a, "failure">> \in rows <=> Failed(a)
      BY DEF RowsTell
    <3>1. <<a, "begin">> \in rows' <=> Announced(a)'
      BY <2>3, <2>4, <3>0
    <3>2. <<a, "success">> \in rows' <=> Announced(a)' /\ a # action'
      BY <1>1, <2>1, <2>3, <2>4, <2>6, <3>0
    <3>3. <<a, "failure">> \in rows' <=> Failed(a)'
      BY <2>3, <2>5, <3>0
    <3> QED
      BY <3>1, <3>2, <3>3
  <2>8. <<"done", "success">> \in rows' <=> pc' = "exited" /\ reachable' /\ success'
    BY <1>1, <2>1, <2>3 DEF RowsTell
  <2>9. CurrentIsLast' /\ CurrentIsThere'
    BY <1>0, <2>1 DEF CurrentIsLast, CurrentIsThere
  <2> QED
    BY <2>7, <2>8, <2>9 DEF RowsTell
<1>3. CASE UpdateFailure
  <2>1. /\ pc = "update_failure" /\ pc' = "send_error" /\ action' = action /\ ~success
        /\ IF reachable THEN PostUpdate(<<action, "failure">>) ELSE rows' = rows
    BY <1>0, <1>3 DEF UpdateFailure, Leave, OutcomeHolds, Cleanup
  <2>2. rows' = IF reachable /\ action # "" THEN rows \cup {<<action, "failure">>} ELSE rows
    BY <1>0, <2>1, PostedUpdate
  <2>3. \A a :
          /\ <<a, "begin">> \in rows' <=> <<a, "begin">> \in rows
          /\ <<a, "success">> \in rows' <=> <<a, "success">> \in rows
          /\ <<a, "failure">> \in rows' <=>
               <<a, "failure">> \in rows \/ (reachable /\ action # "" /\ a = action)
    BY <2>2
  <2>4. \A a : Announced(a)' <=> Announced(a)
    BY <1>0, <2>1, AnnouncedAtStep DEF Announcing
  <2>5. \A a \in Actions : Failed(a)' <=> a = action /\ reachable
    BY <1>0, <2>1 DEF Failed
  <2>6. \A a : ~Failed(a)
    BY <2>1 DEF Failed
  <2>7. ASSUME NEW a \in Actions
        PROVE  /\ <<a, "begin">> \in rows' <=> Announced(a)'
               /\ <<a, "success">> \in rows' <=> Announced(a)' /\ a # action'
               /\ <<a, "failure">> \in rows' <=> Failed(a)'
    <3>0. /\ <<a, "begin">> \in rows <=> Announced(a)
          /\ <<a, "success">> \in rows <=> Announced(a) /\ a # action
          /\ <<a, "failure">> \in rows <=> Failed(a)
      BY DEF RowsTell
    <3>1. <<a, "begin">> \in rows' <=> Announced(a)'
      BY <2>3, <2>4, <3>0
    <3>2. <<a, "success">> \in rows' <=> Announced(a)' /\ a # action'
      BY <2>1, <2>3, <2>4, <3>0
    <3>3. <<a, "failure">> \in rows' <=> Failed(a)'
      <4>1. <<a, "failure">> \in rows' <=>
              <<a, "failure">> \in rows \/ (reachable /\ action # "" /\ a = action)
        BY <2>3
      <4>2. <<a, "failure">> \notin rows /\ a # ""
        BY <1>1, <2>6, <3>0
      <4>3. Failed(a)' <=> a = action /\ reachable
        BY <2>5
      <4> QED
        BY <4>1, <4>2, <4>3
    <3> QED
      BY <3>1, <3>2, <3>3
  <2>8. <<"done", "success">> \in rows' <=> pc' = "exited" /\ reachable' /\ success'
    BY <1>0, <1>1, <2>1, <2>3 DEF RowsTell
  <2>9. CurrentIsLast' /\ CurrentIsThere'
    BY <1>0, <2>1, <2>4 DEF CurrentIsLast, CurrentIsThere, Announcing
  <2> QED
    BY <2>7, <2>8, <2>9 DEF RowsTell
<1>4. CASE SendDone
  <2> DEFINE outcome == IF success THEN "success" ELSE "failure"
  <2>1. /\ pc = "send_done" /\ pc' = "exited" /\ action' = action
        /\ IF reachable THEN PostUpdate(<<"done", outcome>>) ELSE rows' = rows
    BY <1>4 DEF SendDone, Leave
  <2>2. rows' = IF reachable THEN rows \cup {<<"done", outcome>>} ELSE rows
    <3>1. PICK o : o = outcome
      OBVIOUS
    <3>2. CASE reachable
      <4>1. PostUpdate(<<"done", o>>)
        BY <2>1, <3>1, <3>2
      <4>2. rows' = (IF "done" # "" THEN rows \cup {<<"done", o>>} ELSE rows)
        BY <1>0, <4>1, PostedUpdate
      <4> QED
        BY <3>1, <3>2, <4>2
    <3> QED
      BY <2>1, <3>2
  <2>3. \A a, t : <<a, t>> \in rows' <=>
          <<a, t>> \in rows \/ (reachable /\ a = "done" /\ t = outcome)
    BY <2>2, RowsWith
  <2>4. <<"done", "success">> \in rows' <=> <<"done", "success">> \in rows \/ (reachable /\ success)
    BY <2>2
  <2>5. \A a : Announced(a)' <=> Announced(a)
    BY <1>0, <2>1, AnnouncedAtStep DEF Announcing
  <2>6. \A a \in Actions : Failed(a)' <=> Failed(a)
    BY <1>0, <2>1 DEF Failed
  <2>7. ASSUME NEW a \in Actions
        PROVE  /\ <<a, "begin">> \in rows' <=> Announced(a)'
               /\ <<a, "success">> \in rows' <=> Announced(a)' /\ a # action'
               /\ <<a, "failure">> \in rows' <=> Failed(a)'
    <3>0. /\ <<a, "begin">> \in rows <=> Announced(a)
          /\ <<a, "success">> \in rows <=> Announced(a) /\ a # action
          /\ <<a, "failure">> \in rows <=> Failed(a)
      BY DEF RowsTell
    <3>1. <<a, "begin">> \in rows' <=> Announced(a)'
      BY <1>1, <2>3, <2>5, <3>0
    <3>2. <<a, "success">> \in rows' <=> Announced(a)' /\ a # action'
      BY <1>1, <2>1, <2>3, <2>5, <3>0
    <3>3. <<a, "failure">> \in rows' <=> Failed(a)'
      BY <1>1, <2>3, <2>6, <3>0
    <3> QED
      BY <3>1, <3>2, <3>3
  <2>8. <<"done", "success">> \in rows' <=> pc' = "exited" /\ reachable' /\ success'
    <3>1. <<"done", "success">> \notin rows
      BY <2>1 DEF RowsTell
    <3> QED
      BY <1>0, <2>1, <2>4, <3>1
  <2>9. CurrentIsLast' /\ CurrentIsThere'
    BY <1>0, <2>1, <2>5 DEF CurrentIsLast, CurrentIsThere, Announcing
  <2> QED
    BY <2>7, <2>8, <2>9 DEF RowsTell
<1> QED
  BY <1>2, <1>3, <1>4

(* The rest of the clean-up sends no update.                               *)
LEMMA CleanupKeepsTrail ==
  ASSUME ExecutorInv, RowsTell, CurrentIsLast, CurrentIsThere, LockError \/ UploadRemaining \/ SendError
  PROVE  RowsTell' /\ CurrentIsLast' /\ CurrentIsThere'
<1>1. /\ UNCHANGED <<step, job, success, reachable, action, rows>>
      /\ pc \in Cleanup /\ pc' \notin Announcing /\ ~success
      /\ pc = "send_error" <=> pc' = "send_done"
      /\ pc' # "exited" /\ pc' # "send_error"
  BY MessageFrame DEF LockError, UploadRemaining, SendError, Leave, Cleanup, Announcing, app,
                      ExecutorInv, OutcomeHolds, MessageStep
<1>2. \A a : Announced(a)' <=> Announced(a)
  BY <1>1, AnnouncedAtStep DEF Announcing, Cleanup
<1>3. \A a : Failed(a)' <=> Failed(a)
  BY <1>1 DEF Failed, Cleanup
<1>4. RowsTell'
  BY <1>1, <1>2, <1>3 DEF RowsTell, Cleanup
<1>5. CurrentIsLast' /\ CurrentIsThere'
  BY <1>1, <1>2 DEF CurrentIsLast, CurrentIsThere, Announcing, Cleanup
<1> QED
  BY <1>4, <1>5

(* A step after which nothing has been disturbed was not disturbed.        *)
LEMMA StillUndisturbed ==
  ASSUME ExecutorInv, Next, Undisturbed'
  PROVE  Undisturbed /\ failedPosts' = failedPosts /\ (WorkStep \/ MessageStep)
<1>0. TypeOK /\ EntryHolds /\ OutcomeHolds /\ NoWorkAfterTimeout
  BY DEF ExecutorInv
<1>1. ~Alarm /\ ~AlarmInRequest
  BY DEF Undisturbed, Alarm, AlarmInRequest
<1>2. WorkStep \/ MessageStep
  BY <1>1 DEF Next
<1>3. alarm' = alarm
  <2>1. CASE WorkStep
    <3>1. Moving \/ Staying \/ Sending \/ Ending \/ Throwing
      BY <1>0, <2>1, WorkShape
    <3> QED
      BY <3>1 DEF Moving, GoTo, Staying, control, Sending, Ending, Throwing
  <2>2. CASE MessageStep
    BY <2>2 DEF MessageStep, CloseAction, BeginAction, FinishSuccess, LockError, UploadRemaining,
                UpdateFailure, SendError, SendDone, Leave, PostThrows, Throw
  <2> QED
    BY <1>2, <2>1, <2>2
<1>4. failedPosts' = 0
  BY DEF Undisturbed
<1>5. failedPosts = 0
  <2>1. CASE MessageStep
    BY <1>0, <1>4, <2>1, MessageRows
  <2>2. CASE ReportUnmatched
    <3>1. failedPosts \in 0..MaxFailedPosts
      BY <1>0 DEF TypeOK
    <3>2. failedPosts \in Nat
      BY <3>1, MaxFailedPostsOK
    <3>3. failedPosts' = failedPosts \/ failedPosts' = failedPosts + 1
      BY <2>2 DEF ReportUnmatched, Post
    <3> QED
      BY <1>4, <3>2, <3>3
  <2>3. CASE WorkStep /\ ~ReportUnmatched
    BY <1>4, <2>3, WorkFrame
  <2> QED
    BY <1>2, <2>1, <2>2, <2>3
<1> QED
  BY <1>2, <1>3, <1>4, <1>5 DEF Undisturbed

LEMMA TrailAtFirst == Init => TrailHolds
<1> SUFFICES ASSUME Init PROVE RowsTell /\ CurrentIsLast /\ CurrentIsThere
  BY DEF TrailHolds
<1>1. step = "init" /\ pc = "body" /\ action = "" /\ rows = {} /\ ~success
  BY DEF Init
<1>2. \A a \in Actions : ~Announced(a)
  <2> SUFFICES ASSUME NEW a \in Actions PROVE ~Begun(a)
    BY DEF Announced
  <2>1. PICK s \in Steps : ActionOf(s) = a /\ a # ""
    BY StepOfAction
  <2>2. Rank[s] \in ActionPlaces /\ "init" \in Steps
    BY <2>1, ActionRanks, StepNames
  <2>3. \A n \in ActionPlaces : ~(n <= 1)
    BY DEF ActionPlaces
  <2>4. ~(Rank[s] <= Rank[step])
    BY <1>1, <2>2, <2>3, Ranks
  <2> QED
    BY <2>1, <2>4, BegunIs
<1>3. \A a \in Actions : ~Failed(a)
  BY <1>1 DEF Failed
<1> QED
  BY <1>1, <1>2, <1>3 DEF RowsTell, CurrentIsLast, CurrentIsThere

LEMMA TrailIsKept == ExecutorInv /\ TrailHolds /\ [Next]_vars => TrailHolds'
<1> SUFFICES ASSUME ExecutorInv, TrailHolds, [Next]_vars, Undisturbed'
             PROVE  RowsTell' /\ CurrentIsLast' /\ CurrentIsThere'
  BY DEF TrailHolds
<1>1. CASE Next
  <2>1. Undisturbed /\ failedPosts' = failedPosts /\ (WorkStep \/ MessageStep)
    BY <1>1, StillUndisturbed
  <2>2. RowsTell /\ CurrentIsLast /\ CurrentIsThere
    BY <2>1 DEF TrailHolds
  <2>3. CASE WorkStep
    BY <2>2, <2>3, WorkKeepsTrail
  <2>4. CASE CloseAction
    BY <2>1, <2>2, <2>4, CloseKeepsTrail
  <2>5. CASE BeginAction
    BY <2>1, <2>2, <2>5, BeginKeepsTrail
  <2>6. CASE FinishSuccess \/ UpdateFailure \/ SendDone
    BY <2>1, <2>2, <2>6, EndKeepsTrail
  <2>7. CASE LockError \/ UploadRemaining \/ SendError
    BY <2>2, <2>7, CleanupKeepsTrail
  <2> QED
    BY <2>1, <2>3, <2>4, <2>5, <2>6, <2>7 DEF MessageStep
<1>2. CASE UNCHANGED vars
  <2>1. UNCHANGED <<job, success, reachable, step, pc, action, alarm, rows, failedPosts>>
    BY <1>2 DEF vars, env, control, app
  <2>2. Undisturbed
    BY <2>1 DEF Undisturbed
  <2>3. RowsTell /\ CurrentIsLast /\ CurrentIsThere
    BY <2>2 DEF TrailHolds
  <2>4. \A a : (Announced(a)' <=> Announced(a)) /\ (Failed(a)' <=> Failed(a))
    BY <2>1 DEF Announced, Begun, Failed
  <2> QED
    BY <2>1, <2>3, <2>4 DEF RowsTell, CurrentIsLast, CurrentIsThere
<1> QED
  BY <1>1, <1>2

-----------------------------------------------------------------------------
(* What the trail and the tracker tell at the end.                          *)

(* Of the actions that have begun, all but the current one are finished.    *)
LEMMA FinishedAtEnd ==
  ASSUME ExecutorInv, RowsTell, CurrentIsLast, CurrentIsThere, pc = "exited", NEW a \in Actions, Begun(a)
  PROVE  Finished(a) <=> a # action
<1>0. step \in Steps /\ action \in Actions \cup {""}
  BY DEF ExecutorInv, TypeOK
<1>1. PICK s \in Steps : ActionOf(s) = a /\ a # ""
  BY StepOfAction
<1>2. \A b : Announced(b) <=> Begun(b)
  BY DEF Announced, Announcing
<1>3. CASE success
  BY <1>1, <1>3 DEF Finished, CurrentIsThere
<1>4. CASE ~success /\ action = ""
  <2>1. step \in {"init", "unpack_job"}
    BY <1>4 DEF CurrentIsThere, Announcing
  <2>2. Rank[s] \in ActionPlaces /\ Rank[s] <= Rank[step]
    BY <1>1, ActionRanks, BegunIs
  <2>3. \A n \in ActionPlaces : ~(n <= 1) /\ ~(n <= 2)
    BY DEF ActionPlaces
  <2> QED
    BY <2>1, <2>2, <2>3, Ranks
<1>5. CASE ~success /\ action # ""
  <2>1. PICK c \in Steps : ActionOf(c) = action
    BY <1>0, <1>5, StepOfAction
  <2>2. Begun(action) /\ \A t \in Steps : ActionOf(t) # "" /\ Begun(ActionOf(t)) => Rank[t] <= Rank[c]
    BY <1>2, <1>5, <2>1 DEF CurrentIsLast
  <2>3. \A t, u \in Steps : Rank[t] \in Nat /\ Rank[u] \in Nat /\ (Rank[t] = Rank[u] => t = u)
    BY StepAtRank
  <2>4. CASE a = action
    <3>1. s = c
      BY <1>1, <2>1, <2>4, ActionNames
    <3>2. ASSUME NEW t \in Steps, ActionOf(t) # "", Begun(ActionOf(t)) PROVE ~(Rank[s] < Rank[t])
      <4>1. Rank[t] <= Rank[s]
        BY <2>2, <3>1, <3>2
      <4> QED
        BY <2>3, <4>1, Orders
    <3>3. \A u \in Steps : ActionOf(u) = a => u = s
      BY <1>1, ActionNames
    <3> QED
      BY <1>5, <2>4, <3>2, <3>3 DEF Finished
  <2>5. CASE a # action
    <3>1. Rank[s] <= Rank[c] /\ s # c
      BY <1>1, <2>1, <2>2, <2>5
    <3>2. Rank[s] < Rank[c]
      BY <2>3, <3>1
    <3> QED
      BY <1>1, <1>5, <2>1, <2>2, <2>5, <3>2 DEF Finished
  <2> QED
    BY <2>4, <2>5
<1> QED
  BY <1>3, <1>4, <1>5

LEMMA TrailAtEnd ==
  ASSUME ExecutorInv, TrailHolds
  PROVE  TrailTellsTheFailure
<1> SUFFICES ASSUME pc = "exited", reachable, alarm = "armed", failedPosts = 0, NEW a \in Actions
             PROVE  /\ (<<a, "begin">> \in rows) = Begun(a)
                    /\ (<<a, "success">> \in rows) = (Begun(a) /\ Finished(a))
                    /\ (<<a, "failure">> \in rows) = (Begun(a) /\ ~Finished(a))
  BY DEF TrailTellsTheFailure
<1>1. RowsTell /\ CurrentIsLast /\ CurrentIsThere
  BY DEF TrailHolds, Undisturbed
<1>2. \A b : Announced(b) <=> Begun(b)
  BY DEF Announced, Announcing
<1>3. /\ <<a, "begin">> \in rows <=> Begun(a)
      /\ <<a, "success">> \in rows <=> Begun(a) /\ a # action
      /\ <<a, "failure">> \in rows <=> a = action /\ ~success
  <2>1. Failed(a) <=> a = action /\ ~success
    BY DEF Failed
  <2> QED
    BY <1>1, <1>2, <2>1 DEF RowsTell
<1>4. a # ""
  BY StepOfAction
<1>5. a = action => Begun(a) /\ ~success
  BY <1>1, <1>2, <1>4 DEF CurrentIsLast, CurrentIsThere
<1>6. Begun(a) => (Finished(a) <=> a # action)
  BY <1>1, FinishedAtEnd
<1>7. (<<a, "begin">> \in rows) <=> Begun(a)
  BY <1>3
<1>8. (<<a, "success">> \in rows) <=> (Begun(a) /\ Finished(a))
  BY <1>3, <1>6
<1>9. (<<a, "failure">> \in rows) <=> (Begun(a) /\ ~Finished(a))
  BY <1>3, <1>5, <1>6
<1>10. Begun(a) \in BOOLEAN /\ Finished(a) \in BOOLEAN
  BY DEF Begun, Finished
<1> QED
  BY <1>7, <1>8, <1>9, <1>10

(* How many rows with a status there are of a set of actions.               *)
RowsOf(S, status) == {r \in {q \in rows : q[1] \in S} : r[2] = status}

LEMMA CountOf ==
  ASSUME NEW S, IsFiniteSet(S), NEW status, TypeOK
  PROVE  /\ Cardinality(RowsOf(S, status)) \in Nat
         /\ (\A a \in S : <<a, status>> \in rows) => Cardinality(RowsOf(S, status)) = Cardinality(S)
         /\ Cardinality(RowsOf(S, status)) = 0 <=> \A a \in S : <<a, status>> \notin rows
<1> DEFINE D == {a \in S : <<a, status>> \in rows}
           f == [a \in D |-> <<a, status>>]
<1>1. IsFiniteSet(D)
  BY FS_Subset
<1>2. RowsOf(S, status) = {<<a, status>> : a \in D}
  <2>1. \A r \in rows : r = <<r[1], r[2]>>
    <3>1. PICK A, B : rows \subseteq A \X B
      BY DEF TypeOK
    <3> QED
      BY <3>1
  <2> QED
    BY <2>1 DEF RowsOf
<1>3. f \in Bijection(D, RowsOf(S, status))
  <2>1. f \in [D -> RowsOf(S, status)]
    BY <1>2
  <2>2. \A a, b \in D : f[a] = f[b] => a = b
    OBVIOUS
  <2>3. \A r \in RowsOf(S, status) : \E a \in D : f[a] = r
    BY <1>2
  <2> QED
    BY <2>1, <2>2, <2>3 DEF Bijection, Injection, Surjection, IsInjective
<1>4. ExistsBijection(D, RowsOf(S, status))
  BY <1>3 DEF ExistsBijection
<1>5. /\ IsFiniteSet(RowsOf(S, status))
      /\ Cardinality(RowsOf(S, status)) = Cardinality(D)
  BY <1>1, <1>4, FS_Bijection
<1>6. Cardinality(RowsOf(S, status)) \in Nat
  BY <1>5, FS_CardinalityType
<1>7. ASSUME \A a \in S : <<a, status>> \in rows PROVE D = S
  BY <1>7
<1>8. Cardinality(RowsOf(S, status)) = 0 <=> D = {}
  BY <1>1, <1>5, FS_EmptySet
<1>9. D = {} <=> \A a \in S : <<a, status>> \notin rows
  OBVIOUS
<1> QED
  BY <1>5, <1>6, <1>7, <1>8, <1>9

(* What the tracker shows for a stage.                                     *)
LEMMA StageShows ==
  ASSUME TypeOK, NEW S, IsFiniteSet(S)
  PROVE  /\ GetStageStatus(S) = "error" <=> \E a \in S : <<a, "failure">> \in rows
         /\ /\ \E a \in S : TRUE
            /\ \A a \in S : <<a, "begin">> \in rows /\ <<a, "success">> \in rows
            /\ \A a \in S : <<a, "failure">> \notin rows
            => GetStageStatus(S) = "done"
<1> DEFINE relevant == {r \in rows : r[1] \in S}
           begun == Cardinality(RowsOf(S, "begin"))
           succeeded == Cardinality(RowsOf(S, "success"))
           failed == Cardinality(RowsOf(S, "failure"))
<1>1. GetStageStatus(S) =
        CASE relevant = {} -> "not started"
          [] failed > 0 -> "error"
          [] failed = 0 /\ begun = Cardinality(S) /\ succeeded = begun -> "done"
          [] OTHER -> "in progress"
  BY DEF GetStageStatus, RowsOf
<1>2. failed \in Nat /\ (failed = 0 <=> \A a \in S : <<a, "failure">> \notin rows)
  BY CountOf
<1>3. failed > 0 <=> ~(failed = 0)
  BY <1>2
<1>4. \A a \in S : \A s : <<a, s>> \in rows => relevant # {}
  <2> SUFFICES ASSUME NEW a \in S, NEW s, <<a, s>> \in rows PROVE relevant # {}
    OBVIOUS
  <2>1. <<a, s>> \in relevant
    OBVIOUS
  <2> QED
    BY <2>1
<1>5. CASE \E a \in S : <<a, "failure">> \in rows
  <2>1. relevant # {} /\ failed > 0 /\ failed # 0
    BY <1>2, <1>3, <1>4, <1>5
  <2>2. GetStageStatus(S) = "error"
    <3> HIDE DEF relevant, begun, succeeded, failed
    <3> QED
      BY <1>1, <2>1
  <2> QED
    BY <1>5, <2>2
<1>6. CASE \A a \in S : <<a, "failure">> \notin rows
  <2>1. failed = 0 /\ ~(failed > 0)
    BY <1>2, <1>3, <1>6
  <2>2. GetStageStatus(S) # "error"
    <3> HIDE DEF relevant, begun, succeeded, failed
    <3> QED
      BY <1>1, <2>1
  <2>3. ASSUME \E a \in S : TRUE, \A a \in S : <<a, "begin">> \in rows /\ <<a, "success">> \in rows
        PROVE  GetStageStatus(S) = "done"
    <3>1. relevant # {}
      BY <1>4, <2>3
    <3>2. begun = Cardinality(S) /\ succeeded = Cardinality(S)
      BY <2>3, CountOf
    <3> HIDE DEF relevant, begun, succeeded, failed
    <3> QED
      BY <1>1, <2>1, <3>1, <3>2
  <2> QED
    BY <1>6, <2>2, <2>3
<1> QED
  BY <1>5, <1>6

LEMMA StagesAre ==
  /\ StepsByStage["preprocessing"] =
       {"refresh_bundle_code", "get_student_roster", "get_input_files", "earthmover_deps"}
  /\ StepsByStage["transforming"] = {"earthmover_run"}
  /\ StepsByStage["sending"] = {"lightbeam_send"}
  /\ \A s \in {"preprocessing", "transforming", "sending"} :
       /\ IsFiniteSet(StepsByStage[s]) /\ StepsByStage[s] \subseteq Actions
       /\ \E a \in StepsByStage[s] : TRUE
<1>1. /\ StepsByStage["preprocessing"] =
           {"refresh_bundle_code", "get_student_roster", "get_input_files", "earthmover_deps"}
      /\ StepsByStage["transforming"] = {"earthmover_run"}
      /\ StepsByStage["sending"] = {"lightbeam_send"}
  BY DEF StepsByStage
<1>2. IsFiniteSet(StepsByStage["transforming"]) /\ IsFiniteSet(StepsByStage["sending"])
  <2>1. IsFiniteSet({"earthmover_run"}) /\ IsFiniteSet({"lightbeam_send"})
    BY FS_Singleton
  <2> QED
    BY <1>1, <2>1
<1>3. IsFiniteSet(StepsByStage["preprocessing"])
  <2>1. IsFiniteSet({"refresh_bundle_code"})
    BY FS_Singleton
  <2>2. IsFiniteSet({"refresh_bundle_code"} \cup {"get_student_roster"})
    BY <2>1, FS_AddElement
  <2>3. IsFiniteSet(({"refresh_bundle_code"} \cup {"get_student_roster"}) \cup {"get_input_files"})
    BY <2>2, FS_AddElement
  <2>4. IsFiniteSet((({"refresh_bundle_code"} \cup {"get_student_roster"}) \cup {"get_input_files"})
                      \cup {"earthmover_deps"})
    BY <2>3, FS_AddElement
  <2>5. (({"refresh_bundle_code"} \cup {"get_student_roster"}) \cup {"get_input_files"})
          \cup {"earthmover_deps"} = StepsByStage["preprocessing"]
    BY <1>1
  <2> QED
    BY <2>4, <2>5
<1>4. \A s \in {"preprocessing", "transforming", "sending"} :
        StepsByStage[s] \subseteq Actions /\ \E a \in StepsByStage[s] : TRUE
  BY <1>1, ActionNames
<1> QED
  BY <1>1, <1>2, <1>3, <1>4

(* A later action has begun, and the stages before it are done.             *)
LEMMA BegunBefore ==
  ASSUME step \in Steps, NEW s \in Steps, NEW t \in Steps, ActionOf(s) # "", ActionOf(t) # "",
         Rank[s] <= Rank[t], Begun(ActionOf(t)), s = "lightbeam_send" => job.sendToOds
  PROVE  Begun(ActionOf(s))
<1>1. Rank[t] <= Rank[step]
  BY BegunIs
<1>2. Rank[s] \in Nat /\ Rank[t] \in Nat /\ Rank[step] \in Nat
  BY RankIsNat
<1>3. Rank[s] <= Rank[step]
  BY <1>1, <1>2, Orders
<1> QED
  BY <1>3, BegunIs

LEMMA TrackerAtEnd ==
  ASSUME ExecutorInv, TrailHolds
  PROVE  TrackerTellsTheEnd
<1> SUFFICES ASSUME pc = "exited", reachable, alarm = "armed", failedPosts = 0
             PROVE  /\ success => DoneStatus = "done" /\ \A s \in StagesShown : Statuses[s] = "done"
                    /\ ~success => DoneStatus = "not started"
                    /\ \A s \in StagesShown :
                         Statuses[s] = "error" <=> ~success /\ action \in StepsByStage[s]
                    /\ action = "earthmover_run" => Statuses["preprocessing"] = "done"
                    /\ action = "lightbeam_send" => \A s \in StagesShown \ {"sending"} : Statuses[s] = "done"
  BY DEF TrackerTellsTheEnd
<1>0. TypeOK /\ step \in Steps /\ action \in Actions \cup {""}
  BY DEF ExecutorInv, TypeOK
<1>1. RowsTell /\ CurrentIsLast /\ CurrentIsThere
  BY DEF TrailHolds, Undisturbed
<1>2. \A a \in Actions :
        /\ <<a, "begin">> \in rows <=> Begun(a)
        /\ <<a, "success">> \in rows <=> Begun(a) /\ a # action
        /\ <<a, "failure">> \in rows <=> a = action /\ ~success
  <2>1. \A b : Announced(b) <=> Begun(b)
    BY DEF Announced, Announcing
  <2>2. \A a : Failed(a) <=> a = action /\ ~success
    BY DEF Failed
  <2> QED
    BY <1>1, <2>1, <2>2 DEF RowsTell
<1>3. "" \notin Actions
  BY ActionNames
<1>4. success => action = "" /\ step = "compile_summary"
  BY <1>1 DEF CurrentIsThere
<1>5. action # "" => Begun(action)
  BY <1>1 DEF CurrentIsLast, Announced
<1>6. StagesShown \subseteq {"preprocessing", "transforming", "sending"}
  BY DEF StagesShown
<1>7. \A s \in StagesShown : Statuses[s] = GetStageStatus(StepsByStage[s])
  BY DEF Statuses
<1>8. ASSUME NEW s \in StagesShown, \A a \in StepsByStage[s] : Begun(a) /\ a # action
      PROVE  Statuses[s] = "done"
  <2>1. StepsByStage[s] \subseteq Actions /\ IsFiniteSet(StepsByStage[s]) /\ \E a \in StepsByStage[s] : TRUE
    BY <1>6, StagesAre
  <2>2. /\ \A a \in StepsByStage[s] : <<a, "begin">> \in rows /\ <<a, "success">> \in rows
        /\ \A a \in StepsByStage[s] : <<a, "failure">> \notin rows
    BY <1>2, <1>8, <2>1
  <2>3. GetStageStatus(StepsByStage[s]) = "done"
    BY <1>0, <2>1, <2>2, StageShows
  <2> QED
    BY <1>7, <2>3
<1>9. ASSUME NEW s \in StagesShown
      PROVE  Statuses[s] = "error" <=> ~success /\ action \in StepsByStage[s]
  <2>1. StepsByStage[s] \subseteq Actions /\ IsFiniteSet(StepsByStage[s])
    BY <1>6, StagesAre
  <2>2. GetStageStatus(StepsByStage[s]) = "error" <=> \E a \in StepsByStage[s] : <<a, "failure">> \in rows
    BY <1>0, <2>1, StageShows
  <2> QED
    BY <1>2, <1>7, <2>1, <2>2
<1>10. /\ ActionOf("refresh_bundle_code") = "refresh_bundle_code"
       /\ ActionOf("get_student_roster") = "get_student_roster"
       /\ ActionOf("get_input_files") = "get_input_files"
       /\ ActionOf("earthmover_deps") = "earthmover_deps"
       /\ ActionOf("unpack_id_types") = "earthmover_run"
       /\ ActionOf("lightbeam_send") = "lightbeam_send"
       /\ ActionOf("upload_output") = "upload_output"
  BY DEF ActionOf
<1>11. {"refresh_bundle_code", "get_student_roster", "get_input_files", "earthmover_deps",
        "unpack_id_types", "lightbeam_send", "upload_output"} \subseteq Steps
  BY StepNames
<1>12. Begun("earthmover_run") => \A a \in StepsByStage["preprocessing"] : Begun(a)
  <2> SUFFICES ASSUME Begun("earthmover_run"), NEW a \in StepsByStage["preprocessing"] PROVE Begun(a)
    OBVIOUS
  <2>1. a \in Steps /\ ActionOf(a) = a /\ a # "" /\ a # "lightbeam_send"
    BY <1>10, <1>11, StagesAre
  <2>2. Rank[a] <= Rank["unpack_id_types"]
    BY StagesAre, Ranks
  <2> QED
    BY <1>0, <1>10, <1>11, <2>1, <2>2, BegunBefore
<1>13. Begun("lightbeam_send") => Begun("earthmover_run")
  <2>1. Rank["unpack_id_types"] <= Rank["lightbeam_send"]
    BY Ranks
  <2> QED
    BY <1>0, <1>10, <1>11, <2>1, BegunBefore
<1>14. success => Begun("earthmover_run") /\ (job.sendToOds => Begun("lightbeam_send"))
  <2>1. /\ Rank["unpack_id_types"] <= Rank["compile_summary"]
        /\ Rank["lightbeam_send"] <= Rank["compile_summary"]
    BY Ranks
  <2> QED
    BY <1>4, <1>10, <1>11, <2>1, BegunIs
<1>15. success => DoneStatus = "done" /\ \A s \in StagesShown : Statuses[s] = "done"
  <2> SUFFICES ASSUME success PROVE DoneStatus = "done" /\ \A s \in StagesShown : Statuses[s] = "done"
    OBVIOUS
  <2>1. DoneStatus = "done"
    BY <1>1 DEF RowsTell, DoneStatus
  <2>2. ASSUME NEW s \in StagesShown, NEW a \in StepsByStage[s] PROVE Begun(a) /\ a # action
    <3>1. a # action
      BY <1>3, <1>4, <1>6, <2>2, StagesAre
    <3>2. CASE s = "preprocessing"
      BY <1>12, <1>14, <2>2, <3>1, <3>2
    <3>3. CASE s = "transforming"
      BY <1>14, <2>2, <3>1, <3>3, StagesAre
    <3>4. CASE s = "sending"
      BY <1>14, <2>2, <3>1, <3>4, StagesAre DEF StagesShown
    <3> QED
      BY <1>6, <2>2, <3>1, <3>2, <3>3, <3>4
  <2> QED
    BY <1>8, <2>1, <2>2
<1>16. ~success => DoneStatus = "not started"
  BY <1>1 DEF RowsTell, DoneStatus
<1>17. "preprocessing" \in StagesShown
  BY DEF StagesShown
<1>18. action = "earthmover_run" => Statuses["preprocessing"] = "done"
  <2> SUFFICES ASSUME action = "earthmover_run" PROVE Statuses["preprocessing"] = "done"
    OBVIOUS
  <2>1. \A a \in StepsByStage["preprocessing"] : Begun(a) /\ a # action
    BY <1>5, <1>12, StagesAre
  <2> QED
    BY <1>8, <1>17, <2>1
<1>19. action = "lightbeam_send" => \A s \in StagesShown \ {"sending"} : Statuses[s] = "done"
  <2> SUFFICES ASSUME action = "lightbeam_send", NEW s \in StagesShown \ {"sending"}
               PROVE  Statuses[s] = "done"
    OBVIOUS
  <2>1. Begun("earthmover_run") /\ \A a \in StepsByStage["preprocessing"] : Begun(a)
    BY <1>5, <1>12, <1>13
  <2>2. \A a \in StepsByStage[s] : Begun(a) /\ a # action
    <3>1. CASE s = "preprocessing"
      BY <2>1, <3>1, StagesAre
    <3>2. CASE s = "transforming"
      BY <2>1, <3>2, StagesAre
    <3> QED
      BY <1>6, <3>1, <3>2
  <2> QED
    BY <1>8, <2>2
<1> QED
  BY <1>9, <1>15, <1>16, <1>18, <1>19

(* A failure is told in full: the updates and the tracker of an execution  *)
(* that nothing disturbs tell which action failed, the error is in the app *)
(* unless its POST fails or the alarm interrupts the clean-up, and nothing *)
(* is done after the alarm (executor.py: the except branch and finally).   *)
THEOREM FailuresAreTold == Spec => []FailureIsTold
<1>1. Spec => []TrailHolds
  BY TrailAtFirst, TrailIsKept, ExecutorInvariant, PTL DEF Spec
<1>2. ExecutorInv /\ TrailHolds => FailureIsTold
  <2> SUFFICES ASSUME ExecutorInv, TrailHolds PROVE FailureIsTold
    OBVIOUS
  <2>1. ErrorIsReported /\ NoWorkAfterTimeout
    BY DEF ExecutorInv, ErrorsHold, ErrorIsReported
  <2> QED
    BY <2>1, TrailAtEnd, TrackerAtEnd DEF FailureIsTold
<1> QED
  BY <1>1, <1>2, ExecutorInvariant, PTL

=============================================================================

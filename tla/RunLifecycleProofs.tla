-------------------------- MODULE RunLifecycleProofs --------------------------
(***************************************************************************)
(* Theorems about RunLifecycle, for every set of jobs, runs and requests.   *)
(*                                                                         *)
(* Part 1 holds whatever the environment does.  Its invariants tie a run's *)
(* status to the rows and the processes that put it there (EndInv), a      *)
(* failed run to its error or to the report that was lost                  *)
(* (ErrorsExplained), and give what the lifecycle assumes of an executor   *)
(* (ExecutorReport).                                                       *)
(* Part 2 assumes that handlers do not overlap (Orderly); its invariant    *)
(* (OrderInv) says which process may change a run's status next, which is  *)
(* what makes the unconditional updates of the code safe, and why the rows *)
(* implement JobRuns.                                                      *)
(***************************************************************************)
EXTENDS RunLifecycle, TLAPS

LetIn == {"holding_token", "working", "failed", "reported", "succeeded"}

Granted(r) == \E i \in Attempts : initPc[r][i] = "granted"

-----------------------------------------------------------------------------
(* The invariant of part 1.                                                 *)

(* A run belongs to the one request that created it.                       *)
OwnedByItsStart ==
  /\ \A q \in Starts : startPc[q] \in {"created", "launch_failed"} => startRun[q] \in Runs
  /\ \A q \in Starts : startRun[q] \in Runs => runStatus[startRun[q]] # "absent"
  /\ \A p, q \in Starts : startRun[p] \in Runs /\ startRun[p] = startRun[q] => p = q
  /\ \A q \in Starts : startPc[q] = "created" => executor[startRun[q]] = "absent"

(* A run without a row has no process; an executor that was let in holds   *)
(* a token; only an executor that is gone has said how it ended.           *)
ProcessesFollowRows ==
  \A r \in Runs :
    /\ runStatus[r] = "absent" => executor[r] = "absent"
    /\ executor[r] \in LetIn => Granted(r)
    /\ executor[r] # "exited" => outcome[r] = "none"
    /\ outcome[r] = "none" => completion[r] = "none"
    /\ outcome[r] # "none" => outcome[r] \in doneRows[r] /\ Granted(r)

SuccessIsReported ==
  \A r \in Runs : runStatus[r] = "success" => outcome[r] = "success"

EndInv ==
  /\ TypeOK
  /\ OwnedByItsStart
  /\ ProcessesFollowRows
  /\ EndIsRecorded
  /\ SuccessIsReported

-----------------------------------------------------------------------------
(* The invariant of part 2.                                                 *)

(* One open start request per job, and it knows what it believes.          *)
StartsInTurn ==
  /\ \A p, q \in Starts :
       /\ startPc[p] \in StartOpen
       /\ startPc[q] \in StartOpen
       /\ JobOf[p] = JobOf[q]
       => p = q
  /\ \A q \in Starts : startPc[q] = "clear" => Rows!UnfinishedRuns(JobOf[q]) = {}
  /\ \A q \in Starts : startPc[q] \in {"created", "launch_failed"} =>
       /\ runStatus[startRun[q]] = "new"
       /\ executor[startRun[q]] = "absent"

(* One open init request per run, the last; what it read still holds.      *)
InitsInTurn ==
  \A r \in Runs : \A i \in Attempts :
    /\ \A k \in Attempts :
         k < i /\ initPc[r][i] # "unsent" => initPc[r][k] \notin InitOpen \cup {"unsent"}
    /\ executor[r] \in {"absent", "booting"} => initPc[r][i] = "unsent"
    /\ initPc[r][i] = "read_new" => runStatus[r] = "new"
    /\ initPc[r][i] = "granted" => runStatus[r] \notin {"absent", "new"}

(* A live executor's run is unfinished, and running once it was let in.    *)
StatusFollowsExecutor ==
  \A r \in Runs :
    /\ executor[r] \notin {"absent", "exited"} => runStatus[r] \in Unfinished
    /\ executor[r] \in LetIn => runStatus[r] = "running"
    /\ completion[r] = "inserted" => runStatus[r] = "running"

OrderInv ==
  /\ EndInv
  /\ StartsInTurn
  /\ InitsInTurn
  /\ StatusFollowsExecutor
  /\ OneUnfinishedRun

-----------------------------------------------------------------------------
(* Type correctness.                                                        *)

(* The conversion of a "done" status always yields a run status.            *)
LEMMA TerminalStatusType ==
  \A s : TerminalStatus(s) \in Terminal
BY DEF TerminalStatus, Terminal, Rows!Terminal

(* Every step keeps the types: run rows only ever hold the four values of   *)
(* the run_status enum, and process and handler states their own.           *)
LEMMA TypePreserved ==
  TypeOK /\ [Next]_vars => TypeOK'
<1> SUFFICES ASSUME TypeOK, [Next]_vars PROVE TypeOK'
  OBVIOUS
<1> USE DEF TypeOK, StartPcs, InitPcs, ExecutorPcs, CompletionPcs, StartOpen, InitOpen,
     CompletionOpen, Outcomes, Rows!RunStatus, Rows!Unfinished, Rows!Terminal, Terminal,
     rowVars, doneVars
<1>1. ASSUME NEW q \in Starts, CheckInProgress(q)
      PROVE  TypeOK'
  BY <1>1, ConstantsOK DEF CheckInProgress, StartGoes
<1>2. ASSUME NEW q \in Starts, NEW r \in Runs, CreateRun(q, r)
      PROVE  TypeOK'
  BY <1>2, ConstantsOK DEF CreateRun, StartGoes
<1>3. ASSUME NEW q \in Starts, LaunchExecutor(q)
      PROVE  TypeOK'
  BY <1>3 DEF LaunchExecutor, StartGoes
<1>4. ASSUME NEW q \in Starts, LaunchThrows(q)
      PROVE  TypeOK'
  BY <1>4 DEF LaunchThrows, StartGoes
<1>5. ASSUME NEW q \in Starts, LaunchThrowsLate(q)
      PROVE  TypeOK'
  BY <1>5 DEF LaunchThrowsLate, StartGoes
<1>6. ASSUME NEW q \in Starts, RecordLaunchFailure(q)
      PROVE  TypeOK'
  BY <1>6 DEF RecordLaunchFailure, StartGoes, LaunchFailureRows
<1>7. ASSUME NEW q \in Starts, StartDies(q)
      PROVE  TypeOK'
  BY <1>7 DEF StartDies, StartOpen
<1>8. ASSUME NEW r \in Runs, NEW i \in Attempts, ReadRunForInit(r, i)
      PROVE  TypeOK'
  <2>1. PICK pc \in {"read_new", "refused"} : InitGoes(r, i, "received", pc)
    BY <1>8, Zenon DEF ReadRunForInit
  <2>2. initPc' \in [Runs -> [Attempts -> InitPcs]]
    BY <2>1 DEF InitGoes
  <2> QED
    BY <1>8, <2>2 DEF ReadRunForInit
<1>9. ASSUME NEW r \in Runs, NEW i \in Attempts, SetRunning(r, i)
      PROVE  TypeOK'
  BY <1>9 DEF SetRunning, InitGoes
<1>10. ASSUME NEW r \in Runs, NEW i \in Attempts, InitDies(r, i)
      PROVE  TypeOK'
  BY <1>10 DEF InitDies, InitOpen
<1>11. ASSUME NEW r \in Runs, NEW i \in Attempts, ResendInit(r, i)
      PROVE  TypeOK'
  BY <1>11 DEF ResendInit, InitGoes
<1>12. ASSUME NEW r \in Runs, NEW i \in Attempts, ReceiveToken(r, i)
      PROVE  TypeOK'
  BY <1>12 DEF ReceiveToken, ExecutorGoes
<1>13. ASSUME NEW r \in Runs, NEW i \in Attempts, InitFails(r, i)
      PROVE  TypeOK'
  BY <1>13 DEF InitFails, ExecutorGoes
<1>14. ASSUME NEW r \in Runs, SendInit(r)
      PROVE  TypeOK'
  BY <1>14, ConstantsOK DEF SendInit, InitGoes, ExecutorGoes, Attempts
<1>15. ASSUME NEW r \in Runs, FetchJob(r)
      PROVE  TypeOK'
  BY <1>15 DEF FetchJob, ExecutorGoes
<1>16. ASSUME NEW r \in Runs, Work(r)
      PROVE  TypeOK'
  BY <1>16 DEF Work, ExecutorGoes
<1>17. ASSUME NEW r \in Runs, SendError(r)
      PROVE  TypeOK'
  BY <1>17 DEF SendError, ExecutorGoes
<1>18. ASSUME NEW r \in Runs, NEW s \in Outcomes, SendDone(r, s)
      PROVE  TypeOK'
  <2>1. /\ executor' \in [Runs -> ExecutorPcs]
        /\ UNCHANGED <<runJob, runStatus, runErrors, startPc, startRun, initPc, unreported,
                       errorsRead>>
    BY <1>18 DEF SendDone, ExecutorGoes
  <2>2. /\ doneRows' \in [Runs -> SUBSET Outcomes]
        /\ outcome' \in [Runs -> Outcomes \cup {"none"}]
        /\ completion' \in [Runs -> CompletionPcs]
    <3>1. CASE s \notin doneRows[r]
      <4>1. doneRows' = [doneRows EXCEPT ![r] = doneRows[r] \cup {s}]
        BY <1>18, <3>1 DEF SendDone
      <4>2. doneRows[r] \cup {s} \in SUBSET Outcomes
        OBVIOUS
      <4> QED
        BY <1>18, <3>1, <4>1, <4>2 DEF SendDone
    <3>2. CASE s \in doneRows[r]
      BY <1>18, <3>2 DEF SendDone
    <3> QED
      BY <3>1, <3>2
  <2> QED
    BY <2>1, <2>2
<1>19. ASSUME NEW r \in Runs, LoseDone(r)
      PROVE  TypeOK'
  BY <1>19 DEF LoseDone
<1>20. ASSUME NEW r \in Runs, Killed(r)
      PROVE  TypeOK'
  BY <1>20 DEF Killed
<1>21. ASSUME NEW r \in Runs, SetTerminalStatus(r)
      PROVE  TypeOK'
  BY <1>21, TerminalStatusType DEF SetTerminalStatus, CompletionGoes
<1>22. ASSUME NEW r \in Runs, SaveOutputFiles(r)
      PROVE  TypeOK'
  BY <1>22 DEF SaveOutputFiles, CompletionGoes
<1>23. ASSUME NEW r \in Runs, EmitRunComplete(r)
      PROVE  TypeOK'
  BY <1>23 DEF EmitRunComplete, CompletionGoes
<1>24. ASSUME NEW r \in Runs, CompletionDies(r)
      PROVE  TypeOK'
  BY <1>24 DEF CompletionDies
<1>25. CASE UNCHANGED vars
  BY <1>25 DEF vars
<1> QED
  BY <1>1, <1>2, <1>3, <1>4, <1>5, <1>6, <1>7, <1>8, <1>9, <1>10, <1>11, <1>12, <1>13, <1>14, <1>15, <1>16, <1>17, <1>18, <1>19, <1>20, <1>21, <1>22, <1>23, <1>24, <1>25 DEF Next, StartStep, InitStep, RunStep

(* The first state is well typed.                                           *)
LEMMA TypeInit == Init => TypeOK
BY ConstantsOK DEF Init, TypeOK, StartPcs, InitPcs, ExecutorPcs, CompletionPcs, StartOpen,
   InitOpen, CompletionOpen, Outcomes, Rows!RunStatus, Rows!Unfinished, Rows!Terminal

(* The variables of RunLifecycle keep their types.                          *)
THEOREM TypeCorrect == Spec => []TypeOK
BY TypeInit, TypePreserved, PTL DEF Spec

-----------------------------------------------------------------------------
(* Part 1: whatever the environment does.                                   *)

(* Every step keeps EndInv: the "done" row is there before the status says  *)
(* so, and a token before the work.                                         *)
LEMMA EndInvPreserved ==
  EndInv /\ [Next]_vars => EndInv'
<1> SUFFICES ASSUME EndInv, [Next]_vars PROVE EndInv'
  OBVIOUS
<1>0. TypeOK /\ TypeOK'
  BY TypePreserved DEF EndInv
<1> DEFINE Goal == OwnedByItsStart' /\ ProcessesFollowRows' /\ EndIsRecorded' /\ SuccessIsReported'
<1> USE <1>0 DEF EndInv, TypeOK, StartOpen, LetIn, Granted, Outcomes, rowVars, doneVars
<1>1. ASSUME NEW q \in Starts, CheckInProgress(q)
      PROVE  Goal
  BY <1>1 DEF CheckInProgress, StartGoes,
     OwnedByItsStart, ProcessesFollowRows, EndIsRecorded, SuccessIsReported
<1>2. ASSUME NEW q \in Starts, NEW r \in Runs, CreateRun(q, r)
      PROVE  Goal
  BY <1>2 DEF CreateRun, StartGoes,
     OwnedByItsStart, ProcessesFollowRows, EndIsRecorded, SuccessIsReported
<1>3. ASSUME NEW q \in Starts, LaunchExecutor(q)
      PROVE  Goal
  BY <1>3 DEF LaunchExecutor, StartGoes,
     OwnedByItsStart, ProcessesFollowRows, EndIsRecorded, SuccessIsReported
<1>4. ASSUME NEW q \in Starts, LaunchThrows(q)
      PROVE  Goal
  BY <1>4 DEF LaunchThrows, StartGoes,
     OwnedByItsStart, ProcessesFollowRows, EndIsRecorded, SuccessIsReported
<1>5. ASSUME NEW q \in Starts, LaunchThrowsLate(q)
      PROVE  Goal
  BY <1>5 DEF LaunchThrowsLate, StartGoes,
     OwnedByItsStart, ProcessesFollowRows, EndIsRecorded, SuccessIsReported
<1>6. ASSUME NEW q \in Starts, RecordLaunchFailure(q)
      PROVE  Goal
  BY <1>6 DEF RecordLaunchFailure, StartGoes, LaunchFailureRows,
     OwnedByItsStart, ProcessesFollowRows, EndIsRecorded, SuccessIsReported
<1>7. ASSUME NEW q \in Starts, StartDies(q)
      PROVE  Goal
  BY <1>7 DEF StartDies, StartOpen,
     OwnedByItsStart, ProcessesFollowRows, EndIsRecorded, SuccessIsReported
<1>8. ASSUME NEW r \in Runs, NEW i \in Attempts, ReadRunForInit(r, i)
      PROVE  Goal
  <2>1. PICK pc \in {"read_new", "refused"} : InitGoes(r, i, "received", pc)
    BY <1>8, Zenon DEF ReadRunForInit
  <2>2. UNCHANGED <<rowVars, startPc, startRun, executor, doneVars>>
    BY <1>8 DEF ReadRunForInit
  <2>3. \A x \in Runs : Granted(x) => Granted(x)'
    BY <2>1 DEF InitGoes
  <2>4. OwnedByItsStart'
    BY <2>2 DEF OwnedByItsStart
  <2>5. ProcessesFollowRows'
    BY <2>2, <2>3 DEF ProcessesFollowRows
  <2> QED
    BY <2>2, <2>4, <2>5 DEF EndIsRecorded, SuccessIsReported
<1>9. ASSUME NEW r \in Runs, NEW i \in Attempts, SetRunning(r, i)
      PROVE  Goal
  BY <1>9 DEF SetRunning, InitGoes,
     OwnedByItsStart, ProcessesFollowRows, EndIsRecorded, SuccessIsReported
<1>10. ASSUME NEW r \in Runs, NEW i \in Attempts, InitDies(r, i)
      PROVE  Goal
  BY <1>10 DEF InitDies, InitOpen,
     OwnedByItsStart, ProcessesFollowRows, EndIsRecorded, SuccessIsReported
<1>11. ASSUME NEW r \in Runs, NEW i \in Attempts, ResendInit(r, i)
      PROVE  Goal
  BY <1>11 DEF ResendInit, InitGoes,
     OwnedByItsStart, ProcessesFollowRows, EndIsRecorded, SuccessIsReported
<1>12. ASSUME NEW r \in Runs, NEW i \in Attempts, ReceiveToken(r, i)
      PROVE  Goal
  BY <1>12 DEF ReceiveToken, ExecutorGoes,
     OwnedByItsStart, ProcessesFollowRows, EndIsRecorded, SuccessIsReported
<1>13. ASSUME NEW r \in Runs, NEW i \in Attempts, InitFails(r, i)
      PROVE  Goal
  BY <1>13 DEF InitFails, ExecutorGoes,
     OwnedByItsStart, ProcessesFollowRows, EndIsRecorded, SuccessIsReported
<1>14. ASSUME NEW r \in Runs, SendInit(r)
      PROVE  Goal
  BY <1>14 DEF SendInit, InitGoes, ExecutorGoes,
     OwnedByItsStart, ProcessesFollowRows, EndIsRecorded, SuccessIsReported
<1>15. ASSUME NEW r \in Runs, FetchJob(r)
      PROVE  Goal
  BY <1>15 DEF FetchJob, ExecutorGoes,
     OwnedByItsStart, ProcessesFollowRows, EndIsRecorded, SuccessIsReported
<1>16. ASSUME NEW r \in Runs, Work(r)
      PROVE  Goal
  BY <1>16 DEF Work, ExecutorGoes,
     OwnedByItsStart, ProcessesFollowRows, EndIsRecorded, SuccessIsReported
<1>17. ASSUME NEW r \in Runs, SendError(r)
      PROVE  Goal
  BY <1>17 DEF SendError, ExecutorGoes,
     OwnedByItsStart, ProcessesFollowRows, EndIsRecorded, SuccessIsReported
<1>18. ASSUME NEW r \in Runs, NEW s \in Outcomes, SendDone(r, s)
      PROVE  Goal
  <2>1. /\ executor[r] \in {"reported", "succeeded"}
        /\ executor' = [executor EXCEPT ![r] = "exited"]
        /\ UNCHANGED <<runStatus, startPc, startRun, initPc>>
    BY <1>18 DEF SendDone, ExecutorGoes, DoneFrom
  <2>2. OwnedByItsStart'
    BY <2>1 DEF OwnedByItsStart
  <2>3. Granted(r) /\ outcome[r] = "none" /\ completion[r] = "none" /\ runStatus[r] # "success"
    BY <2>1 DEF ProcessesFollowRows, SuccessIsReported
  <2>4. CASE s \notin doneRows[r]
    <3>1. /\ doneRows' = [doneRows EXCEPT ![r] = @ \cup {s}]
          /\ outcome' = [outcome EXCEPT ![r] = s]
          /\ completion' = [completion EXCEPT ![r] = "inserted"]
      BY <1>18, <2>4 DEF SendDone
    <3>2. s \in doneRows'[r] /\ s # "none"
      BY <3>1
    <3>3. ProcessesFollowRows'
      BY <2>1, <2>3, <3>1, <3>2 DEF ProcessesFollowRows
    <3>4. SuccessIsReported' /\ EndIsRecorded'
      BY <2>1, <2>3, <3>1 DEF SuccessIsReported, EndIsRecorded
    <3> QED
      BY <2>2, <3>3, <3>4
  <2>5. CASE s \in doneRows[r]
    <3>1. UNCHANGED <<doneRows, outcome, completion>>
      BY <1>18, <2>5 DEF SendDone
    <3> QED
      BY <2>1, <2>2, <3>1 DEF ProcessesFollowRows, SuccessIsReported, EndIsRecorded
  <2> QED
    BY <2>4, <2>5
<1>19. ASSUME NEW r \in Runs, LoseDone(r)
      PROVE  Goal
  BY <1>19 DEF LoseDone,
     OwnedByItsStart, ProcessesFollowRows, EndIsRecorded, SuccessIsReported
<1>20. ASSUME NEW r \in Runs, Killed(r)
      PROVE  Goal
  BY <1>20 DEF Killed,
     OwnedByItsStart, ProcessesFollowRows, EndIsRecorded, SuccessIsReported
<1>21. ASSUME NEW r \in Runs, SetTerminalStatus(r)
      PROVE  Goal
  BY <1>21 DEF SetTerminalStatus, CompletionGoes, TerminalStatus,
     OwnedByItsStart, ProcessesFollowRows, EndIsRecorded, SuccessIsReported
<1>22. ASSUME NEW r \in Runs, SaveOutputFiles(r)
      PROVE  Goal
  BY <1>22 DEF SaveOutputFiles, CompletionGoes,
     OwnedByItsStart, ProcessesFollowRows, EndIsRecorded, SuccessIsReported
<1>23. ASSUME NEW r \in Runs, EmitRunComplete(r)
      PROVE  Goal
  BY <1>23 DEF EmitRunComplete, CompletionGoes,
     OwnedByItsStart, ProcessesFollowRows, EndIsRecorded, SuccessIsReported
<1>24. ASSUME NEW r \in Runs, CompletionDies(r)
      PROVE  Goal
  BY <1>24 DEF CompletionDies, CompletionOpen,
     OwnedByItsStart, ProcessesFollowRows, EndIsRecorded, SuccessIsReported
<1>25. CASE UNCHANGED vars
  BY <1>25 DEF vars, OwnedByItsStart, ProcessesFollowRows, EndIsRecorded, SuccessIsReported
<1> QED
  BY <1>1, <1>2, <1>3, <1>4, <1>5, <1>6, <1>7, <1>8, <1>9, <1>10, <1>11, <1>12, <1>13, <1>14, <1>15, <1>16, <1>17, <1>18, <1>19, <1>20, <1>21, <1>22, <1>23, <1>24, <1>25 DEF Next, StartStep, InitStep, RunStep

(* EndInv holds from the start.                                             *)
LEMMA EndInvInvariant == Spec => []EndInv
<1>1. Init => TypeOK
  BY TypeInit
<1>2. Init => EndInv
  BY <1>1, ConstantsOK DEF Init, EndInv, OwnedByItsStart, ProcessesFollowRows, EndIsRecorded,
     SuccessIsReported, LetIn
<1> QED
  BY <1>2, EndInvPreserved, PTL DEF Spec

(* Whatever the environment does, a run is "success" or "error" only if the *)
(* run_update table holds the matching "done" row.                          *)
THEOREM EndsAreRecorded == Spec => []EndIsRecorded
<1>1. EndInv => EndIsRecorded
  BY DEF EndInv
<1> QED
  BY <1>1, EndInvInvariant, PTL

(* Whatever the environment does, a run is a success only after its own     *)
(* executor was let in, worked, and reported success.                       *)
THEOREM SuccessesAreEarned == Spec => []SuccessIsEarned
<1>1. EndInv => SuccessIsEarned
  BY DEF EndInv, TypeOK, ProcessesFollowRows, SuccessIsReported, SuccessIsEarned, Granted
<1> QED
  BY <1>1, EndInvInvariant, PTL

(* Every step that makes an error of a run, or comes before one, has seen   *)
(* the row that explains it, or the report get lost.                        *)
ErrorsExplained ==
  \A r \in Runs :
    /\ executor[r] = "reported" => runErrors[r] # {} \/ r \in unreported
    /\ outcome[r] = "failure" => runErrors[r] # {} \/ r \in unreported
    /\ runStatus[r] = "error" => runErrors[r] # {} \/ r \in unreported

LEMMA ErrorsExplainedPreserved ==
  ASSUME EndInv, ErrorsExplained, [Next]_vars
  PROVE  ErrorsExplained'
<1>0. TypeOK /\ OwnedByItsStart /\ ProcessesFollowRows
  BY DEF EndInv
<1> USE <1>0 DEF TypeOK, Outcomes, rowVars, doneVars, ErrorsExplained
<1>1. ASSUME NEW q \in Starts, CheckInProgress(q)
      PROVE  ErrorsExplained'
  BY <1>1 DEF CheckInProgress, StartGoes
<1>2. ASSUME NEW q \in Starts, NEW r \in Runs, CreateRun(q, r)
      PROVE  ErrorsExplained'
  BY <1>2 DEF CreateRun, StartGoes
<1>3. ASSUME NEW q \in Starts, LaunchExecutor(q)
      PROVE  ErrorsExplained'
  BY <1>3 DEF LaunchExecutor, StartGoes
<1>4. ASSUME NEW q \in Starts, LaunchThrows(q)
      PROVE  ErrorsExplained'
  BY <1>4 DEF LaunchThrows, StartGoes
<1>5. ASSUME NEW q \in Starts, LaunchThrowsLate(q)
      PROVE  ErrorsExplained'
  BY <1>5 DEF LaunchThrowsLate, StartGoes
<1>6. ASSUME NEW q \in Starts, RecordLaunchFailure(q)
      PROVE  ErrorsExplained'
  BY <1>6 DEF RecordLaunchFailure, StartGoes, OwnedByItsStart
<1>7. ASSUME NEW q \in Starts, StartDies(q)
      PROVE  ErrorsExplained'
  BY <1>7 DEF StartDies
<1>8. ASSUME NEW r \in Runs, NEW i \in Attempts, ReadRunForInit(r, i)
      PROVE  ErrorsExplained'
  BY <1>8 DEF ReadRunForInit, InitGoes
<1>9. ASSUME NEW r \in Runs, NEW i \in Attempts, SetRunning(r, i)
      PROVE  ErrorsExplained'
  BY <1>9 DEF SetRunning, InitGoes
<1>10. ASSUME NEW r \in Runs, NEW i \in Attempts, InitDies(r, i)
      PROVE  ErrorsExplained'
  BY <1>10 DEF InitDies
<1>11. ASSUME NEW r \in Runs, NEW i \in Attempts, ResendInit(r, i)
      PROVE  ErrorsExplained'
  BY <1>11 DEF ResendInit, InitGoes
<1>12. ASSUME NEW r \in Runs, NEW i \in Attempts, ReceiveToken(r, i)
      PROVE  ErrorsExplained'
  BY <1>12 DEF ReceiveToken, ExecutorGoes
<1>13. ASSUME NEW r \in Runs, NEW i \in Attempts, InitFails(r, i)
      PROVE  ErrorsExplained'
  BY <1>13 DEF InitFails, ExecutorGoes
<1>14. ASSUME NEW r \in Runs, SendInit(r)
      PROVE  ErrorsExplained'
  BY <1>14 DEF SendInit, ExecutorGoes, InitGoes
<1>15. ASSUME NEW r \in Runs, FetchJob(r)
      PROVE  ErrorsExplained'
  BY <1>15 DEF FetchJob, ExecutorGoes
<1>16. ASSUME NEW r \in Runs, Work(r)
      PROVE  ErrorsExplained'
  BY <1>16 DEF Work, ExecutorGoes
<1>17. ASSUME NEW r \in Runs, SendError(r)
      PROVE  ErrorsExplained'
  <2>1. /\ runErrors'[r] # {} \/ r \in unreported'
        /\ \A x \in Runs \ {r} : /\ runErrors'[x] = runErrors[x]
                                 /\ x \in unreported' <=> x \in unreported
    <3>1. CASE runErrors' = [runErrors EXCEPT ![r] = @ \cup {"executor"}] /\ UNCHANGED unreported
      BY <3>1
    <3>2. CASE unreported' = unreported \cup {r} /\ UNCHANGED runErrors
      BY <3>2
    <3> QED
      BY <1>17, <3>1, <3>2 DEF SendError
  <2>2. /\ executor' = [executor EXCEPT ![r] = "reported"]
        /\ UNCHANGED <<outcome, runStatus>>
    BY <1>17 DEF SendError, ExecutorGoes
  <2> QED
    BY <2>1, <2>2
<1>18. ASSUME NEW r \in Runs, NEW s \in Outcomes, SendDone(r, s)
      PROVE  ErrorsExplained'
  BY <1>18 DEF SendDone, ExecutorGoes, DoneFrom
<1>19. ASSUME NEW r \in Runs, LoseDone(r)
      PROVE  ErrorsExplained'
  BY <1>19 DEF LoseDone
<1>20. ASSUME NEW r \in Runs, Killed(r)
      PROVE  ErrorsExplained'
  BY <1>20 DEF Killed
<1>21. ASSUME NEW r \in Runs, SetTerminalStatus(r)
      PROVE  ErrorsExplained'
  BY <1>21 DEF SetTerminalStatus, CompletionGoes, TerminalStatus, ProcessesFollowRows
<1>22. ASSUME NEW r \in Runs, SaveOutputFiles(r)
      PROVE  ErrorsExplained'
  BY <1>22 DEF SaveOutputFiles, CompletionGoes
<1>23. ASSUME NEW r \in Runs, EmitRunComplete(r)
      PROVE  ErrorsExplained'
  BY <1>23 DEF EmitRunComplete, CompletionGoes
<1>24. ASSUME NEW r \in Runs, CompletionDies(r)
      PROVE  ErrorsExplained'
  BY <1>24 DEF CompletionDies
<1>25. ASSUME UNCHANGED vars
       PROVE  ErrorsExplained'
  BY <1>25 DEF vars
<1> HIDE <1>0 DEF TypeOK, Outcomes, rowVars, doneVars, ErrorsExplained
<1> QED
  BY <1>1, <1>2, <1>3, <1>4, <1>5, <1>6, <1>7, <1>8, <1>9, <1>10, <1>11, <1>12, <1>13, <1>14, <1>15, <1>16, <1>17, <1>18, <1>19, <1>20, <1>21, <1>22, <1>23, <1>24, <1>25 DEF Next, StartStep, InitStep, RunStep

(* Whatever the environment does, a failed run has a row that says why, or  *)
(* its executor's report was lost or could not be made.                     *)
THEOREM FailuresAreExplained == Spec => []FailureIsExplained
<1>1. Init => ErrorsExplained
  BY DEF Init, ErrorsExplained
<1>2. ErrorsExplained /\ EndInv /\ [Next]_vars => ErrorsExplained'
  BY ErrorsExplainedPreserved
<1>3. ErrorsExplained => FailureIsExplained
  BY DEF ErrorsExplained, FailureIsExplained
<1> QED
  BY <1>1, <1>2, <1>3, EndInvInvariant, PTL DEF Spec

-----------------------------------------------------------------------------
(* What is used of an executor.                                             *)

(* A step of a run's executor is a step of its ExecutorReport; steps of     *)
(* other runs, and those of the run's other processes, are none.            *)
LEMMA StepsOfExecutorReport ==
  ASSUME EndInv, [Next]_vars, NEW r \in Runs
  PROVE  [Report(r)!Next]_(Report(r)!vars)
<1>0. TypeOK /\ OwnedByItsStart /\ ProcessesFollowRows
  BY DEF EndInv
<1> DEFINE
  Phase == IF executor[r] \in {"failed", "reported", "succeeded", "exited"}
             THEN executor[r] ELSE "working"
  Reported == "executor" \in runErrors[r]
  Same == Phase' = Phase /\ Reported' = Reported /\ outcome'[r] = outcome[r]
<1>1. Same => UNCHANGED Report(r)!vars
  BY DEF Report!vars
<1>2. CASE UNCHANGED <<executor, runErrors, outcome>>
  BY <1>1, <1>2
<1>3. ASSUME NEW q \in Starts, LaunchExecutor(q) \/ LaunchThrowsLate(q)
      PROVE  Same
  <2>1. startRun[q] \in Runs /\ executor[startRun[q]] = "absent"
    BY <1>0, <1>3 DEF LaunchExecutor, LaunchThrowsLate, StartGoes, OwnedByItsStart
  <2>2. executor' = [executor EXCEPT ![startRun[q]] = "booting"]
        /\ UNCHANGED <<runErrors, outcome>>
    BY <1>3 DEF LaunchExecutor, LaunchThrowsLate, rowVars, doneVars
  <2> QED
    BY <1>0, <2>1, <2>2 DEF TypeOK
<1>4. ASSUME NEW q \in Starts, RecordLaunchFailure(q)
      PROVE  Same
  BY <1>0, <1>4 DEF RecordLaunchFailure, TypeOK, doneVars
<1>5. ASSUME NEW p \in Runs, NEW from, NEW to, ExecutorGoes(p, from, to)
      PROVE  /\ p # r => Phase' = Phase
             /\ p = r => executor[r] = from /\ executor'[r] = to
  BY <1>0, <1>5 DEF ExecutorGoes, TypeOK
<1>6. ASSUME NEW p \in Runs, SendInit(p)
      PROVE  Same
  BY <1>5, <1>6 DEF SendInit, rowVars, doneVars
<1>7. ASSUME NEW p \in Runs, NEW i \in Attempts, ReceiveToken(p, i)
      PROVE  Same
  BY <1>5, <1>7 DEF ReceiveToken, rowVars, doneVars
<1>8. ASSUME NEW p \in Runs, NEW i \in Attempts, InitFails(p, i)
      PROVE  Same \/ Report(r)!Quit
  BY <1>5, <1>8 DEF InitFails, rowVars, doneVars, Report!Quit
<1>9. ASSUME NEW p \in Runs, FetchJob(p)
      PROVE  Same \/ Report(r)!Quit
  BY <1>5, <1>9 DEF FetchJob, rowVars, doneVars, Report!Quit
<1>10. ASSUME NEW p \in Runs, Work(p)
       PROVE  Same \/ Report(r)!EndWork
  BY <1>5, <1>10 DEF Work, rowVars, doneVars, Report!EndWork
<1>11. ASSUME NEW p \in Runs, SendError(p)
       PROVE  Same \/ Report(r)!SendError
  BY <1>0, <1>5, <1>11 DEF SendError, TypeOK, doneVars, Report!SendError
<1>12. ASSUME NEW p \in Runs, NEW s \in Outcomes, SendDone(p, s)
       PROVE  Same \/ Report(r)!SendDone(s)
  <2>1. ExecutorGoes(p, DoneFrom(s), "exited") /\ UNCHANGED runErrors
    BY <1>12 DEF SendDone
  <2>2. outcome' = outcome \/ outcome' = [outcome EXCEPT ![p] = s]
    BY <1>12 DEF SendDone
  <2>3. CASE p # r
    BY <1>0, <1>5, <2>1, <2>2, <2>3 DEF TypeOK
  <2>4. CASE p = r
    <3>1. executor[r] = DoneFrom(s) /\ executor'[r] = "exited"
      BY <1>5, <2>1, <2>4
    <3>2. outcome[r] = "none"
      BY <1>0, <3>1 DEF ProcessesFollowRows, DoneFrom
    <3>3. outcome'[r] \in {s, "none"}
      BY <1>0, <2>2, <2>4, <3>2 DEF TypeOK
    <3> QED
      BY <2>1, <3>1, <3>3 DEF DoneFrom, Report!SendDone
  <2> QED
    BY <2>3, <2>4
<1>13. ASSUME NEW p \in Runs, LoseDone(p)
       PROVE  Same \/ Report(r)!Quit
  BY <1>0, <1>13 DEF LoseDone, TypeOK, rowVars, doneVars, Report!Quit
<1>14. ASSUME NEW p \in Runs, Killed(p)
       PROVE  Same \/ Report(r)!Quit
  BY <1>0, <1>14 DEF Killed, TypeOK, rowVars, doneVars, Report!Quit
<1>15. \/ UNCHANGED <<executor, runErrors, outcome>>
       \/ \E q \in Starts : LaunchExecutor(q) \/ LaunchThrowsLate(q) \/ RecordLaunchFailure(q)
       \/ \E p \in Runs, i \in Attempts : ReceiveToken(p, i) \/ InitFails(p, i)
       \/ \E p \in Runs : \/ SendInit(p) \/ FetchJob(p) \/ Work(p) \/ SendError(p)
                          \/ \E s \in Outcomes : SendDone(p, s)
                          \/ LoseDone(p) \/ Killed(p)
  BY DEF Next, vars, rowVars, doneVars, StartStep, InitStep, RunStep, CheckInProgress, CreateRun,
     LaunchThrows, StartDies, ReadRunForInit, SetRunning, InitDies, ResendInit,
     SetTerminalStatus, SaveOutputFiles, EmitRunComplete, CompletionDies
<1>16. \/ Report(r)!Quit \/ Report(r)!EndWork \/ Report(r)!SendError
       \/ \E s \in Outcomes : Report(r)!SendDone(s)
       => Report(r)!Next
  BY DEF Report!Next, Report!Outcomes, Outcomes
<1> HIDE DEF Same
<1> QED
  BY <1>1, <1>2, <1>3, <1>4, <1>6, <1>7, <1>8, <1>9, <1>10, <1>11, <1>12, <1>13, <1>14,
     <1>15, <1>16

(* Whatever happens, the lifecycle uses of an executor only what            *)
(* ExecutorReport promises, which Executor keeps.                           *)
THEOREM ExecutorsKeepToTheirReport == Spec => ExecutorsReport
<1>1. Init => \A r \in Runs : Report(r)!Init
  BY DEF Init, Report!Init
<1>2. EndInv /\ [Next]_vars => [\A r \in Runs : [Report(r)!Next]_(Report(r)!vars)]_vars
  BY StepsOfExecutorReport
<1> QED
  BY <1>1, <1>2, EndInvInvariant, PTL DEF Spec, ExecutorsReport

-----------------------------------------------------------------------------
(* Part 2: handlers do not overlap.                                         *)

(* Every step keeps OrderInv: the one handler that may write a run's status *)
(* next has read a value that still holds.                                  *)
LEMMA OrderInvPreserved ==
  ASSUME Orderly, OrderInv, [Next]_vars
  PROVE  OrderInv'
<1>0. /\ EndInv' /\ TypeOK /\ TypeOK'
      /\ OwnedByItsStart /\ ProcessesFollowRows
      /\ StartsInTurn /\ InitsInTurn /\ StatusFollowsExecutor /\ OneUnfinishedRun
  BY EndInvPreserved DEF OrderInv, EndInv
<1> DEFINE Goal == StartsInTurn' /\ InitsInTurn' /\ StatusFollowsExecutor' /\ OneUnfinishedRun'
<1> USE <1>0 DEF TypeOK, StartOpen, InitOpen, LetIn, Outcomes, rowVars, doneVars,
     Unfinished, Rows!Unfinished, Rows!UnfinishedRuns, OneUnfinishedRun, Rows!OneUnfinishedRun
<1>1. ASSUME NEW q \in Starts, CheckInProgress(q)
      PROVE  Goal
  BY <1>1, Orderly DEF Orderly, CheckInProgress, StartGoes,
     OpenStarts, InProgress, StartsInTurn, InitsInTurn, StatusFollowsExecutor
<1>2. ASSUME NEW q \in Starts, NEW r \in Runs, CreateRun(q, r)
      PROVE  Goal
  <2>1. StartsInTurn'
    BY <1>2 DEF CreateRun, StartGoes, StartsInTurn, OwnedByItsStart, ProcessesFollowRows, InitsInTurn
  <2>2. InitsInTurn'
    BY <1>2 DEF CreateRun, StartGoes, InitsInTurn, ProcessesFollowRows, StartsInTurn, StatusFollowsExecutor
  <2>3. StatusFollowsExecutor'
    BY <1>2 DEF CreateRun, StartGoes, StatusFollowsExecutor, ProcessesFollowRows, StartsInTurn, InitsInTurn
  <2>4. OneUnfinishedRun'
    BY <1>2 DEF CreateRun, StartGoes, StartsInTurn, StatusFollowsExecutor, ProcessesFollowRows, InitsInTurn
  <2> QED
    BY <2>1, <2>2, <2>3, <2>4
<1>3. ASSUME NEW q \in Starts, LaunchExecutor(q)
      PROVE  Goal
  <2>1. StartsInTurn'
    BY <1>3 DEF LaunchExecutor, StartGoes, StartsInTurn, OwnedByItsStart, ProcessesFollowRows, InitsInTurn
  <2>2. InitsInTurn'
    BY <1>3 DEF LaunchExecutor, StartGoes, InitsInTurn, ProcessesFollowRows, StartsInTurn, StatusFollowsExecutor
  <2>3. StatusFollowsExecutor'
    BY <1>3 DEF LaunchExecutor, StartGoes, StatusFollowsExecutor, ProcessesFollowRows, StartsInTurn, InitsInTurn
  <2>4. OneUnfinishedRun'
    BY <1>3 DEF LaunchExecutor, StartGoes, StartsInTurn, StatusFollowsExecutor, ProcessesFollowRows, InitsInTurn
  <2> QED
    BY <2>1, <2>2, <2>3, <2>4
<1>4. ASSUME NEW q \in Starts, LaunchThrows(q)
      PROVE  Goal
  BY <1>4 DEF LaunchThrows, StartGoes,
     StartsInTurn, InitsInTurn, StatusFollowsExecutor
<1>5. ASSUME NEW q \in Starts, LaunchThrowsLate(q)
      PROVE  Goal
  BY <1>5, Orderly DEF Orderly, LaunchThrowsLate, StartGoes,
     StartsInTurn, InitsInTurn, StatusFollowsExecutor
<1>6. ASSUME NEW q \in Starts, RecordLaunchFailure(q)
      PROVE  Goal
  <2>1. StartsInTurn'
    BY <1>6 DEF RecordLaunchFailure, StartGoes, StartsInTurn, OwnedByItsStart, ProcessesFollowRows, InitsInTurn
  <2>2. InitsInTurn'
    BY <1>6 DEF RecordLaunchFailure, StartGoes, InitsInTurn, ProcessesFollowRows, StartsInTurn, StatusFollowsExecutor
  <2>3. StatusFollowsExecutor'
    BY <1>6 DEF RecordLaunchFailure, StartGoes, StatusFollowsExecutor, ProcessesFollowRows, StartsInTurn, InitsInTurn
  <2>4. OneUnfinishedRun'
    BY <1>6 DEF RecordLaunchFailure, StartGoes, StartsInTurn, StatusFollowsExecutor, ProcessesFollowRows, InitsInTurn
  <2> QED
    BY <2>1, <2>2, <2>3, <2>4
<1>7. ASSUME NEW q \in Starts, StartDies(q)
      PROVE  Goal
  BY <1>7 DEF StartDies, StartOpen,
     StartsInTurn, InitsInTurn, StatusFollowsExecutor
<1>8. ASSUME NEW r \in Runs, NEW i \in Attempts, ReadRunForInit(r, i)
      PROVE  Goal
  <2>1. UNCHANGED <<rowVars, startPc, startRun, executor, doneVars>>
    BY <1>8 DEF ReadRunForInit
  <2>2. CASE TokenUnused(r) /\ InitGoes(r, i, "received", "read_new")
    BY <2>1, <2>2 DEF TokenUnused, InitGoes, StartsInTurn, InitsInTurn, StatusFollowsExecutor
  <2>3. CASE InitGoes(r, i, "received", "refused")
    BY <2>1, <2>3 DEF InitGoes, StartsInTurn, InitsInTurn, StatusFollowsExecutor
  <2> QED
    BY <1>8, <2>2, <2>3 DEF ReadRunForInit
<1>9. ASSUME NEW r \in Runs, NEW i \in Attempts, SetRunning(r, i)
      PROVE  Goal
  <2>1. StartsInTurn'
    BY <1>9 DEF SetRunning, InitGoes, StartsInTurn, OwnedByItsStart, ProcessesFollowRows, InitsInTurn
  <2>2. InitsInTurn'
    <3>1. \A k \in Attempts \ {i} : i < k \/ k < i
      BY ConstantsOK DEF Attempts
    <3>2. ASSUME NEW k \in Attempts \ {i}, initPc[r][k] = "read_new"
          PROVE  FALSE
      <4>1. initPc[r][i] = "read_new"
        BY <1>9 DEF SetRunning, InitGoes
      <4>2. CASE i < k
        BY <3>2, <4>1, <4>2 DEF InitsInTurn
      <4>3. CASE k < i
        BY <3>2, <4>1, <4>3 DEF InitsInTurn
      <4> QED
        BY <3>1, <4>2, <4>3
    <3>3. \A x \in Runs, k \in Attempts :
            initPc'[x][k] = IF x = r /\ k = i THEN "granted" ELSE initPc[x][k]
      BY <1>9 DEF SetRunning, InitGoes
    <3>4. executor[r] \notin {"absent", "booting"}
      BY <1>9 DEF SetRunning, InitGoes, InitsInTurn
    <3> QED
      BY <1>9, <3>2, <3>3, <3>4 DEF SetRunning, InitGoes, InitsInTurn
  <2>3. StatusFollowsExecutor'
    BY <1>9 DEF SetRunning, InitGoes, StatusFollowsExecutor, ProcessesFollowRows, StartsInTurn, InitsInTurn
  <2>4. OneUnfinishedRun'
    BY <1>9 DEF SetRunning, InitGoes, StartsInTurn, StatusFollowsExecutor, ProcessesFollowRows, InitsInTurn
  <2> QED
    BY <2>1, <2>2, <2>3, <2>4
<1>10. ASSUME NEW r \in Runs, NEW i \in Attempts, InitDies(r, i)
      PROVE  Goal
  BY <1>10 DEF InitDies, InitOpen,
     StartsInTurn, InitsInTurn, StatusFollowsExecutor
<1>11. ASSUME NEW r \in Runs, NEW i \in Attempts, ResendInit(r, i)
      PROVE  Goal
  <2>1. StartsInTurn'
    BY <1>11 DEF ResendInit, InitGoes, LastAttempt, Unsent, Attempts, StartsInTurn, OwnedByItsStart, ProcessesFollowRows, InitsInTurn
  <2>2. InitsInTurn'
    <3>1. /\ i + 1 \in Attempts
          /\ initPc[r][i] \notin InitOpen \cup {"unsent"}
          /\ \A k \in Attempts : k > i => initPc[r][k] = "unsent"
      BY <1>11, Orderly DEF Orderly, ResendInit, LastAttempt, Unsent
    <3>2. \A k \in Attempts : k < i => initPc[r][k] \notin InitOpen \cup {"unsent"}
      BY <3>1 DEF InitsInTurn
    <3>3. \A k \in Attempts : k < i \/ k = i \/ k > i
      BY ConstantsOK DEF Attempts
    <3>4. \A k \in Attempts : k < i + 1 => k < i \/ k = i
      BY ConstantsOK DEF Attempts
    <3>5. \A x \in Runs, k \in Attempts :
            initPc'[x][k] = IF x = r /\ k = i + 1 THEN "received" ELSE initPc[x][k]
      BY <1>11, <3>1 DEF ResendInit, InitGoes
    <3>6. \A k, m \in Attempts :
            k < m /\ initPc'[r][m] # "unsent" => initPc'[r][k] \notin InitOpen \cup {"unsent"}
      <4> SUFFICES ASSUME NEW k \in Attempts, NEW m \in Attempts, k < m, initPc'[r][m] # "unsent"
                   PROVE  initPc'[r][k] \notin InitOpen \cup {"unsent"}
        OBVIOUS
      <4>1. m \in Nat /\ k \in Nat /\ i \in Nat
        BY ConstantsOK DEF Attempts
      <4>2. ~(m > i + 1)
        BY <3>1, <3>5, <4>1
      <4>3. k # i + 1 /\ k < i + 1
        BY <4>1, <4>2
      <4> QED
        BY <3>1, <3>2, <3>4, <3>5, <4>3
    <3>7. UNCHANGED <<runStatus, executor>> /\ executor[r] = "initialising"
      BY <1>11 DEF ResendInit
    <3>8. \A x \in Runs \ {r}, k \in Attempts : initPc'[x][k] = initPc[x][k]
      BY <3>5
    <3>9. \A k \in Attempts : initPc'[r][k] \in {initPc[r][k], "received"}
      BY <3>5
    <3> DEFINE Turn(x) == \A k \in Attempts :
                    /\ \A m \in Attempts :
                         m < k /\ initPc[x][k] # "unsent" => initPc[x][m] \notin InitOpen \cup {"unsent"}
                    /\ executor[x] \in {"absent", "booting"} => initPc[x][k] = "unsent"
                    /\ initPc[x][k] = "read_new" => runStatus[x] = "new"
                    /\ initPc[x][k] = "granted" => runStatus[x] \notin {"absent", "new"}
    <3>10. \A x \in Runs : Turn(x)
      BY DEF InitsInTurn
    <3>11. \A x \in Runs \ {r} : Turn(x)'
      BY <3>7, <3>8, <3>10
    <3>12. Turn(r)'
      <4>1. \A k, m \in Attempts :
              m < k /\ initPc'[r][k] # "unsent" => initPc'[r][m] \notin InitOpen \cup {"unsent"}
        BY <3>6
      <4>2. \A k \in Attempts :
              /\ initPc'[r][k] = "read_new" => runStatus[r] = "new"
              /\ initPc'[r][k] = "granted" => runStatus[r] \notin {"absent", "new"}
        BY <3>9, <3>10
      <4>3. executor'[r] \notin {"absent", "booting"} /\ runStatus'[r] = runStatus[r]
        BY <3>7
      <4> HIDE <1>0
      <4> QED
        BY <4>1, <4>2, <4>3, Zenon
    <3> HIDE <1>0 DEF Turn
    <3>13. \A x \in Runs : Turn(x)'
      BY <3>11, <3>12, Zenon
    <3> QED
      BY <3>13 DEF InitsInTurn, Turn
  <2>3. StatusFollowsExecutor'
    BY <1>11 DEF ResendInit, InitGoes, LastAttempt, Unsent, Attempts, StatusFollowsExecutor, ProcessesFollowRows, StartsInTurn, InitsInTurn
  <2>4. OneUnfinishedRun'
    BY <1>11 DEF ResendInit, InitGoes, LastAttempt, Unsent, Attempts, StartsInTurn, StatusFollowsExecutor, ProcessesFollowRows, InitsInTurn
  <2> QED
    BY <2>1, <2>2, <2>3, <2>4
<1>12. ASSUME NEW r \in Runs, NEW i \in Attempts, ReceiveToken(r, i)
      PROVE  Goal
  BY <1>12 DEF ReceiveToken, ExecutorGoes,
     StartsInTurn, InitsInTurn, StatusFollowsExecutor
<1>13. ASSUME NEW r \in Runs, NEW i \in Attempts, InitFails(r, i)
      PROVE  Goal
  BY <1>13 DEF InitFails, ExecutorGoes,
     StartsInTurn, InitsInTurn, StatusFollowsExecutor
<1>14. ASSUME NEW r \in Runs, SendInit(r)
      PROVE  Goal
  <2>1. StartsInTurn'
    BY <1>14 DEF SendInit, InitGoes, ExecutorGoes, Attempts, StartsInTurn, OwnedByItsStart, ProcessesFollowRows, InitsInTurn
  <2>2. InitsInTurn'
    <3>1. 1 \in Attempts /\ \A k \in Attempts : ~(k < 1)
      BY ConstantsOK DEF Attempts
    <3>2. \A x \in Runs, k \in Attempts :
            initPc'[x][k] = IF x = r /\ k = 1 THEN "received" ELSE initPc[x][k]
      BY <1>14, <3>1 DEF SendInit, InitGoes
    <3>3. \A k \in Attempts : initPc[r][k] = "unsent"
      BY <1>14 DEF SendInit, ExecutorGoes, InitsInTurn
    <3>4. executor' = [executor EXCEPT ![r] = "initialising"] /\ UNCHANGED runStatus
      BY <1>14 DEF SendInit, ExecutorGoes
    <3> QED
      BY <3>1, <3>2, <3>3, <3>4 DEF InitsInTurn
  <2>3. StatusFollowsExecutor'
    BY <1>14 DEF SendInit, InitGoes, ExecutorGoes, Attempts, StatusFollowsExecutor, ProcessesFollowRows, StartsInTurn, InitsInTurn
  <2>4. OneUnfinishedRun'
    BY <1>14 DEF SendInit, InitGoes, ExecutorGoes, Attempts, StartsInTurn, StatusFollowsExecutor, ProcessesFollowRows, InitsInTurn
  <2> QED
    BY <2>1, <2>2, <2>3, <2>4
<1>15. ASSUME NEW r \in Runs, FetchJob(r)
      PROVE  Goal
  <2>1. StartsInTurn'
    BY <1>15 DEF FetchJob, ExecutorGoes, StartsInTurn, OwnedByItsStart, ProcessesFollowRows, InitsInTurn
  <2>2. InitsInTurn'
    BY <1>15 DEF FetchJob, ExecutorGoes, InitsInTurn, ProcessesFollowRows, StartsInTurn, StatusFollowsExecutor
  <2>3. StatusFollowsExecutor'
    BY <1>15 DEF FetchJob, ExecutorGoes, StatusFollowsExecutor, ProcessesFollowRows, StartsInTurn, InitsInTurn
  <2>4. OneUnfinishedRun'
    BY <1>15 DEF FetchJob, ExecutorGoes, StartsInTurn, StatusFollowsExecutor, ProcessesFollowRows, InitsInTurn
  <2> QED
    BY <2>1, <2>2, <2>3, <2>4
<1>16. ASSUME NEW r \in Runs, Work(r)
      PROVE  Goal
  BY <1>16 DEF Work, ExecutorGoes,
     StartsInTurn, InitsInTurn, StatusFollowsExecutor
<1>17. ASSUME NEW r \in Runs, SendError(r)
      PROVE  Goal
  BY <1>17 DEF SendError, ExecutorGoes,
     StartsInTurn, InitsInTurn, StatusFollowsExecutor
<1>18. ASSUME NEW r \in Runs, NEW s \in Outcomes, SendDone(r, s)
      PROVE  Goal
  BY <1>18 DEF SendDone, ExecutorGoes, DoneFrom,
     StartsInTurn, InitsInTurn, StatusFollowsExecutor
<1>19. ASSUME NEW r \in Runs, LoseDone(r)
      PROVE  Goal
  BY <1>19 DEF LoseDone,
     StartsInTurn, InitsInTurn, StatusFollowsExecutor
<1>20. ASSUME NEW r \in Runs, Killed(r)
      PROVE  Goal
  BY <1>20 DEF Killed,
     StartsInTurn, InitsInTurn, StatusFollowsExecutor
<1>21. ASSUME NEW r \in Runs, SetTerminalStatus(r)
      PROVE  Goal
  <2>1. StartsInTurn'
    <3>1. runStatus[r] = "running" /\ runStatus'[r] \in {"success", "error"}
      BY <1>21 DEF SetTerminalStatus, CompletionGoes, TerminalStatus, StatusFollowsExecutor
    <3>2. /\ \A x \in Runs \ {r} : runStatus'[x] = runStatus[x]
          /\ UNCHANGED <<runJob, startPc, startRun, executor>>
      BY <1>21 DEF SetTerminalStatus
    <3> QED
      BY <3>1, <3>2 DEF StartsInTurn, OwnedByItsStart
  <2>2. InitsInTurn'
    BY <1>21 DEF SetTerminalStatus, CompletionGoes, TerminalStatus, InitsInTurn, ProcessesFollowRows, StartsInTurn, StatusFollowsExecutor
  <2>3. StatusFollowsExecutor'
    BY <1>21 DEF SetTerminalStatus, CompletionGoes, TerminalStatus, StatusFollowsExecutor, ProcessesFollowRows, StartsInTurn, InitsInTurn
  <2>4. OneUnfinishedRun'
    BY <1>21 DEF SetTerminalStatus, CompletionGoes, TerminalStatus, StartsInTurn, StatusFollowsExecutor, ProcessesFollowRows, InitsInTurn
  <2> QED
    BY <2>1, <2>2, <2>3, <2>4
<1>22. ASSUME NEW r \in Runs, SaveOutputFiles(r)
      PROVE  Goal
  BY <1>22 DEF SaveOutputFiles, CompletionGoes,
     StartsInTurn, InitsInTurn, StatusFollowsExecutor
<1>23. ASSUME NEW r \in Runs, EmitRunComplete(r)
      PROVE  Goal
  BY <1>23 DEF EmitRunComplete, CompletionGoes,
     StartsInTurn, InitsInTurn, StatusFollowsExecutor
<1>24. ASSUME NEW r \in Runs, CompletionDies(r)
      PROVE  Goal
  BY <1>24 DEF CompletionDies, CompletionOpen,
     StartsInTurn, InitsInTurn, StatusFollowsExecutor
<1> HIDE <1>0 DEF TypeOK, StartOpen, InitOpen, LetIn, Outcomes, Unfinished, Rows!Unfinished
<1>25. ASSUME UNCHANGED vars
       PROVE  Goal
  <2>1. StartsInTurn' /\ OneUnfinishedRun'
    BY <1>0, <1>25 DEF vars, StartsInTurn, OwnedByItsStart
  <2>2. InitsInTurn'
    BY <1>0, <1>25 DEF vars, InitsInTurn
  <2>3. StatusFollowsExecutor'
    BY <1>0, <1>25 DEF vars, StatusFollowsExecutor
  <2> QED
    BY <2>1, <2>2, <2>3 DEF Goal
<1> HIDE DEF Goal
<1>26. Goal
  BY <1>1, <1>2, <1>3, <1>4, <1>5, <1>6, <1>7, <1>8, <1>9, <1>10, <1>11, <1>12, <1>13, <1>14, <1>15, <1>16, <1>17, <1>18, <1>19, <1>20, <1>21, <1>22, <1>23, <1>24, <1>25 DEF Next, StartStep, InitStep, RunStep
<1> QED
  BY <1>0, <1>26 DEF Goal, OrderInv

(* OrderInv holds from the start.                                           *)
LEMMA OrderInvInvariant ==
  ASSUME Orderly
  PROVE  Spec => []OrderInv
<1>1. Init => EndInv
  BY TypeInit, ConstantsOK DEF Init, EndInv, OwnedByItsStart, ProcessesFollowRows, EndIsRecorded,
     SuccessIsReported, LetIn
<1>2. Init => OrderInv
  BY <1>1 DEF Init, OrderInv, StartsInTurn, InitsInTurn, StatusFollowsExecutor, LetIn, StartOpen,
     OneUnfinishedRun, Rows!OneUnfinishedRun, Rows!Unfinished
<1>3. OrderInv /\ [Next]_vars => OrderInv'
  BY Orderly, OrderInvPreserved
<1> QED
  BY <1>2, <1>3, PTL DEF Spec

(* While handlers do not overlap, a job never has two runs that are not     *)
(* over, although the start reads the runs before it creates one.           *)
THEOREM RunsInTurn ==
  ASSUME Orderly
  PROVE  Spec => []OneUnfinishedRun
<1>1. OrderInv => OneUnfinishedRun
  BY DEF OrderInv
<1> QED
  BY Orderly, <1>1, OrderInvInvariant, PTL

(* A token is granted by SetRunning only, which no granted token allows.     *)
LEMMA TokenUsedOncePreserved ==
  ASSUME Orderly, OrderInv, TokenUsedOnce, [Next]_vars
  PROVE  TokenUsedOnce'
<1>1. initPc \in [Runs -> [Attempts -> InitPcs]] /\ InitsInTurn
  BY DEF OrderInv, EndInv, TypeOK
<1>2. ASSUME NEW r \in Runs, NEW i \in Attempts, SetRunning(r, i)
      PROVE  TokenUsedOnce'
  <2>1. initPc[r][i] = "read_new" /\ initPc' = [initPc EXCEPT ![r][i] = "granted"]
    BY <1>2 DEF SetRunning, InitGoes
  <2>2. \A k \in Attempts : initPc[r][k] # "granted"
    BY <1>1, <2>1 DEF InitsInTurn
  <2>3. \A x \in Runs, k \in Attempts :
          initPc'[x][k] = IF x = r /\ k = i THEN "granted" ELSE initPc[x][k]
    BY <1>1, <2>1
  <2> QED
    BY <2>2, <2>3 DEF TokenUsedOnce
<1>3. ASSUME NEW r \in Runs, NEW i \in Attempts, NEW pc \in InitPcs \ {"granted"},
             initPc' = [initPc EXCEPT ![r][i] = pc]
      PROVE  TokenUsedOnce'
  <2>1. \A x \in Runs, k \in Attempts :
          initPc'[x][k] = IF x = r /\ k = i THEN pc ELSE initPc[x][k]
    BY <1>1, <1>3
  <2> QED
    BY <2>1 DEF TokenUsedOnce
<1>4. ASSUME NEW r \in Runs, NEW i \in Attempts, ReadRunForInit(r, i)
      PROVE  TokenUsedOnce'
  <2>1. PICK pc \in {"read_new", "refused"} : initPc' = [initPc EXCEPT ![r][i] = pc]
    BY <1>4, Zenon DEF ReadRunForInit, InitGoes
  <2> QED
    BY <1>3, <2>1 DEF InitPcs, InitOpen
<1>5. ASSUME NEW r \in Runs, NEW i \in Attempts, InitDies(r, i)
      PROVE  TokenUsedOnce'
  BY <1>3, <1>5 DEF InitDies, InitPcs, InitOpen
<1>6. ASSUME NEW r \in Runs, NEW i \in Attempts, ResendInit(r, i)
      PROVE  TokenUsedOnce'
  BY <1>3, <1>6 DEF ResendInit, InitGoes, InitPcs, InitOpen
<1>7. ASSUME NEW r \in Runs, SendInit(r)
      PROVE  TokenUsedOnce'
  <2>1. 1 \in Attempts
    BY ConstantsOK DEF Attempts
  <2> QED
    BY <1>3, <1>7, <2>1 DEF SendInit, InitGoes, InitPcs, InitOpen
<1>8. CASE UNCHANGED initPc
  BY <1>8 DEF TokenUsedOnce
<1>9. \/ UNCHANGED initPc
      \/ \E r \in Runs : SendInit(r)
      \/ \E r \in Runs, i \in Attempts :
           SetRunning(r, i) \/ ReadRunForInit(r, i) \/ InitDies(r, i) \/ ResendInit(r, i)
  BY DEF Next, vars, doneVars, StartStep, InitStep, RunStep, CheckInProgress, CreateRun, LaunchExecutor,
     LaunchThrows, LaunchThrowsLate, RecordLaunchFailure, StartDies, ReceiveToken, InitFails,
     FetchJob, Work, SendError, SendDone, LoseDone, Killed, SetTerminalStatus, SaveOutputFiles,
     EmitRunComplete, CompletionDies
<1> QED
  BY <1>2, <1>4, <1>5, <1>6, <1>7, <1>8, <1>9

(* While handlers do not overlap, an init token opens one session at most,  *)
(* however often its request is sent again.                                 *)
THEOREM TokensUsedOnce ==
  ASSUME Orderly
  PROVE  Spec => []TokenUsedOnce
<1>1. Init => TokenUsedOnce
  BY DEF Init, TokenUsedOnce
<1>2. TokenUsedOnce /\ OrderInv /\ [Next]_vars => TokenUsedOnce'
  BY Orderly, TokenUsedOncePreserved
<1> QED
  BY Orderly, <1>1, <1>2, OrderInvInvariant, PTL DEF Spec

(* While handlers do not overlap, neither do the executors of a job.        *)
THEOREM ExecutorsInTurn ==
  ASSUME Orderly
  PROVE  Spec => []ExecutorsDoNotOverlap
<1>1. OrderInv => ExecutorsDoNotOverlap
  BY DEF OrderInv, EndInv, StatusFollowsExecutor, OneUnfinishedRun, Rows!OneUnfinishedRun,
     ExecutorsDoNotOverlap, Unfinished
<1> QED
  BY Orderly, <1>1, OrderInvInvariant, PTL

(* Every step of the code is a step of JobRuns or leaves the rows alone.     *)
LEMMA StepsOfJobRuns ==
  ASSUME Orderly, OrderInv, [Next]_vars
  PROVE  [Rows!Next]_(Rows!vars)
<1>0. /\ TypeOK /\ OwnedByItsStart /\ StartsInTurn /\ InitsInTurn /\ StatusFollowsExecutor
  BY DEF OrderInv, EndInv
<1>1. ASSUME NEW q \in Starts, NEW r \in Runs, CreateRun(q, r)
      PROVE  Rows!Create(JobOf[q], r)
  BY <1>0, <1>1 DEF CreateRun, StartGoes, StartsInTurn, Rows!Create
<1>2. ASSUME NEW q \in Starts, RecordLaunchFailure(q)
      PROVE  \E r \in Runs : Rows!FailToStart(r)
  <2>1. startRun[q] \in Runs /\ runStatus[startRun[q]] = "new"
    BY <1>0, <1>2 DEF RecordLaunchFailure, StartGoes, OwnedByItsStart, StartsInTurn
  <2>2. Rows!FailToStart(startRun[q])
    BY <1>2, <2>1 DEF RecordLaunchFailure, Rows!FailToStart, Rows!Move
  <2> QED
    BY <2>1, <2>2
<1>3. ASSUME NEW r \in Runs, NEW i \in Attempts, SetRunning(r, i)
      PROVE  Rows!Start(r)
  BY <1>0, <1>3 DEF SetRunning, InitGoes, InitsInTurn, Rows!Start, Rows!Move
<1>4. ASSUME NEW r \in Runs, SetTerminalStatus(r)
      PROVE  Rows!Finish(r)
  <2>1. runStatus[r] = "running"
    BY <1>0, <1>4 DEF SetTerminalStatus, CompletionGoes, StatusFollowsExecutor
  <2>2. TerminalStatus(outcome[r]) \in Rows!Terminal
    BY TerminalStatusType DEF Terminal
  <2> QED
    BY <1>4, <2>1, <2>2 DEF SetTerminalStatus, Rows!Finish, Rows!Move
<1>5. CASE UNCHANGED Rows!vars
  BY <1>5
<1>6. \/ \E q \in Starts, r \in Runs : CreateRun(q, r)
      \/ \E q \in Starts : RecordLaunchFailure(q)
      \/ \E r \in Runs, i \in Attempts : SetRunning(r, i)
      \/ \E r \in Runs : SetTerminalStatus(r)
      \/ UNCHANGED Rows!vars
  BY DEF Rows!vars, rowVars, Next, vars, StartStep, InitStep, RunStep, CheckInProgress, LaunchExecutor,
     LaunchThrows, LaunchThrowsLate, StartDies, SendInit, ReadRunForInit, InitDies, ResendInit,
     ReceiveToken, InitFails, FetchJob, Work, SendError, SendDone, LoseDone, Killed,
     SaveOutputFiles, EmitRunComplete, CompletionDies
<1>7. \A q \in Starts : JobOf[q] \in Jobs
  BY ConstantsOK
<1>8. (\E j \in Jobs, r \in Runs : Rows!Create(j, r)) \/ (\E r \in Runs : Rows!FailToStart(r))
        \/ (\E r \in Runs : Rows!Start(r)) \/ (\E r \in Runs : Rows!Finish(r))
      => Rows!Next
  BY DEF Rows!Next
<1> QED
  BY <1>1, <1>2, <1>3, <1>4, <1>5, <1>6, <1>7, <1>8

(* While handlers do not overlap, the rows the code writes are those of     *)
(* JobRuns: created in turn, started once, ended once.                      *)
THEOREM RunsAreJobRuns ==
  ASSUME Orderly
  PROVE  Spec => ImplementsJobRuns
<1>1. Init => Rows!Init
  BY DEF Init, Rows!Init
<1>2. OrderInv /\ [Next]_vars => [Rows!Next]_(Rows!vars)
  BY Orderly, StepsOfJobRuns
<1> QED
  BY Orderly, <1>1, <1>2, OrderInvInvariant, PTL DEF Spec, ImplementsJobRuns, Rows!Spec

=============================================================================

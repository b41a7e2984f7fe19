------------------------------- MODULE JobRuns -------------------------------
(***************************************************************************)
(* What the rest of Runway takes the runs of a job to be.                  *)
(*                                                                         *)
(* A run is created for a job that has no unfinished run, it starts once,  *)
(* and it ends once, as a success or as an error.  The status page, the    *)
(* external API's list of successful output sets and the "already in       *)
(* progress" answer of a second start all read run.status on these terms.  *)
(* RunLifecycle says how the code gets there, and under which conditions.  *)
(***************************************************************************)
CONSTANTS
  Jobs,   \* jobs
  Runs,   \* identities a run row can take
  NoJob   \* the job of a row that does not exist yet, none of Jobs

VARIABLES
  runJob,     \* run.job_id
  runStatus   \* run.status, "absent" while there is no row

vars == <<runJob, runStatus>>

Unfinished == {"new", "running"}
Terminal   == {"success", "error"}
RunStatus  == Unfinished \cup Terminal

UnfinishedRuns(j) == {r \in Runs : runJob[r] = j /\ runStatus[r] \in Unfinished}

TypeOK ==
  /\ runJob \in [Runs -> Jobs \cup {NoJob}]
  /\ runStatus \in [Runs -> RunStatus \cup {"absent"}]

Init ==
  /\ runJob = [r \in Runs |-> NoJob]
  /\ runStatus = [r \in Runs |-> "absent"]

Create(j, r) ==
  /\ runStatus[r] = "absent"
  /\ UnfinishedRuns(j) = {}
  /\ runJob' = [runJob EXCEPT ![r] = j]
  /\ runStatus' = [runStatus EXCEPT ![r] = "new"]

Move(r, from, to) ==
  /\ runStatus[r] = from
  /\ runStatus' = [runStatus EXCEPT ![r] = to]
  /\ UNCHANGED runJob

Start(r) == Move(r, "new", "running")
FailToStart(r) == Move(r, "new", "error")
Finish(r) == \E s \in Terminal : Move(r, "running", s)

Next ==
  \/ \E j \in Jobs, r \in Runs : Create(j, r)
  \/ \E r \in Runs : Start(r) \/ FailToStart(r) \/ Finish(r)

Spec == Init /\ [][Next]_vars

-----------------------------------------------------------------------------
(* A job has at most one run that is not over: the promise behind the      *)
(* 400 "Job already in progress" of jobs.controller.ts and                 *)
(* jobs.v1.controller.ts.                                                  *)
OneUnfinishedRun ==
  \A r1, r2 \in Runs :
    /\ runStatus[r1] \in Unfinished
    /\ runStatus[r2] \in Unfinished
    /\ runJob[r1] = runJob[r2]
    => r1 = r2

=============================================================================

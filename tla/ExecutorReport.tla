---------------------------- MODULE ExecutorReport ----------------------------
(***************************************************************************)
(* What the app may expect of the executor of one run, seen from the rows  *)
(* its messages leave: it works, it says how that went, and it is gone.    *)
(*                                                                         *)
(* Executor shows that the program in executor.py keeps to this, whatever  *)
(* goes wrong in it; RunLifecycle uses no more than this of an executor.   *)
(***************************************************************************)
VARIABLES
  phase,      \* where the executor is between its work and its end
  errorRow,   \* the app holds the executor's error report
  doneRow     \* the "done" update the app holds: none, success or failure

vars == <<phase, errorRow, doneRow>>

Outcomes == {"success", "failure"}
Phases   == {"working", "failed", "reported", "succeeded", "exited"}

Init ==
  /\ phase = "working"
  /\ errorRow = FALSE
  /\ doneRow = "none"

EndWork ==
  /\ phase = "working"
  /\ phase' \in {"failed", "succeeded"}
  /\ UNCHANGED <<errorRow, doneRow>>

(* The report of a failure arrives or is lost; the executor goes on.       *)
SendError ==
  /\ phase = "failed"
  /\ phase' = "reported"
  /\ errorRow' \in BOOLEAN
  /\ UNCHANGED doneRow

(* So does the last message, after which the executor writes no more.      *)
SendDone(s) ==
  /\ phase = IF s = "success" THEN "succeeded" ELSE "reported"
  /\ phase' = "exited"
  /\ doneRow' \in {s, "none"}
  /\ UNCHANGED errorRow

(* The process ends without its last messages.                             *)
Quit ==
  /\ phase # "exited"
  /\ phase' = "exited"
  /\ UNCHANGED <<errorRow, doneRow>>

Next ==
  \/ EndWork
  \/ SendError
  \/ \E s \in Outcomes : SendDone(s)
  \/ Quit

Spec == Init /\ [][Next]_vars

=============================================================================

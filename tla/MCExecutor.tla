------------------------------ MODULE MCExecutor ------------------------------
(* Every job the executor can get, with an alarm and a failed POST anywhere. *)
EXTENDS Executor

=============================================================================

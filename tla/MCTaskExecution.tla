--------------------------- MODULE MCTaskExecution ---------------------------
(* Model values for TaskExecution. *)
EXTENDS TaskExecution, TLC

CONSTANTS t1, t2

=============================================================================

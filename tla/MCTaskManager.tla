---------------------------- MODULE MCTaskManager ----------------------------
(* Instances of TaskManager for TLC. *)
EXTENDS TaskManager, TLC

CONSTANTS t1, t2, t3, w1, w2

(* Task ids and workers are interchangeable: no definition picks one. *)
TaskWorkerSymmetry == Permutations(Tasks) \cup Permutations(Workers)
=============================================================================

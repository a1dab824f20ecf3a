------------------------------ MODULE MCEventLog ------------------------------
(* Instances of EventLog for TLC. *)
EXTENDS EventLog, TLC

CONSTANTS h1, h2, w1, w2, p1, s1

(* Writers are interchangeable. *)
WriterSymmetry == Permutations(Writers)
=============================================================================

----------------------------- MODULE MCSubAgents -----------------------------
(* Instances of SubAgents for TLC. *)
EXTENDS SubAgents, TLC

CONSTANTS a, b, n

(* Direct children are interchangeable. *)
ChildSymmetry == Permutations(Direct)
=============================================================================

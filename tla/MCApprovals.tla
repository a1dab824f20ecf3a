----------------------------- MODULE MCApprovals -----------------------------
(* Instances of Approvals for TLC. *)
EXTENDS Approvals

CONSTANTS t1, t2, a, b, m, x, y

\* A tool call in each of two turns, and a message in the first.
InTurn  == [i \in Items |-> IF i = b THEN t2 ELSE t1]
TwoIds  == [i \in Items |-> IF i = a THEN x ELSE y]
SameIds == [i \in Items |-> x]
=============================================================================

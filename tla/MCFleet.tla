------------------------------- MODULE MCFleet -------------------------------
(* Instances of Fleet for TLC. *)
EXTENDS Fleet, TLC

CONSTANTS t1, t2, w1, w2, c1, c2

(* One task fails with its first lease, the other is retried once. *)
MCAttempts == t1 :> 1 @@ t2 :> 2
=============================================================================

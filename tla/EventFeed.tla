------------------------------ MODULE EventFeed ------------------------------
(***************************************************************************)
(* What a reader of a thread's events is promised: a log that only grows,  *)
(* in the order of the sequence numbers, and a reader that is told every   *)
(* event once and in that order, and falls behind for a while at most.     *)
(* Once the store is disturbed (a write failed, the process died) nothing  *)
(* is promised.                                                            *)
(***************************************************************************)
EXTENDS Naturals, Sequences

CONSTANT MaxSeq       \* bound: the numbers the shared counter hands out

VARIABLES log,        \* the sequence numbers of the thread's events
          told,       \* what the reader has been told
          sound       \* nothing has disturbed the store so far

Init == log = <<>> /\ told = <<>> /\ sound = TRUE

(* The numbers increase, with gaps where other threads drew from the       *)
(* counter.                                                                *)
Record == /\ \E n \in 1..MaxSeq : /\ \A i \in DOMAIN log : log[i] < n
                                  /\ log' = Append(log, n)
          /\ UNCHANGED told

CatchUp == /\ told # log
           /\ told' = log
           /\ UNCHANGED log

Next == (sound' = sound /\ (Record \/ CatchUp)) \/ ~sound'

vars == <<log, told, sound>>

Follows == Init /\ [][Next]_vars

Spec == Follows /\ WF_<<log, told>>(sound /\ CatchUp)
=============================================================================

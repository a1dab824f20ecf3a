----------------------------- MODULE TurnRecords -----------------------------
(***************************************************************************)
(* What the readers of a thread's turns are promised: a turn starts once,  *)
(* ends once and is then announced with the status it ended with; a        *)
(* restart interrupts the turns in progress and touches no other.          *)
(***************************************************************************)
CONSTANTS Calls, None

VARIABLES status, told

Outcomes == {"Completed", "Failed", "Interrupted"}

Init == status = [c \in Calls |-> "absent"] /\ told = [c \in Calls |-> None]

Start(c) == /\ status[c] = "absent"
            /\ status' = [status EXCEPT ![c] = "InProgress"]
            /\ UNCHANGED told

End(c) == /\ status[c] = "InProgress"
          /\ \E o \in Outcomes : status' = [status EXCEPT ![c] = o]
          /\ UNCHANGED told

Announce(c) == /\ status[c] \in Outcomes /\ told[c] = None
               /\ told' = [told EXCEPT ![c] = status[c]]
               /\ UNCHANGED status

Restart == /\ status' = [c \in Calls |-> IF status[c] = "InProgress" THEN "Interrupted" ELSE status[c]]
           /\ UNCHANGED told

Next == (\E c \in Calls : Start(c) \/ End(c) \/ Announce(c)) \/ Restart

Spec == Init /\ [][Next]_<<status, told>>
=============================================================================

---------------------------- MODULE TaskLifecycle ----------------------------
(***************************************************************************)
(* What the durable task manager promises its clients about one task: a    *)
(* record that exists never disappears, it is executed at most once, a     *)
(* final status is final, and a process crash fails exactly the tasks that *)
(* were running.  A crash may also interrupt one operation in flight,      *)
(* which then took effect or did not.  Once a write to the disk has failed *)
(* nothing is promised.                                                    *)
(***************************************************************************)
CONSTANT Tasks          \* the task ids

VARIABLES status,       \* what a client is told about each task
          reliable      \* every write has succeeded so far

Terminal == {"Completed", "Failed", "Canceled"}
Status == {"absent", "Queued", "Running"} \cup Terminal

(* The moves of one record: enqueue, start, cancel before start, finish.   *)
Moves == {<<"absent", "Queued">>, <<"Queued", "Running">>, <<"Queued", "Canceled">>}
           \cup ({"Running"} \X Terminal)

(* load_state fails what was running and keeps everything else. *)
Interrupted(s) == [t \in Tasks |-> IF s[t] = "Running" THEN "Failed" ELSE s[t]]

TypeOK == status \in [Tasks -> Status] /\ reliable \in BOOLEAN

Init == status = [t \in Tasks |-> "absent"] /\ reliable = TRUE

Operate == \E t \in Tasks, n \in Status :
             /\ <<status[t], n>> \in Moves
             /\ status' = [status EXCEPT ![t] = n]

Crash == \/ status' = Interrupted(status)
         \/ \E t \in Tasks, n \in Status :
              /\ <<status[t], n>> \in Moves
              /\ status' = Interrupted([status EXCEPT ![t] = n])

Next == (reliable' = reliable /\ (Operate \/ Crash)) \/ ~reliable'

Spec == Init /\ [][Next]_<<status, reliable>>
=============================================================================

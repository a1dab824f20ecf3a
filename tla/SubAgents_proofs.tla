--------------------------- MODULE SubAgents_proofs ---------------------------
(***************************************************************************)
(* Proofs about SubAgents for any finite set of agents, nested or not, any *)
(* limits and outcomes, and any number of panics and restarts.             *)
(*                                                                         *)
(* That an agent listed as running has a task rests on aborted tasks being *)
(* those of agents no longer listed so (CutShort).  That a completion is   *)
(* told once rests on what a fresh agent has not done, and on both sources *)
(* naming agents of this boot only (TellsRecorded).                        *)
(***************************************************************************)
EXTENDS SubAgents, FiniteSetTheorems, TLAPS

(* A task that ended knows how. *)
EndsKnown == \A a \in Agents : task[a] \in {"ended", "emitted"} => result[a] \in Ends

(* Only a direct child waits for a permit. *)
DirectWaits == \A a \in Agents : task[a] \in {"launch", "queued"} => a \in Direct

(* A task is aborted with the agent it belongs to. *)
CutShort == \A a \in aborted : status[a] # "Running" /\ task[a] \in Live

IInv == TypeOK /\ EndsKnown /\ DirectWaits /\ CutShort /\ RunningHasTask

-----------------------------------------------------------------------------
LEMMA InitInv == Init => IInv
<1> SUFFICES ASSUME Init PROVE IInv
  OBVIOUS
<1>1. TypeOK
  BY BoundsAssumption DEF Init, TypeOK, Statuses, Places
<1>2. EndsKnown /\ DirectWaits /\ CutShort /\ RunningHasTask
  BY DEF Init, EndsKnown, DirectWaits, CutShort, RunningHasTask
<1> QED BY <1>1, <1>2 DEF IInv

(* The table after a cleanup. *)
LEMMA CleanedTable ==
  ASSUME TypeOK, NEW stale \in SUBSET Admitted, NEW old
  PROVE  /\ Cleaned(stale, old) \in [Agents -> Statuses]
         /\ \A a \in Agents : Cleaned(stale, old)[a] = "Running" =>
              status[a] = "Running" /\ a \notin stale
BY DEF TypeOK, Cleaned, Expired, Statuses

(* What the file may hold next. *)
LEMMA PersistTypes ==
  ASSUME disk \in [Agents -> Statuses], NEW S \in SUBSET [Agents -> Statuses], Persist(S)
  PROVE  disk' \in [Agents -> Statuses]
BY DEF Persist

(* An aborted task is one that lives, of an agent that loses its handle.   *)
LEMMA AbortedTasks ==
  ASSUME TypeOK, NEW S, Abort(S)
  PROVE  /\ aborted' \subseteq Agents
         /\ \A a \in aborted' : a \in aborted \/ (a \in S /\ task[a] \in Live)
BY DEF TypeOK, Abort

LEMMA CleanupKeeps ==
  ASSUME IInv, NEW stale \in SUBSET Admitted, NEW old, Cleanup(stale, old)
  PROVE  IInv'
<1> USE DEF Cleanup
<1>1. TypeOK'
  <2>1. status' \in [Agents -> Statuses]
    BY CleanedTable DEF IInv
  <2>2. disk' \in [Agents -> Statuses]
    BY <2>1, PersistTypes DEF IInv, TypeOK
  <2>3. aborted' \subseteq Agents
    BY AbortedTasks DEF IInv
  <2> QED BY <2>1, <2>2, <2>3 DEF IInv, TypeOK, telling
<1>2. EndsKnown' /\ DirectWaits'
  BY DEF IInv, EndsKnown, DirectWaits
<1>3. CutShort'
  <2>1. \A a \in aborted' : a \in aborted \/ (a \in stale /\ task[a] \in Live)
    BY AbortedTasks DEF IInv, Expired
  <2>2. \A a \in Agents : status'[a] = "Running" => status[a] = "Running" /\ a \notin stale
    BY CleanedTable DEF IInv
  <2>3. aborted' \subseteq Agents /\ task' = task
    BY AbortedTasks DEF IInv
  <2> QED BY <2>1, <2>2, <2>3 DEF IInv, CutShort
<1>4. RunningHasTask'
  BY CleanedTable DEF IInv, RunningHasTask, Expired
<1> QED BY <1>1, <1>2, <1>3, <1>4 DEF IInv

LEMMA SpawnKeeps ==
  ASSUME IInv, NEW a \in Agents, NEW stale \in SUBSET Admitted, NEW old, Spawn(a, stale, old)
  PROVE  IInv'
<1> DEFINE C == Cleaned(stale, old)
<1>1. /\ C \in [Agents -> Statuses] /\ status' = [C EXCEPT ![a] = "Running"]
      /\ \A b \in Agents : C[b] = "Running" => status[b] = "Running" /\ b \notin stale
  BY CleanedTable DEF IInv, Spawn
<1>2. /\ up /\ up' = up /\ task[a] = "none"
      /\ handle' = (handle \ stale) \cup {a} /\ ours' = ours \cup {a}
      /\ task' = [task EXCEPT ![a] = IF a \in Nested THEN "run" ELSE "launch"]
      /\ Abort(stale)
      /\ UNCHANGED <<result, holders, telling, panicked, exits>>
  BY DEF Spawn, Expired
<1>3. /\ aborted' \subseteq Agents
      /\ \A b \in aborted' : b \in aborted \/ (b \in stale /\ task[b] \in Live)
  BY <1>2, AbortedTasks DEF IInv
<1>4. TypeOK'
  <2>1. status' \in [Agents -> Statuses]
    BY <1>1 DEF Statuses
  <2>2. disk' \in [Agents -> Statuses]
    <3>1. Persist((IF C = status THEN {} ELSE {C}) \cup {status'})
      BY DEF Spawn
    <3> QED BY <1>1, <2>1, <3>1 DEF Persist, IInv, TypeOK
  <2>3. task' \in [Agents -> Places]
    BY <1>2 DEF IInv, TypeOK, Places
  <2>4. holders' \subseteq {b \in Direct : task'[b] \in {"run", "ended", "emitted"}}
    BY <1>2 DEF IInv, TypeOK, Direct
  <2> QED BY <1>2, <1>3, <2>1, <2>2, <2>3, <2>4 DEF IInv, TypeOK, telling
<1>5. EndsKnown' /\ DirectWaits'
  BY <1>2 DEF IInv, TypeOK, EndsKnown, DirectWaits, Direct
<1>6. CutShort'
  BY <1>1, <1>2, <1>3 DEF IInv, TypeOK, CutShort, Live, Places
<1>7. RunningHasTask'
  BY <1>1, <1>2 DEF IInv, TypeOK, RunningHasTask, Live, Places
<1> QED BY <1>4, <1>5, <1>6, <1>7 DEF IInv

LEMMA CancelKeeps ==
  ASSUME IInv, NEW a \in Agents, Cancel(a)
  PROVE  IInv'
<1> USE DEF Cancel
<1>1. TypeOK'
  <2>1. status' \in [Agents -> Statuses]
    BY DEF IInv, TypeOK, Statuses
  <2>2. disk' \in [Agents -> Statuses]
    BY <2>1, PersistTypes DEF IInv, TypeOK
  <2>3. aborted' \subseteq Agents
    BY AbortedTasks DEF IInv
  <2> QED BY <2>1, <2>2, <2>3 DEF IInv, TypeOK, telling
<1>2. EndsKnown' /\ DirectWaits'
  BY DEF IInv, EndsKnown, DirectWaits
<1>3. CutShort'
  BY AbortedTasks DEF IInv, CutShort, TypeOK
<1>4. RunningHasTask'
  BY DEF IInv, RunningHasTask, TypeOK
<1> QED BY <1>1, <1>2, <1>3, <1>4 DEF IInv

-----------------------------------------------------------------------------
(* The tasks.                                                              *)

(* A task that moves on and stays alive. *)
LEMMA MovesOn ==
  ASSUME IInv, NEW a \in Agents, NEW p \in Live,
         task' = [task EXCEPT ![a] = p],
         task[a] \in Live,
         p \in {"launch", "queued"} => a \in Direct,
         p \in {"ended", "emitted"} => result'[a] \in Ends,
         result' \in [Agents -> Ends \cup {"none"}],
         \A b \in Agents \ {a} : result'[b] = result[b],
         holders' \subseteq {b \in Direct : task'[b] \in {"run", "ended", "emitted"}},
         status' \in [Agents -> Statuses],
         \A b \in Agents : status'[b] = "Running" => status[b] = "Running",
         disk' \in [Agents -> Statuses], channel' \subseteq Direct,
         UNCHANGED <<up, handle, ours, aborted, engine, delivered, drained, idled,
                     panicked, exits>>
  PROVE  IInv'
<1>1. TypeOK'
  BY DEF IInv, TypeOK, Live
<1>2. EndsKnown' /\ DirectWaits'
  BY DEF IInv, TypeOK, EndsKnown, DirectWaits
<1>3. CutShort'
  BY DEF IInv, TypeOK, CutShort
<1>4. RunningHasTask'
  BY DEF IInv, TypeOK, RunningHasTask
<1> QED BY <1>1, <1>2, <1>3, <1>4 DEF IInv

LEMMA LaunchKeeps ==
  ASSUME IInv, NEW a \in Agents, LaunchNow(a) \/ Enqueue(a) \/ AcquirePermit(a)
  PROVE  IInv'
<1>1. task[a] \in {"launch", "queued"} /\ a \in Direct
  BY DEF IInv, DirectWaits, LaunchNow, Enqueue, AcquirePermit
<1>2. PICK p \in {"queued", "run"} :
        /\ task' = [task EXCEPT ![a] = p]
        /\ holders' = IF p = "run" THEN holders \cup {a} ELSE holders
  BY DEF LaunchNow, Enqueue, AcquirePermit
<1>3. UNCHANGED <<up, table, result, aborted, telling, disk, panicked, exits>>
  BY DEF LaunchNow, Enqueue, AcquirePermit
<1>4. holders' \subseteq {b \in Direct : task'[b] \in {"run", "ended", "emitted"}}
  BY <1>1, <1>2 DEF IInv, TypeOK
<1>5. p \in Live /\ task[a] \in Live
  BY <1>1 DEF Live, Places
<1> QED BY <1>1, <1>2, <1>3, <1>4, <1>5, MovesOn DEF IInv, TypeOK, table, telling

LEMMA EndedKeeps ==
  ASSUME IInv, NEW a \in Agents, task[a] = "run", NEW r \in Ends, Ended(a, r),
         status' \in [Agents -> Statuses],
         \A b \in Agents : status'[b] = "Running" => status[b] = "Running",
         disk' \in [Agents -> Statuses],
         UNCHANGED <<up, handle, ours, telling, panicked, exits>>
  PROVE  IInv'
<1>1. holders' \subseteq {b \in Direct : task'[b] \in {"run", "ended", "emitted"}}
  BY DEF IInv, TypeOK, Ended
<1>2. "ended" \in Live /\ task[a] \in Live
  BY DEF Live, Places
<1>3. result' \in [Agents -> Ends \cup {"none"}] /\ result'[a] = r
      /\ \A b \in Agents \ {a} : result'[b] = result[b]
  BY DEF IInv, TypeOK, Ended
<1>4. task' = [task EXCEPT ![a] = "ended"] /\ UNCHANGED aborted
  BY DEF Ended
<1>5. /\ UNCHANGED <<engine, channel, delivered, drained, idled>>
      /\ channel \subseteq Direct
  BY DEF IInv, TypeOK, telling
<1>6. channel' \subseteq Direct
  BY <1>5
<1> QED BY <1>1, <1>2, <1>3, <1>4, <1>5, <1>6, MovesOn

LEMMA RunKeeps ==
  ASSUME IInv, NEW a \in Agents, Interrupt(a) \/ \E r \in Outcomes : Finish(a, r)
  PROVE  IInv'
<1>1. CASE Interrupt(a)
  <2>1. CASE status[a] = "absent"
    BY <1>1, <2>1, EndedKeeps DEF Interrupt, IInv, TypeOK, Ends
  <2>2. CASE status[a] # "absent"
    <3>1. status' = [status EXCEPT ![a] = "Interrupted"] /\ Persist({status'})
      BY <1>1, <2>2 DEF Interrupt
    <3>2. status' \in [Agents -> Statuses]
      BY <3>1 DEF IInv, TypeOK, Statuses, Ends
    <3>3. disk' \in [Agents -> Statuses]
      BY <3>1, <3>2, PersistTypes DEF IInv, TypeOK
    <3>4. \A b \in Agents : status'[b] = "Running" => status[b] = "Running"
      BY <3>1 DEF IInv, TypeOK
    <3> QED BY <1>1, <2>2, <3>2, <3>3, <3>4, EndedKeeps DEF Interrupt, Ends
  <2> QED BY <2>1, <2>2
<1>2. ASSUME NEW r \in Outcomes, Finish(a, r) PROVE IInv'
  BY <1>2, EndedKeeps, OutcomesAssumption DEF Finish, IInv, TypeOK, Ends, table
<1> QED BY <1>1, <1>2

LEMMA EmitKeeps ==
  ASSUME IInv, NEW a \in Agents, Emit(a)
  PROVE  IInv'
<1>1. holders' \subseteq {b \in Direct : task'[b] \in {"run", "ended", "emitted"}}
  BY DEF IInv, TypeOK, Emit
<1>2. "emitted" \in Live /\ task[a] \in Live
  BY DEF Live, Places, Emit
<1>3. result[a] \in Ends
  BY DEF IInv, EndsKnown, Emit
<1> QED BY <1>1, <1>2, <1>3, MovesOn DEF IInv, TypeOK, Emit, table

(* A task that is over, its agent being listed as running no more or having *)
(* panicked.                                                                *)
LEMMA LeaveKeeps ==
  ASSUME IInv, NEW a \in Agents, Leave(a),
         status' \in [Agents -> Statuses],
         \A b \in Agents : status'[b] = "Running" =>
           status[b] = "Running" /\ b \in handle' /\ (b # a \/ b \in panicked'),
         handle' \subseteq handle, disk' \in [Agents -> Statuses],
         panicked \subseteq panicked', panicked' \subseteq Agents,
         UNCHANGED <<up, ours, telling, exits>>
  PROVE  IInv'
<1> USE DEF Leave
<1>1. TypeOK'
  <2>1. task' \in [Agents -> Places] /\ result' \in [Agents -> Ends \cup {"none"}]
    BY DEF IInv, TypeOK, Places
  <2>2. holders' \subseteq {b \in Direct : task'[b] \in {"run", "ended", "emitted"}}
    BY DEF IInv, TypeOK, Direct
  <2> QED BY <2>1, <2>2 DEF IInv, TypeOK, telling
<1>2. EndsKnown' /\ DirectWaits'
  BY DEF IInv, TypeOK, EndsKnown, DirectWaits
<1>3. CutShort'
  BY DEF IInv, TypeOK, CutShort
<1>4. RunningHasTask'
  BY DEF IInv, TypeOK, RunningHasTask
<1> QED BY <1>1, <1>2, <1>3, <1>4 DEF IInv

LEMMA UpdateKeeps ==
  ASSUME IInv, NEW a \in Agents, Update(a)
  PROVE  IInv'
<1>1. result[a] \in Ends
  BY DEF IInv, EndsKnown, Update
<1>2. CASE status[a] = "absent"
  <2>1. UNCHANGED <<status, handle, disk, panicked>> /\ up
    BY <1>2 DEF Update
  <2>2. \A b \in Agents : status'[b] = "Running" =>
          status[b] = "Running" /\ b \in handle' /\ (b # a \/ b \in panicked')
    BY <1>2, <2>1 DEF IInv, RunningHasTask
  <2> QED BY <2>1, <2>2, LeaveKeeps DEF Update, IInv, TypeOK
<1>3. CASE status[a] # "absent"
  <2>1. /\ status' = [status EXCEPT ![a] = result[a]] /\ handle' = handle \ {a}
        /\ Persist({status'}) /\ up
    BY <1>3 DEF Update
  <2>2. status' \in [Agents -> Statuses]
    BY <1>1, <2>1 DEF IInv, TypeOK, Statuses
  <2>3. disk' \in [Agents -> Statuses]
    BY <2>1, <2>2, PersistTypes DEF IInv, TypeOK
  <2>4. \A b \in Agents : status'[b] = "Running" =>
          status[b] = "Running" /\ b \in handle' /\ (b # a \/ b \in panicked')
    BY <1>1, <2>1 DEF IInv, TypeOK, RunningHasTask, Ends
  <2> QED BY <2>1, <2>2, <2>3, <2>4, LeaveKeeps DEF Update, IInv, TypeOK
<1> QED BY <1>2, <1>3

LEMMA CutKeeps ==
  ASSUME IInv, NEW a \in Agents, Die(a) \/ Panic(a)
  PROVE  IInv'
<1>1. Leave(a) /\ up /\ UNCHANGED <<up, table, telling, disk, exits>>
  BY DEF Die, Panic
<1>2. panicked \subseteq panicked' /\ panicked' \subseteq Agents
  BY DEF Die, Panic, IInv, TypeOK
<1>3. status[a] = "Running" => a \in panicked'
  BY DEF Die, Panic, IInv, CutShort
<1>4. \A b \in Agents : status'[b] = "Running" =>
        status[b] = "Running" /\ b \in handle' /\ (b # a \/ b \in panicked')
  BY <1>1, <1>3 DEF IInv, RunningHasTask, table
<1> QED BY <1>1, <1>2, <1>4, LeaveKeeps DEF IInv, TypeOK, table

LEMMA CheckpointKeeps ==
  ASSUME IInv, NEW a \in Agents, Checkpoint(a)
  PROVE  IInv'
<1>1. disk' \in [Agents -> Statuses]
  BY PersistTypes DEF Checkpoint, IInv, TypeOK
<1> QED BY <1>1 DEF Checkpoint, IInv, TypeOK, EndsKnown, DirectWaits, CutShort, RunningHasTask,
                    table, tasks, telling

-----------------------------------------------------------------------------
(* The engine and the process.                                             *)

LEMMA TellTypes ==
  ASSUME TypeOK, NEW S \in SUBSET Direct, Tell(S)
  PROVE  drained' \in [Agents -> Nat] /\ delivered' \subseteq Direct
BY DEF TypeOK, Tell

LEMMA EngineKeeps ==
  ASSUME IInv, Engine
  PROVE  IInv'
<1>1. UNCHANGED <<up, table, tasks, disk, panicked, exits>>
  BY DEF Engine, UserTurn, IdleWake, Drain, Look, EndTurn
<1>2. /\ engine' \in {"idle", "step", "look"}
      /\ channel' \subseteq Direct /\ delivered' \subseteq Direct
      /\ drained' \in [Agents -> Nat] /\ idled' \subseteq Direct
  <2>1. CASE UserTurn \/ IdleWake \/ EndTurn
    BY <2>1 DEF UserTurn, IdleWake, EndTurn, IInv, TypeOK
  <2>2. CASE Drain
    BY <2>2, TellTypes DEF Drain, IInv, TypeOK
  <2>3. CASE Look
    BY <2>3, TellTypes DEF Look, Terminal, IInv, TypeOK
  <2> QED BY <2>1, <2>2, <2>3 DEF Engine
<1> QED BY <1>1, <1>2 DEF IInv, TypeOK, EndsKnown, DirectWaits, CutShort, RunningHasTask,
                          table, tasks

LEMMA DeathKeeps ==
  ASSUME IInv, Crash \/ Shutdown
  PROVE  IInv'
<1>1. Gone /\ disk' \in {disk, status}
  BY DEF Crash, Shutdown
<1>2. TypeOK'
  <2>1. exits' \in 0..MaxExits
    BY <1>1, BoundsAssumption DEF Gone, IInv, TypeOK
  <2>2. task' \in [Agents -> Places] /\ status' \in [Agents -> Statuses]
        /\ result' \in [Agents -> Ends \cup {"none"}]
    BY <1>1 DEF Gone, Statuses, Places
  <2>3. disk' \in [Agents -> Statuses]
    BY <1>1 DEF IInv, TypeOK
  <2> QED BY <1>1, <2>1, <2>2, <2>3 DEF Gone, IInv, TypeOK
<1>3. EndsKnown' /\ DirectWaits' /\ CutShort' /\ RunningHasTask'
  BY <1>1 DEF Gone, IInv, EndsKnown, DirectWaits, CutShort, RunningHasTask
<1> QED BY <1>2, <1>3 DEF IInv

LEMMA BootKeeps ==
  ASSUME IInv, Boot
  PROVE  IInv'
<1>1. status' \in [Agents -> Statuses] /\ \A a \in Agents : status'[a] # "Running"
  BY DEF Boot, Loaded, IInv, TypeOK, Statuses, Ends
<1> QED BY <1>1 DEF Boot, IInv, TypeOK, EndsKnown, DirectWaits, CutShort, RunningHasTask,
                    tasks, telling

LEMMA StepKeeps == IInv /\ [Next]_vars => IInv'
<1> SUFFICES ASSUME IInv, [Next]_vars PROVE IInv'
  OBVIOUS
<1>1. CASE UNCHANGED vars
  BY <1>1 DEF vars, table, tasks, telling, IInv, TypeOK, EndsKnown, DirectWaits, CutShort,
              RunningHasTask
<1>2. ASSUME NEW a \in Agents, Cancel(a) \/ Task(a) \/ Checkpoint(a) \/ Panic(a) PROVE IInv'
  BY <1>2, CancelKeeps, LaunchKeeps, RunKeeps, EmitKeeps, UpdateKeeps, CutKeeps, CheckpointKeeps
     DEF Task
<1>3. ASSUME NEW stale \in SUBSET Admitted, NEW old,
             Cleanup(stale, old) \/ \E a \in Agents : Spawn(a, stale, old)
      PROVE  IInv'
  BY <1>3, CleanupKeeps, SpawnKeeps
<1>4. CASE Engine
  BY <1>4, EngineKeeps
<1>5. CASE Crash \/ Shutdown \/ Boot
  BY <1>5, DeathKeeps, BootKeeps
<1> QED BY <1>1, <1>2, <1>3, <1>4, <1>5 DEF Next

LEMMA InductiveInvariant == Spec => []IInv
BY InitInv, StepKeeps, PTL DEF Spec

(* Type correctness of the table, the tasks and the file *)
(* (tools/subagent/mod.rs).                              *)
THEOREM TypeCorrect == Spec => []TypeOK
<1>1. IInv => TypeOK
  BY DEF IInv
<1> QED BY <1>1, InductiveInvariant, PTL

(* An agent listed as running has a task that will report, or one that     *)
(* panicked, however aborts, late updates and restarts interleave.         *)
THEOREM RunningCorrect == Spec => []RunningHasTask
<1>1. IInv => RunningHasTask
  BY DEF IInv
<1> QED BY <1>1, InductiveInvariant, PTL

-----------------------------------------------------------------------------
(* The bound on the population.                                            *)

(* Nothing but a spawn makes an agent count. *)
LEMMA AdmittedShrinks ==
  ASSUME IInv, [Next]_vars, ~\E a \in Agents, stale \in SUBSET Admitted, old \in SUBSET Agents :
                               Spawn(a, stale, old)
  PROVE  Admitted' \subseteq Admitted
<1>1. CASE UNCHANGED vars
  BY <1>1 DEF vars, table, Admitted
<1>2. ASSUME NEW a \in Agents, Cancel(a) \/ Task(a) \/ Checkpoint(a) \/ Panic(a)
      PROVE  Admitted' \subseteq Admitted
  <2>1. CASE Cancel(a)
    BY <2>1 DEF Cancel, Admitted, IInv, TypeOK
  <2>2. CASE Update(a)
    BY <2>2 DEF Update, Admitted, IInv, TypeOK, EndsKnown, Ends
  <2>3. CASE Interrupt(a)
    BY <2>3 DEF Interrupt, Admitted, IInv, TypeOK
  <2>4. CASE UNCHANGED <<status, handle>>
    BY <2>4 DEF Admitted
  <2> QED BY <1>2, <2>1, <2>2, <2>3, <2>4
          DEF Task, LaunchNow, Enqueue, AcquirePermit, Finish, Emit, Die, Checkpoint, Panic, table
<1>3. ASSUME NEW stale \in SUBSET Admitted, NEW old, Cleanup(stale, old)
      PROVE  Admitted' \subseteq Admitted
  <2>1. status' = Cleaned(stale, old) /\ handle' = handle \ stale
    BY <1>3 DEF Cleanup, Expired
  <2>2. \A a \in Agents : Cleaned(stale, old)[a] = "Running" => status[a] = "Running"
    BY CleanedTable DEF IInv
  <2> QED BY <2>1, <2>2 DEF Admitted, IInv, TypeOK
<1>4. CASE Engine
  BY <1>4 DEF Engine, UserTurn, IdleWake, Drain, Look, EndTurn, table, Admitted
<1>5. CASE Crash \/ Shutdown
  BY <1>5 DEF Crash, Shutdown, Gone, Admitted
<1>6. CASE Boot
  BY <1>6 DEF Boot, Loaded, Admitted, IInv, TypeOK
<1>7. \A stale \in SUBSET Admitted : Forgettable(stale) \subseteq Agents
  BY DEF Forgettable
<1> QED BY <1>1, <1>2, <1>3, <1>4, <1>5, <1>6, <1>7 DEF Next

LEMMA AdmissionStep == IInv /\ WithinAdmission /\ [Next]_vars => WithinAdmission'
<1> SUFFICES ASSUME IInv, WithinAdmission, [Next]_vars PROVE WithinAdmission'
  OBVIOUS
<1>1. WithinAdmission <=> Cardinality(Admitted) <= MaxAdmitted
  BY DEF WithinAdmission, Admitted
<1>2. WithinAdmission' <=> Cardinality(Admitted') <= MaxAdmitted
  BY DEF WithinAdmission, Admitted
<1>3. Admitted \subseteq Agents /\ IsFiniteSet(Admitted)
  BY AgentsAssumption, FS_Subset DEF Admitted, IInv, TypeOK
<1>4. Cardinality(Admitted) \in Nat /\ MaxAdmitted \in Nat
  BY <1>3, FS_CardinalityType, LimitsAssumption
<1>5. CASE Admitted' \subseteq Admitted
  <2>1. Cardinality(Admitted') \in Nat /\ Cardinality(Admitted') <= Cardinality(Admitted)
    BY <1>3, <1>5, FS_Subset, FS_CardinalityType
  <2> QED BY <1>1, <1>2, <1>4, <2>1
<1>6. ASSUME NEW a \in Agents, NEW stale \in SUBSET Admitted, NEW old, Spawn(a, stale, old)
      PROVE  WithinAdmission'
  <2> DEFINE S == Admitted \ stale
  <2>1. IsFiniteSet(S) /\ Cardinality(S) \in Nat /\ Cardinality(S) < MaxAdmitted
    BY <1>3, <1>6, FS_Subset, FS_CardinalityType DEF Spawn
  <2>2. IsFiniteSet(S \cup {a}) /\ Cardinality(S \cup {a}) <= Cardinality(S) + 1
    BY <2>1, FS_AddElement
  <2>3. Admitted' \subseteq S \cup {a}
    BY <1>6, CleanedTable DEF Spawn, Admitted, IInv, TypeOK, Expired
  <2>4. Cardinality(Admitted') \in Nat /\ Cardinality(Admitted') <= Cardinality(S \cup {a})
        /\ Cardinality(S \cup {a}) \in Nat
    BY <2>2, <2>3, FS_Subset, FS_CardinalityType
  <2> QED BY <1>2, <1>4, <2>1, <2>2, <2>4
<1> QED BY <1>5, <1>6, AdmittedShrinks

(* The population of running and queued agents never exceeds the limit a   *)
(* spawn compares it with after its own cleanup (docs/SUBAGENTS.md:213).   *)
THEOREM AdmissionCorrect == Spec => []WithinAdmission
<1>1. Init => WithinAdmission
  <2>1. ASSUME Init PROVE {a \in handle : status[a] = "Running"} = {}
    BY <2>1 DEF Init
  <2> QED BY <2>1, FS_EmptySet, LimitsAssumption DEF WithinAdmission
<1> QED BY <1>1, InductiveInvariant, AdmissionStep, PTL DEF Spec

-----------------------------------------------------------------------------
(* What the model is told.                                                 *)

(* An agent of this boot that was told of is among the delivered, a fresh  *)
(* agent is not told of, and whoever may be told of is of this boot.       *)
Recorded(a) ==
  /\ drained[a] <= 1
  /\ drained[a] > 0 /\ a \in ours => a \in delivered
  /\ task[a] = "none" => drained[a] = 0 /\ a \notin ours
  /\ task[a] \in Live \/ a \in channel => a \in ours

TellsRecorded == \A a \in Agents : Recorded(a)

TInv == IInv /\ TellsRecorded

LEMMA RecordsStand ==
  ASSUME TellsRecorded, UNCHANGED <<ours, channel, delivered, drained>>,
         \A a \in Agents : /\ task'[a] = "none" => task[a] = "none"
                           /\ task'[a] \in Live => task[a] \in Live
  PROVE  TellsRecorded'
BY DEF TellsRecorded, Recorded

LEMMA TellOnce ==
  ASSUME TInv, NEW S, S \subseteq ours \ delivered, Tell(S), channel' \subseteq channel,
         UNCHANGED <<ours, task>>
  PROVE  TellsRecorded'
<1> SUFFICES ASSUME NEW a \in Agents PROVE Recorded(a)'
  BY DEF TellsRecorded
<1>1. Recorded(a) /\ drained[a] \in Nat
  BY DEF TInv, TellsRecorded, IInv, TypeOK
<1>2. drained'[a] = drained[a] + (IF a \in S THEN 1 ELSE 0) /\ delivered' = delivered \cup S
  BY DEF Tell
<1>3. a \in S => drained[a] = 0 /\ task[a] # "none"
  BY <1>1 DEF Recorded
<1> QED BY <1>1, <1>2, <1>3 DEF Recorded

LEMMA RecordedStep == TInv /\ [Next]_vars => TellsRecorded'
<1> SUFFICES ASSUME TInv, [Next]_vars PROVE TellsRecorded'
  OBVIOUS
<1>0. TellsRecorded /\ task \in [Agents -> Places] /\ channel \subseteq Direct
  BY DEF TInv, IInv, TypeOK
<1>1. CASE UNCHANGED vars
  BY <1>0, <1>1, RecordsStand DEF vars, table, tasks, telling
<1>2. ASSUME NEW a \in Agents, Cancel(a) \/ Task(a) \/ Checkpoint(a) \/ Panic(a)
      PROVE  TellsRecorded'
  <2>1. CASE Emit(a)
    <3>1. channel' \subseteq channel \cup {a} /\ a \in ours
      BY <1>0, <2>1 DEF Emit, TellsRecorded, Recorded, Live, Places
    <3> QED BY <1>0, <2>1, <3>1 DEF Emit, TellsRecorded, Recorded, Live, Places, table
  <2>2. CASE Cancel(a) \/ Checkpoint(a)
    BY <1>0, <2>2, RecordsStand DEF Cancel, Checkpoint, table, tasks, telling
  <2>3. CASE LaunchNow(a) \/ Enqueue(a) \/ AcquirePermit(a)
    BY <1>0, <2>3, RecordsStand
       DEF LaunchNow, Enqueue, AcquirePermit, table, telling, Live, Places
  <2>4. CASE Interrupt(a) \/ \E r \in Outcomes : Finish(a, r)
    BY <1>0, <2>4, RecordsStand DEF Interrupt, Finish, Ended, table, telling, Live, Places
  <2>5. CASE Update(a) \/ Die(a) \/ Panic(a)
    BY <1>0, <2>5, RecordsStand DEF Update, Die, Panic, Leave, table, telling, Live, Places
  <2> QED BY <1>2, <2>1, <2>2, <2>3, <2>4, <2>5 DEF Task
<1>3. ASSUME NEW stale \in SUBSET Admitted, NEW old,
             Cleanup(stale, old) \/ \E a \in Agents : Spawn(a, stale, old)
      PROVE  TellsRecorded'
  <2>1. CASE Cleanup(stale, old)
    BY <1>0, <2>1, RecordsStand DEF Cleanup, telling
  <2>2. ASSUME NEW a \in Agents, Spawn(a, stale, old) PROVE TellsRecorded'
    <3>1. /\ task[a] = "none" /\ ours' = ours \cup {a}
          /\ \E p \in {"run", "launch"} : task' = [task EXCEPT ![a] = p]
          /\ UNCHANGED <<channel, delivered, drained>>
      BY <2>2 DEF Spawn, telling
    <3> QED BY <1>0, <3>1 DEF TellsRecorded, Recorded
  <2> QED BY <1>3, <2>1, <2>2
<1>4. CASE UserTurn \/ EndTurn
  BY <1>0, <1>4, RecordsStand DEF UserTurn, EndTurn, table, tasks
<1>5. CASE IdleWake
  BY <1>0, <1>5 DEF IdleWake, table, tasks, TellsRecorded, Recorded
<1>6. CASE Drain
  <2>1. channel \ delivered \subseteq ours \ delivered
    BY <1>0 DEF TellsRecorded, Recorded, Direct
  <2> QED BY <1>6, <2>1, TellOnce DEF Drain, table, tasks
<1>7. CASE Look
  BY <1>7, TellOnce DEF Look, Terminal, table, tasks
<1>8. CASE Crash \/ Shutdown
  <2>1. Gone
    BY <1>8 DEF Crash, Shutdown
  <2> QED BY <1>0, <2>1 DEF Gone, TellsRecorded, Recorded, Live, Places
<1>9. CASE Boot
  BY <1>0, <1>9, RecordsStand DEF Boot, tasks, telling
<1> QED BY <1>1, <1>2, <1>3, <1>4, <1>5, <1>6, <1>7, <1>8, <1>9 DEF Next, Engine

(* In turns the model is told of a child's end at most once, though the    *)
(* channel and the table are filled at different times and the table       *)
(* survives a restart (core/engine/turn_loop.rs).                          *)
THEOREM DrainedCorrect == Spec => []DrainedOnce
<1>1. Init => TInv
  <2>1. Init => TellsRecorded
    BY DEF Init, TellsRecorded, Recorded, Live, Places
  <2> QED BY <2>1, InitInv DEF TInv
<1>2. TInv /\ [Next]_vars => TInv'
  BY StepKeeps, RecordedStep DEF TInv
<1>3. TInv => DrainedOnce
  BY DEF TInv, TellsRecorded, Recorded, DrainedOnce
<1> QED BY <1>1, <1>2, <1>3, PTL DEF Spec
=============================================================================

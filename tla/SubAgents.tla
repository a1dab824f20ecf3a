------------------------------ MODULE SubAgents ------------------------------
(***************************************************************************)
(* The sub-agents of one engine: a manager under one lock that admits,     *)
(* launches, cancels and forgets children, a task per child that outlives  *)
(* the turn that spawned it, and an engine that tells the model which of   *)
(* its children have ended, from a channel and from the manager's table.   *)
(*                                                                         *)
(* A task tells its parent before it tells the manager, and an aborted     *)
(* task goes on until its next await.                                      *)
(***************************************************************************)
EXTENDS Naturals, FiniteSets

CONSTANTS
  Agents,
  Nested,        \* the agents spawned by another agent
  MaxAdmitted,   \* max_admitted_agents
  Launch,        \* launch_concurrency: the permits of a launch gate
  Outcomes,      \* how run_subagent returns, if not interrupted
  MaxExits,      \* bound: deaths and shutdowns of the process
  MaxPanics      \* bound: tasks that panic

ASSUME AgentsAssumption == IsFiniteSet(Agents) /\ Nested \subseteq Agents
ASSUME LimitsAssumption == MaxAdmitted \in Nat \ {0} /\ Launch \in Nat \ {0}
ASSUME OutcomesAssumption == Outcomes \subseteq {"Completed", "Failed"}
ASSUME BoundsAssumption == MaxExits \in Nat /\ MaxPanics \in Nat

VARIABLES
  up,
  status,        \* SubAgentManager.agents: the status of each agent in the table
  handle,        \* the agents with a task_handle
  ours,          \* agents of this boot (session_boot_id)
  task,          \* where the task of each agent stands
  result,        \* what run_subagent returned to it
  holders,       \* the agents that hold a permit of the launch gate
  engine,        \* "idle", or in a turn: at a "step" or between two halves of a drain, "look"
  channel,       \* rx_subagent_completion
  delivered,     \* delivered_subagent_completion_ids
  drained,       \* history: how often each completion was told in a turn
  idled,         \* history: completions told by a turn that resumed an idle engine
  disk,          \* subagents.v1.json: the status of each agent
  aborted,       \* the tasks that are aborted and have yet to notice
  panicked,      \* history: the tasks that panicked
  exits

table   == <<status, handle, ours>>
tasks   == <<task, result, holders, aborted>>
telling == <<engine, channel, delivered, drained, idled>>
vars    == <<up, table, tasks, telling, disk, panicked, exits>>

Ends     == {"Completed", "Failed", "Interrupted"}
Statuses == {"absent", "Running", "Cancelled"} \cup Ends
Places   == {"none", "launch", "queued", "run", "ended", "emitted", "gone"}
Live     == Places \ {"none", "gone"}
Direct   == Agents \ Nested

TypeOK ==
  /\ up \in BOOLEAN
  /\ status \in [Agents -> Statuses] /\ handle \subseteq Agents
  /\ ours \subseteq Agents
  /\ task \in [Agents -> Places] /\ result \in [Agents -> Ends \cup {"none"}]
  /\ holders \subseteq {a \in Direct : task[a] \in {"run", "ended", "emitted"}}
  /\ engine \in {"idle", "step", "look"}
  /\ channel \subseteq Direct /\ delivered \subseteq Direct
  /\ drained \in [Agents -> Nat] /\ idled \subseteq Direct
  /\ disk \in [Agents -> Statuses]
  /\ aborted \cup panicked \subseteq Agents
  /\ exits \in 0..MaxExits

Init ==
  /\ up = TRUE
  /\ status = [a \in Agents |-> "absent"] /\ handle = {}
  /\ ours = {}
  /\ task = [a \in Agents |-> "none"] /\ result = [a \in Agents |-> "none"]
  /\ holders = {}
  /\ engine = "idle" /\ channel = {} /\ delivered = {}
  /\ drained = [a \in Agents |-> 0] /\ idled = {}
  /\ disk = [a \in Agents |-> "absent"]
  /\ aborted = {} /\ panicked = {}
  /\ exits = 0

-----------------------------------------------------------------------------
(* The file.                                                               *)

(* persist_state for each of the snapshots.  Threads nobody waits for      *)
(* write them, in any order, and a process that dies takes the unwritten   *)
(* ones along.  The file is read by the next boot only: what it finds is   *)
(* any snapshot taken, the last or not.                                    *)
Persist(snapshots) == disk' \in {disk} \cup snapshots

-----------------------------------------------------------------------------
(* The manager, each handler under its write lock.                         *)

(* What counts as running, queued agents included. *)
Admitted == {a \in handle : status[a] = "Running"}

(* cleanup: it cancels the running agents whose heartbeat has timed out,   *)
(* and forgets what has ended and is older than the retention.  Time is    *)
(* left open: any may have timed out, any may be old.  The clock is read   *)
(* once.                                                                   *)
(* Mutant: only what has ended is cleaned up.                              *)
Expired_None(stale) == {}

Expired(stale) == stale

Cleaned(stale, old) ==
  [a \in Agents |->
     LET s == IF a \in Expired(stale) THEN "Cancelled" ELSE status[a]
     IN  IF s # "Running" /\ a \in old THEN "absent" ELSE s]

(* Those that have ended, and by now are old. *)
Forgettable(stale) == {a \in Agents : a \in stale \/ status[a] \notin {"absent", "Running"}}

Abort(S) == aborted' = aborted \cup {a \in S \cap handle : task[a] \in Live}

(* For a client that lists the agents, and for a summary of the session. *)
Cleanup(stale, old) ==
  /\ up /\ Cleaned(stale, old) # status
  /\ status' = Cleaned(stale, old)
  /\ handle' = handle \ Expired(stale) /\ Abort(Expired(stale))
  /\ Persist({status'})
  /\ UNCHANGED <<up, ours, task, result, holders, telling, panicked, exits>>

(* A spawn cleans up first; refused, it does nothing else.  A direct child *)
(* is spawned by a step of the turn, a nested one by a step of an agent.   *)
Spawn(a, stale, old) ==
  /\ up /\ task[a] = "none"
  /\ IF a \in Nested THEN \E b \in Agents : task[b] = "run" ELSE engine = "step"
  /\ Cardinality(Admitted \ stale) < MaxAdmitted
  /\ LET cleaned == Cleaned(stale, old)
     IN  /\ status' = [cleaned EXCEPT ![a] = "Running"]
         /\ Persist((IF cleaned = status THEN {} ELSE {cleaned}) \cup {status'})
  /\ handle' = (handle \ Expired(stale)) \cup {a}
  /\ Abort(Expired(stale))
  /\ ours' = ours \cup {a}
  /\ task' = [task EXCEPT ![a] = IF a \in Nested THEN "run" ELSE "launch"]
  /\ UNCHANGED <<up, result, holders, telling, panicked, exits>>

(* cancel_agent *)
Cancel(a) ==
  /\ up /\ status[a] = "Running"
  /\ status' = [status EXCEPT ![a] = "Cancelled"]
  /\ handle' = handle \ {a} /\ Abort({a})
  /\ Persist({status'})
  /\ UNCHANGED <<up, ours, task, result, holders, telling, panicked, exits>>

-----------------------------------------------------------------------------
(* run_subagent_task.                                                      *)

Free    == Cardinality(holders) < Launch
Waiting == {a \in Agents : task[a] = "queued"}

(* try_acquire_owned: a permit that is given back goes to a waiting task.  *)
LaunchNow(a) ==
  /\ up /\ task[a] = "launch" /\ Free /\ Waiting = {}
  /\ task' = [task EXCEPT ![a] = "run"] /\ holders' = holders \cup {a}
  /\ UNCHANGED <<up, table, result, aborted, telling, disk, panicked, exits>>

(* record_queued_launch_progress: the last time the agent is touched       *)
(* before it has a permit.                                                 *)
Enqueue(a) ==
  /\ up /\ task[a] = "launch" /\ ~(Free /\ Waiting = {})
  /\ task' = [task EXCEPT ![a] = "queued"]
  /\ UNCHANGED <<up, table, result, holders, aborted, telling, disk, panicked, exits>>

AcquirePermit(a) ==
  /\ up /\ task[a] = "queued" /\ Free
  /\ task' = [task EXCEPT ![a] = "run"] /\ holders' = holders \cup {a}
  /\ UNCHANGED <<up, table, result, aborted, telling, disk, panicked, exits>>

(* update_checkpoint: the file is written at most once in a while. *)
Checkpoint(a) ==
  /\ up /\ task[a] = "run" /\ status[a] # "absent"
  /\ Persist({status})
  /\ UNCHANGED <<up, table, tasks, telling, panicked, exits>>

Ended(a, r) ==
  /\ task' = [task EXCEPT ![a] = "ended"] /\ result' = [result EXCEPT ![a] = r]
  /\ UNCHANGED <<holders, aborted>>

(* interrupt_with_checkpoint, whatever the status; for an agent that was   *)
(* removed it is an error.                                                 *)
Interrupt(a) ==
  /\ up /\ task[a] = "run"
  /\ IF status[a] = "absent"
     THEN Ended(a, "Failed") /\ UNCHANGED <<status, disk>>
     ELSE /\ Ended(a, "Interrupted")
          /\ status' = [status EXCEPT ![a] = "Interrupted"]
          /\ Persist({status'})
  /\ UNCHANGED <<up, handle, ours, telling, panicked, exits>>

(* run_subagent returns. *)
Finish(a, r) ==
  /\ up /\ task[a] = "run"
  /\ Ended(a, r)
  /\ UNCHANGED <<up, table, telling, disk, panicked, exits>>

(* emit_parent_completion; a nested agent's goes to its parent's inbox.    *)
Emit(a) ==
  /\ up /\ task[a] = "ended"
  /\ task' = [task EXCEPT ![a] = "emitted"]
  /\ channel' = channel \cup ({a} \cap Direct)
  /\ UNCHANGED <<up, table, result, holders, aborted, engine, delivered, drained, idled,
                 disk, panicked, exits>>

(* The task is over and its permit given back. *)
(* Mutant: the permit of an aborted task is lost.                          *)
Leave_Keeps(a) ==
  /\ task' = [task EXCEPT ![a] = "gone"] /\ result' = [result EXCEPT ![a] = "none"]
  /\ aborted' = aborted \ {a}
  /\ UNCHANGED holders

Leave(a) ==
  /\ task' = [task EXCEPT ![a] = "gone"] /\ result' = [result EXCEPT ![a] = "none"]
  /\ aborted' = aborted \ {a}
  /\ holders' = holders \ {a}

(* update_from_result and update_failed, whatever the status. *)
Update(a) ==
  /\ up /\ task[a] = "emitted"
  /\ Leave(a)
  /\ IF status[a] = "absent" THEN UNCHANGED <<status, handle, disk>>
     ELSE /\ status' = [status EXCEPT ![a] = result[a]]
          /\ handle' = handle \ {a}
          /\ Persist({status'})
  /\ UNCHANGED <<up, ours, telling, panicked, exits>>

(* An aborted task ends at an await: of its permit, of the model or a      *)
(* tool, or of the manager's lock.                                         *)
Die(a) ==
  /\ up /\ a \in aborted /\ task[a] \in Live \ {"ended"}
  /\ Leave(a)
  /\ UNCHANGED <<up, table, telling, disk, panicked, exits>>

(* spawn_supervised catches it; nobody tells the manager. *)
Panic(a) ==
  /\ up /\ task[a] = "run" /\ Cardinality(panicked) < MaxPanics
  /\ Leave(a) /\ panicked' = panicked \cup {a}
  /\ UNCHANGED <<up, table, telling, disk, exits>>

-----------------------------------------------------------------------------
(* The engine.                                                             *)

UserTurn ==
  /\ up /\ engine = "idle" /\ engine' = "step"
  /\ UNCHANGED <<up, table, tasks, channel, delivered, drained, idled, disk, panicked, exits>>

(* handle_idle_subagent_completion: everything the channel holds, without  *)
(* a look at the set of the delivered ones.                                *)
IdleWake ==
  /\ up /\ engine = "idle" /\ channel # {}
  /\ idled' = idled \cup channel /\ channel' = {} /\ engine' = "step"
  /\ UNCHANGED <<up, table, tasks, delivered, drained, disk, panicked, exits>>

(* Completions told in a turn. *)
Tell(S) == /\ drained' = [a \in Agents |-> drained[a] + (IF a \in S THEN 1 ELSE 0)]
           /\ delivered' = delivered \cup S

(* drain_subagent_completion_events, up to its wait for the manager... *)
Drain ==
  /\ up /\ engine = "step" /\ engine' = "look"
  /\ Tell(channel \ delivered) /\ channel' = {}
  /\ UNCHANGED <<up, table, tasks, idled, disk, panicked, exits>>

(* terminal_results_excluding *)
(* Mutant: of any boot.                                                    *)
Terminal_AnyBoot ==
  {a \in Direct : status[a] \notin {"absent", "Running"}} \ delivered

Terminal ==
  {a \in Direct \cap ours : status[a] \notin {"absent", "Running"}} \ delivered

(* ... and from there. *)
Look ==
  /\ up /\ engine = "look" /\ engine' = "step"
  /\ Tell(Terminal)
  /\ UNCHANGED <<up, table, tasks, channel, idled, disk, panicked, exits>>

EndTurn ==
  /\ up /\ engine = "step" /\ engine' = "idle"
  /\ UNCHANGED <<up, table, tasks, channel, delivered, drained, idled, disk, panicked, exits>>

-----------------------------------------------------------------------------
(* The process.                                                            *)

(* What is left of it. *)
Gone ==
  /\ up' = FALSE
  /\ status' = [a \in Agents |-> "absent"] /\ handle' = {} /\ ours' = {}
  /\ task' = [a \in Agents |-> IF task[a] = "none" THEN "none" ELSE "gone"]
  /\ result' = [a \in Agents |-> "none"] /\ holders' = {}
  /\ engine' = "idle" /\ channel' = {} /\ delivered' = {}
  /\ exits < MaxExits /\ exits' = exits + 1
  /\ aborted' = {} /\ panicked' = {} /\ UNCHANGED <<drained, idled>>

Crash == up /\ Gone /\ UNCHANGED disk

(* Op::Shutdown: flush_pending_persist, if a checkpoint was put off. *)
Shutdown == up /\ engine = "idle" /\ Gone /\ disk' \in {disk, status}

(* load_state *)
(* Mutant: as they were written.                                           *)
Loaded_AsWritten == disk

Loaded == [a \in Agents |-> IF disk[a] = "Running" THEN "Interrupted" ELSE disk[a]]

Boot ==
  /\ ~up /\ up' = TRUE
  /\ status' = Loaded
  /\ UNCHANGED <<handle, ours, tasks, telling, disk, panicked, exits>>

-----------------------------------------------------------------------------
Task(a) ==
  \/ LaunchNow(a) \/ Enqueue(a) \/ AcquirePermit(a)
  \/ Interrupt(a) \/ \E r \in Outcomes : Finish(a, r)
  \/ Emit(a) \/ Update(a) \/ Die(a)

Engine == UserTurn \/ IdleWake \/ Drain \/ Look \/ EndTurn

Next ==
  \/ \E a \in Agents : Cancel(a) \/ Task(a) \/ Checkpoint(a) \/ Panic(a)
  \/ \E stale \in SUBSET Admitted : \E old \in SUBSET Forgettable(stale) :
       Cleanup(stale, old) \/ \E a \in Agents : Spawn(a, stale, old)
  \/ Engine
  \/ Crash \/ Shutdown \/ Boot

Spec == Init /\ [][Next]_vars

(* Tokio polls every ready task, and aborts it at an await; a permit goes  *)
(* to the task that waited longest.  A child's steps are assumed to end,   *)
(* and a turn ends after its last step, though it looks for completions    *)
(* again and again; an idle engine takes whatever comes, operations and    *)
(* completions, at random.                                                 *)
Fairness ==
  /\ \A a \in Agents : WF_vars(Task(a)) /\ SF_vars(AcquirePermit(a))
  /\ WF_vars(Look) /\ SF_vars(EndTurn) /\ SF_vars(IdleWake)

FairSpec == Spec /\ Fairness

-----------------------------------------------------------------------------
(* Safety, whatever is cancelled, goes stale, panics or dies.              *)

(* An agent that is listed as running has a task that will say how it      *)
(* ended, or one that panicked and that the next cleanup after its         *)
(* heartbeat cancels: no abort, late update or restart leaves a place      *)
(* under the admission limit taken for good.                               *)
RunningHasTask ==
  up => \A a \in Agents : status[a] = "Running" =>
          a \in handle /\ (task[a] \in Live \/ a \in panicked)

(* docs/SUBAGENTS.md:213: the population of running and queued agents is   *)
(* bounded, though stale ones are not counted (admitted_count) and tasks   *)
(* that were cancelled may still run.                                      *)
WithinAdmission ==
  Cardinality({a \in handle : status[a] = "Running"}) <= MaxAdmitted

(* In turns the model is told of a child's end at most once: the message   *)
(* on the channel and the manager's table are two sources of it, filled at *)
(* different times, and the table survives a restart.                      *)
DrainedOnce == \A a \in Agents : drained[a] <= 1

(* core/engine/turn_loop.rs:1369: a child still running in the background  *)
(* will report when done, though the turn that spawned it is over and it   *)
(* had to wait for a place at the launch gate behind children that were    *)
(* cancelled.                                                              *)
Told(a) == drained[a] > 0 \/ a \in idled

ChildrenReport ==
  \A a \in Direct : task[a] = "launch" ~>
    Told(a) \/ a \in aborted \cup panicked \/ exits > 0

-----------------------------------------------------------------------------
(* What the code's comments and the documentation say, and runs refute.    *)

(* core/engine.rs:581: the set of delivered completions is marked by both  *)
(* paths, so that none is told twice.  The path of the idle engine does    *)
(* not mark it.                                                            *)
ToldOnce == \A a \in Agents : ~(drained[a] > 0 /\ a \in idled)

(* docs/SUBAGENTS.md:220: children beyond the launch limit queue.  Waiting *)
(* is no progress to the heartbeat, so a cleanup cancels the ones that     *)
(* waited longer than its timeout.                                         *)
QueuedWaits ==
  [][\A a \in Direct : task[a] = "queued" /\ status[a] = "Running" =>
       status'[a] = "Running" \/ Cancel(a) \/ ~up']_vars
=============================================================================

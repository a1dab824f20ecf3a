----------------------------- MODULE TaskManager -----------------------------
(***************************************************************************)
(* The durable task manager: a FIFO of task ids and a table of records     *)
(* under one mutex, a pool of workers parked on a Notify, a cancellation   *)
(* token per running task, and the files tasks/<id>.json and queue.json    *)
(* that outlive the process.                                               *)
(*                                                                         *)
(* Every handler holds the mutex over its memory change and its blocking   *)
(* file writes, so one handler is one action; what happens between two     *)
(* critical sections of a worker (the token check, the pop, the wait, the  *)
(* execution, finish_task) is a step of its own.  Each file is replaced    *)
(* atomically, but a handler writes several: a write that fails leaves the *)
(* queue file and some task files written, and so does a crash.            *)
(***************************************************************************)
EXTENDS Naturals, Sequences, FiniteSets, Functions

CONSTANTS
  Tasks,        \* the ids add_task may draw (uuid-based, never reused)
  Workers,      \* the worker loops start_with_executor spawns
  NoTask, NoWorker,
  MaxFaults,    \* bound: writes that return an error
  MaxCrashes,   \* bound: deaths of the process
  MaxPanics     \* bound: panics of the executor inside a worker

ASSUME TasksAssumption == IsFiniteSet(Tasks) /\ NoTask \notin Tasks
ASSUME WorkersAssumption == NoWorker \notin Workers
ASSUME BoundsAssumption == MaxFaults \in Nat /\ MaxCrashes \in Nat /\ MaxPanics \in Nat

VARIABLES
  up,             \* is a manager process attached to the files
  tasks,          \* ManagerState.tasks: the status of each record in memory
  queue,          \* ManagerState.queue
  running_cancel, \* ManagerState.running_cancel: the worker that owns the token
  canceled,       \* the workers whose current token is cancelled
  pc,             \* where each worker_loop stands
  current,        \* the task a worker is executing
  result,         \* what the executor returned to the worker
  permit,         \* the one permit a Notify stores when nobody waits
  shutdown,       \* cancel_token of the manager
  diskTasks,      \* status in tasks/<id>.json, "absent" if there is no file
  diskQueue,      \* queue.json
  faults, crashes, panics,
  drawn,          \* the ids already used by an add_task, acknowledged or not
  acked,          \* history: tasks whose add_task returned Ok
  cancelAcked,    \* history: unfinished tasks whose cancel_task returned Ok
  starts          \* history: how often each task was handed to the executor

volatile == <<tasks, queue, running_cancel, canceled, pc, current, result, permit, shutdown>>
disk     == <<diskTasks, diskQueue>>
bounds   == <<faults, crashes, panics>>
history  == <<drawn, acked, cancelAcked, starts>>
vars     == <<up, volatile, disk, bounds, history>>

Terminal == {"Completed", "Failed", "Canceled"}
Status   == {"absent", "Queued", "Running"} \cup Terminal
Location == {"top", "lock", "wait", "parked", "run", "done", "exited"}

Known(m) == {t \in Tasks : m[t] # "absent"}

TypeOK ==
  /\ up \in BOOLEAN
  /\ tasks \in [Tasks -> Status]
  /\ queue \in Seq(Tasks)
  /\ running_cancel \in [Tasks -> Workers \cup {NoWorker}]
  /\ canceled \in SUBSET Workers
  /\ pc \in [Workers -> Location]
  /\ current \in [Workers -> Tasks \cup {NoTask}]
  /\ result \in [Workers -> Terminal]
  /\ permit \in BOOLEAN /\ shutdown \in BOOLEAN
  /\ diskTasks \in [Tasks -> Status]
  /\ diskQueue \in Seq(Tasks)
  /\ faults \in 0..MaxFaults /\ crashes \in 0..MaxCrashes /\ panics \in 0..MaxPanics
  /\ drawn \in SUBSET Tasks /\ acked \in SUBSET Tasks /\ cancelAcked \in SUBSET Tasks
  /\ starts \in [Tasks -> Nat]

-----------------------------------------------------------------------------
(* The files.                                                              *)

WriteTasks(S, m) == diskTasks' = [t \in Tasks |-> IF t \in S THEN m[t] ELSE diskTasks[t]]

(* A run of writes cut short: the queue file goes first, then the records  *)
(* in no particular order (they come out of a HashMap).                    *)
WriteSome(S, m, q) ==
  \/ UNCHANGED disk
  \/ diskQueue' = q /\ \E W \in SUBSET S : W # S /\ WriteTasks(W, m)

(* persist_all_locked: ok says whether every write succeeded. *)
(* Mutant: only the queue file.                                            *)
PersistAll_QueueOnly(m, q, ok) ==
  IF ok THEN diskQueue' = q /\ UNCHANGED <<diskTasks, faults>>
        ELSE faults < MaxFaults /\ faults' = faults + 1 /\ WriteSome({}, m, q)

PersistAll(m, q, ok) ==
  IF ok THEN /\ diskQueue' = q /\ WriteTasks(Known(m), m)
             /\ UNCHANGED faults
        ELSE /\ faults < MaxFaults /\ faults' = faults + 1
             /\ WriteSome(Known(m), m, q)

(* persist_task_locked *)
PersistTask(t, ok) ==
  /\ UNCHANGED diskQueue
  /\ IF ok THEN WriteTasks({t}, tasks) /\ UNCHANGED faults
           ELSE faults < MaxFaults /\ faults' = faults + 1 /\ UNCHANGED diskTasks

-----------------------------------------------------------------------------
(* What each handler makes of the table and the queue.                     *)

(* queue.retain(|id| id != t), for a queue that holds t at most once *)
Without(q, t) ==
  IF t \notin Range(q) THEN q
  ELSE LET i == CHOOSE i \in DOMAIN q : q[i] = t
       IN  [j \in 1..(Len(q) - 1) |-> IF j < i THEN q[j] ELSE q[j + 1]]

AfterAdd(t) == [tasks |-> [tasks EXCEPT ![t] = "Queued"], queue |-> Append(queue, t)]

(* Mutants: the entry stays in the queue; a running task is marked at      *)
(* once; a finished task is marked too.                                    *)
AfterCancel_KeepsEntry(t) ==
  [tasks |-> IF tasks[t] = "Queued" THEN [tasks EXCEPT ![t] = "Canceled"] ELSE tasks,
   queue |-> queue]
AfterCancel_Eager(t) ==
  IF tasks[t] \in Terminal THEN [tasks |-> tasks, queue |-> queue]
  ELSE [tasks |-> [tasks EXCEPT ![t] = "Canceled"], queue |-> Without(queue, t)]
AfterCancel_Anything(t) ==
  IF tasks[t] = "Running" THEN [tasks |-> tasks, queue |-> queue]
  ELSE [tasks |-> [tasks EXCEPT ![t] = "Canceled"], queue |-> Without(queue, t)]

AfterCancel(t) ==
  IF tasks[t] = "Queued"
  THEN [tasks |-> [tasks EXCEPT ![t] = "Canceled"], queue |-> Without(queue, t)]
  ELSE [tasks |-> tasks, queue |-> queue]

(* The token of a running task is looked up in running_cancel.             *)
CanceledTokens(t) ==
  IF tasks[t] = "Running" /\ running_cancel[t] # NoWorker
  THEN canceled \cup {running_cancel[t]} ELSE canceled

AfterStart == [tasks |-> [tasks EXCEPT ![Head(queue)] = "Running"], queue |-> Tail(queue)]

(* finish_task: an answer that arrives after the token was cancelled is a  *)
(* cancellation, a failure stays a failure.                                *)
(* Mutants: the answer wins; a failed task is queued again.                *)
Outcome_AnswerWins(w) == result[w]
Outcome_Retries(w) == IF result[w] = "Failed" THEN "Queued" ELSE result[w]

Outcome(w) == IF w \in canceled /\ result[w] = "Completed" THEN "Canceled" ELSE result[w]

AfterFinish(w) == [tasks |-> [tasks EXCEPT ![current[w]] = Outcome(w)], queue |-> queue]

Startable == queue # <<>> /\ tasks[Head(queue)] = "Queued"

-----------------------------------------------------------------------------
(* load_state: running records fail, and the queue is the file's queue     *)
(* without the ids that are not queued, then the queued ids it lacks in    *)
(* the order of their random ids.                                          *)

(* Mutant: running records are queued again.                               *)
Loaded_Requeues(d) == [t \in Tasks |-> IF d[t] = "Running" THEN "Queued" ELSE d[t]]

Loaded(d) == [t \in Tasks |-> IF d[t] = "Running" THEN "Failed" ELSE d[t]]

Before(q, a, b) == \E i, j \in DOMAIN q : i < j /\ q[i] = a /\ q[j] = b

Orderings(S) == {s \in [1..Cardinality(S) -> S] : IsInjective(s) /\ Range(s) = S}

LoadedQueues(d, q) ==
  {s \in Orderings({t \in Tasks : Loaded(d)[t] = "Queued"}) :
     \A i, j \in DOMAIN s : i < j /\ s[j] \in Range(q) => Before(q, s[i], s[j])}

Recovered(d) == {t \in Tasks : d[t] = "Running"}

Reset ==
  /\ up' = FALSE
  /\ tasks' = [t \in Tasks |-> "absent"]
  /\ queue' = <<>>
  /\ running_cancel' = [t \in Tasks |-> NoWorker]
  /\ canceled' = {}
  /\ pc' = [w \in Workers |-> "exited"]
  /\ current' = [w \in Workers |-> NoTask]
  /\ result' = [w \in Workers |-> "Failed"]
  /\ permit' = FALSE
  /\ shutdown' = FALSE

Init ==
  /\ up = FALSE
  /\ tasks = [t \in Tasks |-> "absent"]
  /\ queue = <<>>
  /\ running_cancel = [t \in Tasks |-> NoWorker]
  /\ canceled = {}
  /\ pc = [w \in Workers |-> "exited"]
  /\ current = [w \in Workers |-> NoTask]
  /\ result = [w \in Workers |-> "Failed"]
  /\ permit = FALSE
  /\ shutdown = FALSE
  /\ diskTasks = [t \in Tasks |-> "absent"]
  /\ diskQueue = <<>>
  /\ faults = 0 /\ crashes = 0 /\ panics = 0
  /\ drawn = {} /\ acked = {} /\ cancelAcked = {}
  /\ starts = [t \in Tasks |-> 0]

(* start_with_executor: load the files, write back the reconciled queue    *)
(* and the recovered records, spawn the workers.                           *)
Boot ==
  /\ ~up
  /\ \E q \in LoadedQueues(diskTasks, diskQueue) :
       /\ tasks' = Loaded(diskTasks) /\ queue' = q
       /\ diskQueue' = q /\ WriteTasks(Recovered(diskTasks), Loaded(diskTasks))
  /\ up' = TRUE
  /\ pc' = [w \in Workers |-> "top"]
  /\ UNCHANGED <<running_cancel, canceled, current, result, permit, shutdown, bounds, history>>

(* A write of the boot fails: start_with_executor returns the error and    *)
(* there is no manager.                                                    *)
BootFails ==
  /\ ~up
  /\ faults < MaxFaults /\ faults' = faults + 1
  /\ \E q \in LoadedQueues(diskTasks, diskQueue) :
       WriteSome(Recovered(diskTasks), Loaded(diskTasks), q)
  /\ UNCHANGED <<up, volatile, crashes, panics, history>>

-----------------------------------------------------------------------------
(* The client operations.                                                  *)

(* notify_one wakes a parked worker, or stores the single permit. *)
NotifyOne ==
  IF \E w \in Workers : pc[w] = "parked"
  THEN /\ \E w \in Workers : pc[w] = "parked" /\ pc' = [pc EXCEPT ![w] = "top"]
       /\ UNCHANGED permit
  ELSE permit' = TRUE /\ UNCHANGED pc

(* A failed write returns before notify_one, with the record and the queue *)
(* entry already in memory.                                                *)
(* Mutant: the failed add is taken back from memory, its files are not.    *)
AddTask_TakesBack(t, ok) ==
  /\ up /\ t \notin drawn
  /\ drawn' = drawn \cup {t}
  /\ tasks' = IF ok THEN AfterAdd(t).tasks ELSE tasks
  /\ queue' = IF ok THEN AfterAdd(t).queue ELSE queue
  /\ PersistAll(AfterAdd(t).tasks, AfterAdd(t).queue, ok)
  /\ IF ok THEN NotifyOne /\ acked' = acked \cup {t}
           ELSE UNCHANGED <<permit, pc, acked>>
  /\ UNCHANGED <<up, running_cancel, canceled, current, result, shutdown,
                 crashes, panics, cancelAcked, starts>>

AddTask(t, ok) ==
  /\ up /\ t \notin drawn
  /\ drawn' = drawn \cup {t}
  /\ tasks' = AfterAdd(t).tasks /\ queue' = AfterAdd(t).queue
  /\ PersistAll(AfterAdd(t).tasks, AfterAdd(t).queue, ok)
  /\ IF ok THEN NotifyOne /\ acked' = acked \cup {t}
           ELSE UNCHANGED <<permit, pc, acked>>
  /\ UNCHANGED <<up, running_cancel, canceled, current, result, shutdown,
                 crashes, panics, cancelAcked, starts>>

CancelTask(t, ok) ==
  /\ up /\ tasks[t] # "absent"
  /\ tasks' = AfterCancel(t).tasks /\ queue' = AfterCancel(t).queue
  /\ canceled' = CanceledTokens(t)
  /\ PersistAll(AfterCancel(t).tasks, AfterCancel(t).queue, ok)
  /\ cancelAcked' = IF ok /\ tasks[t] \notin Terminal THEN cancelAcked \cup {t} ELSE cancelAcked
  /\ UNCHANGED <<up, running_cancel, pc, current, result, permit, shutdown,
                 crashes, panics, drawn, acked, starts>>

(* record_tool_metadata, and apply_execution_event for a task a worker is  *)
(* executing: the record changes in details left out here and its own file *)
(* alone is rewritten, with the status the memory holds.                   *)
RecordDetails(t, ok) ==
  /\ up /\ tasks[t] # "absent"
  /\ PersistTask(t, ok)
  /\ UNCHANGED <<up, volatile, crashes, panics, history>>

Shutdown ==
  /\ up /\ ~shutdown
  /\ shutdown' = TRUE
  /\ UNCHANGED <<up, tasks, queue, running_cancel, canceled, pc, current, result, permit,
                 disk, bounds, history>>

-----------------------------------------------------------------------------
(* worker_loop                                                             *)

CheckShutdown(w) ==
  /\ up /\ pc[w] = "top"
  /\ pc' = [pc EXCEPT ![w] = IF shutdown THEN "exited" ELSE "lock"]
  /\ UNCHANGED <<up, tasks, queue, running_cancel, canceled, current, result, permit, shutdown,
                 disk, bounds, history>>

(* The queue is empty, or its head is not a queued task: the entry is      *)
(* dropped and the worker goes to wait without looking at the next one.    *)
NothingToStart(w) ==
  /\ up /\ pc[w] = "lock" /\ ~Startable
  /\ queue' = IF queue = <<>> THEN <<>> ELSE Tail(queue)
  /\ diskQueue' = IF queue = <<>> THEN diskQueue ELSE Tail(queue)
  /\ pc' = [pc EXCEPT ![w] = "wait"]
  /\ UNCHANGED <<up, tasks, running_cancel, canceled, current, result, permit, shutdown,
                 diskTasks, bounds, history>>

(* A failed write is logged and the task is executed all the same. *)
StartTask(w, ok) ==
  /\ up /\ pc[w] = "lock" /\ Startable
  /\ tasks' = AfterStart.tasks /\ queue' = AfterStart.queue
  /\ running_cancel' = [running_cancel EXCEPT ![Head(queue)] = w]
  /\ canceled' = canceled \ {w}
  /\ PersistAll(AfterStart.tasks, AfterStart.queue, ok)
  /\ current' = [current EXCEPT ![w] = Head(queue)]
  /\ pc' = [pc EXCEPT ![w] = "run"]
  /\ starts' = [starts EXCEPT ![Head(queue)] = @ + 1]
  /\ UNCHANGED <<up, result, permit, shutdown, crashes, panics, drawn, acked, cancelAcked>>

(* select! over the shutdown token and notified(): a stored permit is      *)
(* taken at once, otherwise the worker parks.                              *)
Wait(w) ==
  /\ up /\ pc[w] = "wait"
  /\ \/ permit /\ permit' = FALSE /\ pc' = [pc EXCEPT ![w] = "top"]
     \/ shutdown /\ pc' = [pc EXCEPT ![w] = "exited"] /\ UNCHANGED permit
     \/ ~permit /\ ~shutdown /\ pc' = [pc EXCEPT ![w] = "parked"] /\ UNCHANGED permit
  /\ UNCHANGED <<up, tasks, queue, running_cancel, canceled, current, result, shutdown,
                 disk, bounds, history>>

WakeForShutdown(w) ==
  /\ up /\ pc[w] = "parked" /\ shutdown
  /\ pc' = [pc EXCEPT ![w] = "exited"]
  /\ UNCHANGED <<up, tasks, queue, running_cancel, canceled, current, result, permit, shutdown,
                 disk, bounds, history>>

(* run_task: the executor's future resolves, with any final status whether *)
(* or not its token is cancelled.                                          *)
ExecutorReturns(w, r) ==
  /\ up /\ pc[w] = "run"
  /\ result' = [result EXCEPT ![w] = r]
  /\ pc' = [pc EXCEPT ![w] = "done"]
  /\ UNCHANGED <<up, tasks, queue, running_cancel, canceled, current, permit, shutdown,
                 disk, bounds, history>>

(* spawn_supervised catches the panic and lets the worker end: nobody      *)
(* calls finish_task, and no other worker takes its place.                 *)
ExecutorPanics(w) ==
  /\ up /\ pc[w] = "run"
  /\ panics < MaxPanics /\ panics' = panics + 1
  /\ pc' = [pc EXCEPT ![w] = "exited"]
  /\ current' = [current EXCEPT ![w] = NoTask]
  /\ UNCHANGED <<up, tasks, queue, running_cancel, canceled, result, permit, shutdown,
                 disk, faults, crashes, history>>

(* After a task the worker looks at the queue again.                       *)
(* Mutant: it waits for the next notification first.                       *)
Onward_Waits(w) == [pc EXCEPT ![w] = "wait"]

Onward(w) == [pc EXCEPT ![w] = "top"]

FinishTask(w, ok) ==
  /\ up /\ pc[w] = "done"
  /\ running_cancel' = [running_cancel EXCEPT ![current[w]] = NoWorker]
  /\ tasks' = AfterFinish(w).tasks
  /\ PersistAll(AfterFinish(w).tasks, queue, ok)
  /\ canceled' = canceled \ {w}
  /\ current' = [current EXCEPT ![w] = NoTask]
  /\ result' = [result EXCEPT ![w] = "Failed"]
  /\ pc' = Onward(w)
  /\ UNCHANGED <<up, queue, permit, shutdown, crashes, panics, history>>

-----------------------------------------------------------------------------
(* The process dies, between two handlers or in the middle of the writes   *)
(* of one.                                                                 *)

Crash ==
  /\ up /\ crashes < MaxCrashes /\ crashes' = crashes + 1
  /\ Reset
  /\ UNCHANGED <<disk, faults, panics, history>>

InFlight ==
  {AfterAdd(t) : t \in Tasks \ drawn}
    \cup {AfterCancel(t) : t \in Known(tasks)}
    \cup {AfterStart : w \in {v \in Workers : pc[v] = "lock" /\ Startable}}
    \cup {AfterFinish(w) : w \in {v \in Workers : pc[v] = "done"}}

CrashWriting ==
  /\ up /\ crashes < MaxCrashes /\ crashes' = crashes + 1
  /\ \E after \in InFlight : /\ WriteSome(Known(after.tasks), after.tasks, after.queue)
                              /\ drawn' = drawn \cup Known(after.tasks)
  /\ Reset
  /\ UNCHANGED <<faults, panics, acked, cancelAcked, starts>>

CrashBooting ==
  /\ ~up /\ crashes < MaxCrashes /\ crashes' = crashes + 1
  /\ \E q \in LoadedQueues(diskTasks, diskQueue) :
       WriteSome(Recovered(diskTasks), Loaded(diskTasks), q)
  /\ UNCHANGED <<up, volatile, faults, panics, history>>

-----------------------------------------------------------------------------
Worker(w) ==
  \/ CheckShutdown(w) \/ NothingToStart(w) \/ Wait(w) \/ WakeForShutdown(w)
  \/ \E ok \in BOOLEAN : StartTask(w, ok) \/ FinishTask(w, ok)

Client == \E t \in Tasks, ok \in BOOLEAN :
            AddTask(t, ok) \/ CancelTask(t, ok) \/ RecordDetails(t, ok)

Next ==
  \/ Boot \/ BootFails \/ Client \/ Shutdown
  \/ \E w \in Workers : Worker(w) \/ ExecutorPanics(w) \/ \E r \in Terminal : ExecutorReturns(w, r)
  \/ Crash \/ CrashWriting \/ CrashBooting

Spec == Init /\ [][Next]_vars

(* Tokio polls every ready task, so a worker that can step does; the       *)
(* executor is assumed to resolve; a host restarts a dead process.         *)
Fairness ==
  /\ WF_vars(Boot)
  /\ \A w \in Workers : WF_vars(Worker(w)) /\ WF_vars(\E r \in Terminal : ExecutorReturns(w, r))

FairSpec == Spec /\ Fairness

-----------------------------------------------------------------------------
(* Safety.                                                                 *)

(* The queue holds exactly the queued records, each once: no handler,      *)
(* reload or failed write makes an entry stale or a queued task            *)
(* unreachable (add_task, cancel_task's retain, worker_loop's pop,         *)
(* load_state's reconciliation).                                           *)
QueueHoldsTheQueued ==
  /\ IsInjective(queue)
  /\ Range(queue) = {t \in Tasks : tasks[t] = "Queued"}

(* running_cancel names exactly the running records, and a worker that     *)
(* executes or finishes a task owns the token cancel_task would reach: no  *)
(* task is in the hands of two workers and no cancellation goes to a token *)
(* nobody reads.                                                           *)
RunningTasksAreOwned ==
  /\ \A t \in Tasks : running_cancel[t] # NoWorker <=> tasks[t] = "Running"
  /\ \A w \in Workers :
       /\ pc[w] \in {"run", "done"} <=> current[w] # NoTask
       /\ current[w] # NoTask => running_cancel[current[w]] = w

(* What load_state would find never runs ahead of the memory: whatever     *)
(* writes failed, the file of a task holds a status the task has had, and  *)
(* a final status on disk is the one in memory.                            *)
Rank(s) == CASE s = "absent" -> 0 [] s = "Queued" -> 1 [] s = "Running" -> 2 [] OTHER -> 3

DiskNeverAhead ==
  up => \A t \in Tasks : Rank(diskTasks[t]) < Rank(tasks[t]) \/ diskTasks[t] = tasks[t]

(* A task whose add_task returned Ok is on disk from then on, and as long  *)
(* as it waits a restart would find it waiting: neither failed writes nor  *)
(* a crash in the middle of any handler loses it (add_task's persist       *)
(* before its Ok, load_state's missing entries).                           *)
AckedIsDurable ==
  \A t \in acked :
    /\ diskTasks[t] # "absent"
    /\ up => tasks[t] # "absent"
    /\ up /\ tasks[t] = "Queued" => diskTasks[t] = "Queued"

(* A cancellation that was acknowledged sticks: the task is never waiting  *)
(* again and never ends completed, in memory or on disk, across the race   *)
(* with finish_task, failed writes, crashes and restarts.                  *)
CancelSticks ==
  \A t \in cancelAcked :
    /\ diskTasks[t] \in {"Running", "Canceled", "Failed"}
    /\ up => tasks[t] \in {"Running", "Canceled", "Failed"}

(* While every write succeeds a task is handed to the executor at most     *)
(* once, whatever crashes happen in the middle of a handler (load_state    *)
(* fails running records instead of queueing them again).                  *)
StartedAtMostOnce == faults = 0 => \A t \in Tasks : starts[t] <= 1

(* No step of a live manager changes a final status (finish_task           *)
(* overwrites the status without looking at it).                           *)
FinalStatusIsFinal ==
  [][up /\ up' => \A t \in Tasks : tasks[t] \in Terminal => tasks'[t] = tasks[t]]_vars

-----------------------------------------------------------------------------
(* Progress and refinement.                                                *)

(* Every acknowledged task reaches a final status, through lost writes and *)
(* crashes, unless the manager is shut down or a worker panicked.          *)
AckedSettles ==
  \A t \in Tasks : t \in acked ~> (up /\ tasks[t] \in Terminal) \/ shutdown \/ panics > 0

(* What a client is told, or would be told after the next boot. *)
Reported == IF up THEN tasks ELSE Loaded(diskTasks)

Lifecycle == INSTANCE TaskLifecycle WITH status <- Reported, reliable <- (faults = 0)

(* While every write succeeds the manager is the lifecycle its clients     *)
(* rely on, crashes included.                                              *)
ImplementsLifecycle == Lifecycle!Spec

-----------------------------------------------------------------------------
(* The strengthening of the safety invariants that is inductive.           *)

(* No process: the volatile state is empty. *)
DownIsEmpty ==
  ~up => /\ \A t \in Tasks : tasks[t] = "absent" /\ running_cancel[t] = NoWorker
         /\ queue = <<>>
         /\ \A w \in Workers : pc[w] = "exited" /\ current[w] = NoTask

(* An id that was never drawn has no record and no file. *)
UndrawnIsFresh ==
  \A t \in Tasks \ drawn : tasks[t] = "absent" /\ diskTasks[t] = "absent"

(* The token of a running task belongs to the worker that executes it,     *)
(* unless that worker has panicked.                                        *)
TokensHaveOwners ==
  \A t \in Tasks : running_cancel[t] # NoWorker =>
    current[running_cancel[t]] = t \/ pc[running_cancel[t]] = "exited"

(* A running task whose cancellation was acknowledged has its token        *)
(* cancelled, so finish_task cannot record a completion.                   *)
CancelReachedToken ==
  \A t \in cancelAcked : tasks[t] = "Running" => running_cancel[t] \in canceled

Ownership == QueueHoldsTheQueued /\ RunningTasksAreOwned /\ DownIsEmpty /\ UndrawnIsFresh
               /\ TokensHaveOwners

Durability == DiskNeverAhead /\ AckedIsDurable /\ CancelSticks /\ CancelReachedToken

(* The inductive invariant. *)
IInv == TypeOK /\ Ownership /\ Durability
=============================================================================

# CodeWhale's runtime in TLA+

CodeWhale is a terminal coding agent in Rust. Beside its interactive screen it
runs as a local service: an HTTP API (`runtime_api.rs`) starts *threads* of
conversation and *turns* on them, a durable *task manager* runs turns in the
background, *automations* enqueue tasks on a schedule, and a *fleet* manager
hands work to worker processes. An engine spawns *sub-agents* that outlive its
turns. That service is where the program is
concurrent, keeps state on disk and must survive its own death, and it is what
this directory models.

All paths below are relative to `crates/tui/src/` unless they start with
`docs/`, `core/` or `crates/`; `core/` is `crates/tui/src/core/`.

1. [The system](#1-the-system) - components, state, interactions, what is hard
2. [The modules](#2-the-modules) - what each models, and how it maps to code
3. [The runs](#3-the-runs) - what TLC checks, bounds, fairness
4. [What the runs refute](#4-what-the-runs-refute)
5. [The proofs](#5-the-proofs)
6. [What is left out](#6-what-is-left-out)
7. [The plan](#7-the-plan)

## 1. The system

### How the parts interact

```
 HTTP clients ──> runtime_api ──────────────┐ start/interrupt/steer/compact
                     │ add/cancel task      v
 automation_manager ─┴─> task_manager ─> runtime_threads ──ops──> core/engine ─> model, tools
                          (queue, files)   (table, LRU)  <─events─ (one per loaded thread)
                               ^               │ monitor_turn
                               │ polls         v
                               └────────── event log (events/<thread>.jsonl) ──broadcast──> SSE
 fleet/manager ─> fleet/scheduler ─> fleet/ledger (append-only JSONL) ─> worker processes
 core/engine ─spawns─> tools/subagent (table, launch gate, subagents.v1.json)
      ^───────── completions: a channel, and the table at every drain ──┘
```

- `task_manager` calls `start_turn` and then *polls* the event log for
  `turn.completed`: the file is the channel between the two.
- `runtime_api` and `task_manager` share a `RuntimeThreadManager`; every handler
  is a tokio task, so any two handlers interleave at every `.await`.
- `core/engine` is one task per loaded thread, driven by a bounded channel of
  operations and answering on a bounded channel of events; `monitor_turn` reads
  these events, updates the records and appends to the log.
- `automation_manager` enqueues through `add_task` and later reconciles its run
  records with the tasks' states. Nothing is called back.
- A tool that needs leave asks through `monitor_turn`, which puts the request in
  a map all threads share, tells the clients and waits; the answer goes back to
  the engine on a channel it reads for every tool call.
- A sub-agent is a task of its own that outlives the turn that spawned it; the
  engine hears of its end from a channel, and again from the manager's table.

### Components that carry the program's own protocol

**Durable task manager** (`task_manager.rs`). State: `ManagerState` under one
mutex (records, FIFO of ids, cancellation token of each running task), a
`Notify` with its single permit, one file per task and one queue file.
Operations: `add_task`, `cancel_task`, `record_tool_metadata` and the other
edits of a record, the worker loop (pop, execute, `finish_task`), `shutdown`,
and `load_state` at boot. Hard: several files per handler with a crash or a
failed write between any two; one permit for several workers; a cancellation
that races the end of the task. Correct when: the queue is exactly the queued
tasks, a task has one owner, an acknowledged task or cancellation is not lost,
nothing is executed twice, and what waits is eventually run.

**Runtime event log and its readers** (`runtime_threads.rs` 518-610,
`runtime_api.rs` 1978-2050, `task_manager.rs` 428-600). State: the counter
`next_seq` in memory and in `state.json`; one JSONL file per thread; a broadcast
channel. Operations: `append_event`, `emit_event`, `events_since`, the SSE
handler, the executor's poll. Hard: the number is drawn under a lock, the line
is written after it; a subscriber lags; a replay and a subscription are two
steps. Correct when: a number is never given out twice, a reader sees each
event once, in order, and none is missed.

**Runtime threads and turns** (`runtime_threads.rs`, `core/engine.rs`). State:
the table of loaded engines with the active turn and interrupt flag of each, the
LRU, the two channels of each engine, its cancellation token, the turn records.
Operations: `start_turn`, `compact_thread`, `get_engine`, `update_thread`,
`interrupt_turn`, `steer_turn`, `monitor_turn`, `ensure_engine_loaded` and the
LRU's eviction, `recover_interrupted_state`. Hard: each handler takes the mutex
several times and acts on what it saw before; monitors of one engine share one
receiver; the engine renews its token when it takes a message; the event channel
may fill with nobody reading. Correct when: a thread has one turn at a time, a
turn started is driven to its end and announced with the status on disk, an
interrupt sticks, the table stays within its limit.

**Turn items and thread records** (`runtime_threads.rs`: `ThreadRecord`,
`TurnItemRecord`). State: files of a thread, its turns and its items. Operations:
the monitor opens and ends an item for each the engine tells of, at its end
ends those left; recovery interrupts those of a turn in progress. Hard:
whole-record writes from snapshots taken before an `.await`; recovery that
writes the turn before its items; an engine that drops what it announced.
Correct when: no update is lost, and no item is in progress in a turn that ended.

**Approvals and dynamic tools** (`runtime_threads.rs` 1042-1192, 3290-3430,
`core/engine/approval.rs`). State: the pending requests by the id the model
chose, the reply channel of each, `auto_approve` of thread and turn. Operations:
register, answer (allow, deny, remember), time out, be displaced by another
request of the same id. Hard: the event is emitted before the request is
registered, a timeout races a late answer, the monitor does nothing else
meanwhile, a decision may reach the engine when it waits for another. Correct
when: a tool runs only on its own allowance, a remembered answer stays, and the
monitor comes to its end.

**Task execution** (`task_manager.rs` 428-703, `EngineTaskExecutor`). State: what
the executor has seen and whether it has passed a cancellation on; otherwise it
composes the first three. Operations: create a thread and a turn, poll the log,
interrupt. Hard: the interrupt is asked once and its result dropped; its event goes
to the file the monitor writes; the poll keeps the largest number seen; an error
lets go of the turn. Correct when: the task ends as its turn did, no agent works
behind a task that ended, and every task ends.

**Automations** (`automation_manager.rs`). State: automation and run files.
Operations: the scheduler's tick, runs by hand, pause, resume, delete,
reconciliation; all under one mutex of the process. Hard: enqueue, save the run,
advance the schedule are three writes; two processes have two mutexes. Correct
when: a slot has one run, none is passed over, a pause or deletion stands, and
every run ends as its task.

**Agent fleet** (`fleet/`). State: an append-only ledger that every process folds
for itself; leases, attempts, receipts, alerts; the subprocesses of the loop.
Operations: the loop of `fleet run`, and the commands interrupt, restart, stop,
resume, each a process. Hard: a decision is taken on a fold and its records are
appended later, one by one; a subprocess is known by its worker's id only.
Correct when: a task stays with its worker, attempts stay within their limit, a
completed task has its receipt, a failure is escalated once, the loop ends.

**Sub-agents** (`tools/subagent/mod.rs`, `core/engine.rs`,
`core/engine/turn_loop.rs`). State: the table of agents under one lock, a task
and a launch permit for each, the heartbeat, the state file, the engine's channel
and its set of completions already told. Operations: spawn, cancel, cleanup, the
task's own steps, the engine's drain and its wake from idle, boot. Hard: a task
tells its parent before the manager, an aborted task goes on to its next await,
snapshots are written by threads nobody waits for. Correct when: no place or
permit is lost, the population is bounded, every child is reported, once.

### Other components

Background shell jobs, MCP, model clients, compaction, sessions, the RLM tool,
the headless library, the app server, execution policies, hooks, WhaleFlow, the
COG recommender, language servers, the screen, configuration, the command line:
each is listed in `PROJECT.json` with its files and the reason it is not
modelled. In short, they are sequential transformations of data, adapters around
external processes, or (shell jobs, WhaleFlow) candidates once the plan below is
done. Of the engine's turn loop only what its monitor sees is modelled, in
`Approvals`.

`PROJECT.json` also lists the hazards, each at the line where it bites, with the
properties that cover it.

## 2. The modules

| module | what it is |
|---|---|
| `TaskLifecycle` | abstract: what a client may see of one task |
| `TaskManager` | the task manager; `ImplementsLifecycle` refines the former |
| `TaskManager_proofs` | type correctness, ownership, durability, finality, the refinement |
| `EventFeed` | abstract: a log and a reader that follows it |
| `EventLog` | counter, files, pollers, streams; `PollersFollow` refines the former |
| `EventLog_proofs` | types, unique numbers, the order of the files and streams, the refinement's safety |
| `TurnRecords` | abstract: the life of a turn's record |
| `RuntimeThreads` | calls, table, engines, monitors; `ImplementsRecords` refines the former |
| `RuntimeThreads_proofs` | types, the refinement, active turns, the table, interrupts, outcomes |
| `TaskExecution` | a task, its executor, its turn's monitor and the log between them |
| `TaskExecution_proofs` | types, a task ends as its turn, and leaves no engine at work |
| `Approvals` | inside the turns of a thread: items, requests, answers, recovery |
| `Approvals_proofs` | no tool runs unallowed, a remembered answer is not asked for again, items end with their turn |
| `Automations` | tick, reconciliation and handlers under the mutex |
| `Automations_proofs` | one run per slot, none skipped, pauses stick, runs counted, types |
| `Fleet` | the ledger, the loop with its subprocesses, the commands |
| `Fleet_proofs` | receipts, workers, the budget, escalations, one start per lease |
| `SubAgents` | the table, the tasks, the engine that is told, the state file |
| `SubAgents_proofs` | tasks of running agents, the bound, each end told once |
| `MC...` | for each of the eight: model values, small functions and symmetry sets for TLC |

Definitions called `X_Something` next to a definition `X` are mutated forms: what
the code would be with a plausible bug. Each property has one that violates it.
The abstract specifications promise what they say for as long as nothing was
disturbed: `TaskLifecycle`'s `reliable` and `EventFeed`'s `sound` are true until
the first failed write, and for the feed until the first crash.

### TaskManager

Every handler keeps the mutex over its memory change and its file writes, which
are blocking, so a handler is one action; the parameter `ok` says whether its
writes succeeded. A write that fails leaves any of the task files of the handler
written or not and the rest untouched (`WriteSome`): each file is replaced
atomically (`write_json_atomic`), several files are not. `CrashWriting` kills the
process inside the writes of any handler that could be running, `CrashBooting`
inside those of a boot.

| action | code |
|---|---|
| `AddTask`, `CancelTask`, `Shutdown` | `add_task`, `cancel_task`, `shutdown` |
| `RecordDetails` | the edits of a record that write the files (`record_tool_metadata` and its like) |
| `CheckShutdown`, `NothingToStart`, `StartTask`, `Wait`, `WakeForShutdown` | `worker_loop`, one action per section |
| `ExecutorReturns`, `FinishTask` | `run_task`, `finish_task` |
| `ExecutorPanics` | a panic caught by `spawn_supervised`, which ends the worker |
| `Boot`, `BootFails` | `start_with_executor` with `load_state` |

The data of a record is its status. A task id is never drawn twice (UUIDs).

### EventLog

`DrawSeq` is what happens under the state lock; `WriteText`, `EndLine` are the
two `write` calls `writeln!` makes on an unbuffered file, `Publish` the
`event_tx.send`. `open` is the set of files whose last line has no newline yet,
`garbled` those with a line that does not parse; a read of such a file is an
error. A poller is `EngineTaskExecutor::execute`, a stream is
`stream_thread_events` with a client that comes back with the last number it was
sent. Receivers that lag are told so, and the stream ends.

### TaskExecution

Composes the three above, each cut to what it says to the others; every task has a
thread and a turn of its own, numbers are counted per thread.

| action | code |
|---|---|
| `StartTask`, `CancelTask`, `FinishTask` | `worker_loop`, `cancel_task`, `finish_task` |
| `Load`, `Save`, `Register`, `Send`, `StartFails` | `create_thread` and `start_turn`, as `execute` calls them |
| `Evict` | another thread's `enforce_lru_capacity`, while this one has no active turn |
| `RequestInterrupt`, `TellInterrupt`, `TellingFails` | `interrupt_turn` under the lock, its event, and its error, which is dropped |
| `Read` | `events_since` and the loop's look at the batch |
| `EngineEnds` | the end of the engine's turn |
| `Note`, `HearEnd`, `Store`, `Announce`, `WriteEvent`, `Clear`, `MonitorFails` | `monitor_turn` |
| `Crash`, `Boot` | a death; `recover_interrupted_state`, then `load_state` |

### RuntimeThreads

A call is a process with a program counter, one step per section of the mutex or
write: `Begin` (read the thread, look for an engine), `Load` (insert the engine
spawned outside the lock, evicting one), `Check`, `Save`, `Register`, `Send`; for
`update_thread` with a new workspace `Check`, `Move`. After `Send` the same
program counter is the turn's monitor: `Hear`/`HearEnd`, `Judge` (the last look
at the interrupt flag), `Store`, `Announce`, `Clear`. An engine has a queue of
operations, a bounded channel of events and a token: `TakeOp`, `Work`,
`Complete`; `Resume` is the turn an idle engine starts when a sub-agent reports,
and `Complete` may queue the next message of an active goal. An engine and a turn
are named after the call that created them.

A text, a tool call or a status event is one `activity`: the monitor only
remembers that it saw one. What it does with each (items, approvals) is left out.
`Crash` empties what is volatile; `Open` is `recover_interrupted_state`.

### Approvals

One thread, its engine and the monitors of its turns. An item goes through
`phase` as the engine sees it and through `item` as the record says.

| action | code |
|---|---|
| `Open`, `Finish`, `Ask`, `Decide`, `GiveUp`, `Drop`, `EndTurn` | `core/engine/turn_loop.rs` and `approval.rs`: an item begins, ends, asks, reads a decision (skipping those for other ids), is cancelled, is dropped with its stream; the turn ends |
| `Hear` | `monitor_turn` 2909-3108: the item's record by the kind of event |
| `Attach` | the turn's list of items is saved |
| `Flags` | an approval: allowed by the turn's `auto_approve`, or registered |
| `Take`, `Expire`, `DropReceiver`, `Refuse` | the answer, the timer, the receiver dropped by it, the denial it sends |
| `Remember` | `remember_thread_auto_approve` |
| `Store`, `MonitorFails` | the end of the monitor |
| `Answer` | `deliver_external_approval` |
| `RegisterElsewhere`, `CancelElsewhere` | other threads' monitors on the shared map |
| `StartRead`, `Start`, `Interrupt`, `Evict` | what clients do to the thread |
| `Boot`, `RecoverTurn`, `RecoverItem`, `RecoveredTurn`, `Serve`, `BootFails` | `recover_interrupted_state`, one write at a time |

`Completed` stands for failed too; items are messages or tool calls. How an engine
is loaded and a start loses it is `RuntimeThreads`' subject.

### Automations

`MayBegin` is the mutex: the loop and the API handlers of a process exclude each
other, and nothing excludes another process. A handler that writes two files is a
`job` with a program counter: `TickBegin` reads the due automations, `TickRuns`
or `TickKnows` visits one, `SaveRun` and `SaveAutomation` are the writes, any of
which may fail (`WriteFails`) or be the last thing the process did (`Crash`).
`ReconcileBegin`, `Reconcile`, `ReconcileEnds`, `ReconcileFails` are
`reconcile_run_statuses`. `Pause`, `Resume`, `RunNow`, `Delete` are the API. `TaskMoves` is
the task manager, `SlotPasses` is time, counted in slots of the schedule.

### Fleet

The variables of the ledger are what a fold of it returns; `Record` folds one more
record in. A decision is taken on the ledger as it is and leaves its records in
`loop.plan` or `cmd[c].plan`, appended one step each (`LoopAppend`, `CmdBegins`,
`CmdAppend`), with others in between.

| action | code |
|---|---|
| `BeatForBusy`, `Pick`, `PickNone`, `Spawn`, `StartProc`, `StartSkips`, `StartFails`, `StartDone` | `schedule_run`, `start_leased_workers` of `fleet/manager.rs` |
| `PollRunning`, `PollExited`, `TestOpen` | `drive_executor_tick`, the test that ends `run_to_completion` |
| `Outcome` | `record_task_outcome`: end, receipt, second end of a failed verification |
| `Interrupt`, `Restart`, `Stop`, `Resume` | the operator's commands; `RetryOrFail`, `Reclaimed` of `fleet/scheduler.rs` |
| `Exit`, `Age` | a subprocess ends, a heartbeat becomes old |
| `LoopCrash`, `CmdDies` | a process dies between two records |

### SubAgents

| action | code (`tools/subagent/mod.rs` unless said) |
|---|---|
| `Spawn` | `spawn_background_with_assignment_options`: cleanup, admission, table, task |
| `Cleanup`, `Cancel` | `cleanup`, `cancel_agent` |
| `LaunchNow`, `Enqueue`, `AcquirePermit` | the launch gate at the head of the task |
| `Finish`, `Interrupt`, `Checkpoint` | what `run_subagent` does to the table, and its return |
| `Emit`, `Update` | `emit_parent_completion`, then `update_from_result` or `update_failed` |
| `Die`, `Panic` | an abort noticed at an await; a panic `spawn_supervised` catches |
| `IdleWake` | `handle_idle_subagent_completion` of `core/engine.rs` |
| `Drain`, `Look` | `drain_subagent_completion_events`, up to its wait for the lock and from there |
| `Shutdown`, `Crash`, `Boot` | `flush_pending_persist`, `load_state` |

Any running agent may have timed out and any ended one be old enough to forget:
time is left open. A snapshot is written by a thread nobody waits for, and the file
is read by the next boot only, so `Persist` lets the file hold any snapshot taken.

## 3. The runs

Every run finishes; none uses a state constraint, the bounds are in the guards of
the actions (`MaxFaults`, `MaxCrashes`, `MaxPanics`, `MaxSeq`, `MaxExtras`, and
the finite sets of ids). Deadlock is not checked: ids are used up, a manager
that shut down stops, and a service nobody calls rests.

| run | instance | question |
|---|---|---|
| `faults` | 2 tasks, 2 workers, 1 failed write, 2 crashes, 1 panic | do table, queue, tokens and files agree whatever fails, does every acknowledged task settle, and is the manager the lifecycle its clients rely on while writes succeed? |
| `log` | 2 threads, 2 writers, poller, stream, channel of 1, 4 numbers, 1 failed write, 1 crash | are numbers unique, is a stream increasing, does a poller follow the feed? |
| `turns_races` | 1 thread, 2 calls of `start_turn`, `get_engine` or `update_thread`, 1 error, 1 crash | are turns started, ended, told and recovered in the order of `TurnRecords` and no other, and does every started turn end? |
| `turns_polite` | 2 threads for 1 place, 2 calls of all kinds, a steer, a turn of the engine's own | with clients that wait for their answers: is what they were told of a turn on disk but for a steer, is a started turn active, its interrupt kept, its outcome its own, the table bounded? |
| `approvals` | 2 turns, 2 tools and a message, 2 ids of which other threads use one, channel of 1, 1 fault, 1 crash | does anything run unallowed, do items end with their turn, is a remembered answer kept, does every monitor end? |
| `automations` | 1 automation, 2 slots, 1 run by hand, 1 failed write or death | one run per slot, none skipped, pauses kept, every run settled? |
| `fleet` | 2 tasks, 2 workers, 2 commands of any kind, 1 fault, budgets of 1 and 2 attempts | do tasks keep worker, budget, receipt, escalation, and does the loop end? |
| `subagents` | 2 children, 1 place, 1 permit, 1 panic, 1 death or shutdown | do places and permits come back, is each end told once in turns, does every child report? |
| `execution` | 1 task, 2 events before the end, 2 failed or torn writes, 1 death | does a task end as its turn did, is no agent left at work behind it, and which tasks never end? |
| `fleet_exit`, `subagents_told`, `subagents_queue` | the smallest that shows it | section 4 |

The type invariants of the modules are checked by hand with the configurations of
the runs (`INVARIANTS TypeOK`); all of them are proved. `TaskExecution` with
two tasks for one worker, no `Note` and one fault (320 thousand states) is checked by
hand too.

Two wider instances are kept beside them, safety only, for when these modules
change: `TaskManager_crash.cfg` (3 tasks, so that the queue is not empty while both
workers are busy) and `SubAgents_wide.cfg` (a nested agent and 2 places, 5.3
million states).

*Why the bounds are enough.* Two workers and two tasks are the least at which a
worker can take the other's task, a wake-up can be lost (one permit, two
notifications) and a queue has an order. Two crashes let a boot crash and the next
one read what it left. Two writers with a thread each share the counter in every
order; `OneWriter` makes writers of the same thread take turns, since otherwise the
log loses its order (section 4) and the reader's properties with it. Four numbers
leave one drawn after a restart. A channel of capacity 1 makes lag and blocking
happen at once. In `RuntimeThreads` two calls give every pair of handlers, one of
them stale, and the table's limit of 1 makes each second thread evict; races of
three calls are beyond what TLC finishes, and left to the proofs. In `Approvals`
the second turn is what inherits a stale decision, a remembered answer or a record
that was read early, and the shared id is what another thread can displace.
`Limit` and `RecLimit` of `Automations` are 1 and 2 (25 and 100 in the code), so
that a run by hand is enough to push another out of sight. In `Fleet` one command
is the cause and the other the race; one task is out of attempts at its first
failure. `Polite` there is what docs/FLEET.md:28-33 tells the operator: a resume when
the manager is gone. With one place and one permit a child of `SubAgents` waits at the gate
behind a cancelled one whose task still runs. What
two faults in one history do is not checked by TLC, but the theorems of section 5
hold for any number.

*Fairness.* A tokio task that can step is polled, hence weak fairness of each
worker, monitor, engine and child. The executor is assumed to return (`AckedSettles`
says nothing about an agent that never stops; `execute` waits for its turn, whose
end is `StartedEnds`). A turn ends since it has at most 100 steps (`max_steps`,
`runtime_threads.rs:2573`), each bounded by its stream's timeout. `Complete` is
given strong fairness because the room it needs in the channel comes and goes
as monitors read. In `TaskExecution` the engine's turn, its monitor and the executor
go on. A host restarts a dead process (`Boot`). The poll loop wakes
every 40 ms. The automations' tick has strong fairness: tokio's mutex is handed out in order,
so handlers cannot keep it from the loop for ever; tasks are assumed to move on.
The fleet's loop goes on and a subprocess has a bounded number of turns. The
monitor's timer runs out. `AcquirePermit` has strong fairness because the semaphore
is first come, first served; `EndTurn` because a turn has bounded steps though it
drains again and again; `IdleWake` because the idle engine's `select!` picks at
random. No fairness is assumed of clients, operators, answers, crashes or failures.

*What each property is about* stands above it in its module. The ones a reader
should know first: `AckedIsDurable`, `CancelSticks` and `ImplementsLifecycle` in
`TaskManager`; `SeqsAreUnique` and `PollersFollow` in `EventLog`;
`AnnouncedIsRecorded`, `StartedIsActive`, `InterruptSticks` and `StartedEnds` in
`RuntimeThreads`; `RanIfAllowed` in `Approvals`; `SlotHasOneRun` and `RunsSettle`
in `Automations`; `StartedOnce` and `WithinBudget` in `Fleet`; `DrainedOnce` and
`ChildrenReport` in `SubAgents`.

## 4. What the runs refute

Three runs show behaviours of the code that a doc or the code's own comment
excludes; `PROJECT.json` quotes the lines under "findings".

- `fleet_exit`: `interrupt_worker` only marks the task cancelled. The loop gives the
  worker its next task while the old subprocess still runs, and the exit of that
  subprocess ends the new task, for which none was started (`fleet/manager.rs:422`).
  For an operator who only resumes, `OwnExitCorrect` proves that this does not happen.
- `subagents_told`: a completion that wakes an idle engine is told without a look at
  the set of those already told and without a mark in it, so the turn it wakes
  finds the agent in the table and tells it again (`core/engine.rs:2117`, against
  the comment at 580).
- `subagents_queue`: waiting for a launch permit is no progress to the heartbeat, so
  the next cleanup cancels a child that queued longer than its timeout
  (docs/SUBAGENTS.md:220).

Others have a configuration of their own, refuted when checked by hand:

- `EventLog_order.cfg`: two callers of `append_event` append in the other order than
  they drew their numbers: the lock is released in between
  (`runtime_threads.rs:550`), though docs/RUNTIME_API.md:464 says "append-only with
  a global monotonic `seq`". A poller that has seen the larger number never sees
  the smaller one.
- `TaskExecution_lost.cfg`: what comes of it for a task. The monitor draws the number
  of turn.completed, the executor passes a cancellation on and appends its event with
  a larger number, reads it, and skips the end when it is written: a cancelled task
  stays running for ever and keeps its worker (docs/TOOL_SURFACE.md:141: "Cancel a
  queued or running durable task"). `TasksSettle` allows for this and for a monitor
  that gave up, and shows that nothing else keeps a task from ending.
- `EventLog_garbled.cfg`: two records on one line, after which every read of the
  thread's events is an error.
- `EventLog_gap.cfg`: an event between the replay and the subscription reaches a
  client in neither way.
- `RuntimeThreads_double.cfg`: two `start_turn` calls pass the check for an active
  turn and the second replaces the first. `ReplacedCorrect` proves that clients who
  wait for an answer do not see this.
- `RuntimeThreads_steer.cfg`: `steer_turn` writes back a record it read before the
  turn ended. `OnlySteersUndo` is what is left of docs/ARCHITECTURE.md:241, proved for
  any steers, and `AnnouncedIsRecorded` what a client that was told of the end finds.
- `Approvals_same.cfg`: with ids repeated inside a thread, an approval that came too
  late for one call runs the next.
- `Approvals_boot.cfg`: a boot leaves items in progress when their turn had ended
  before, which docs/RUNTIME_API.md:468 excludes: the engine had dropped them.
- `Automations_two.cfg`: the screen (`tui/ui.rs:892`) and the API server
  (`runtime_api.rs:426`) each run a scheduler on the same directory; a slot is run
  twice, and what one saves undoes the other's pause.

Other limits, seen in the code or by widening one bound of a passing run:

- `ImplementsLifecycle` and `StartedAtMostOnce` are stated for as long as writes
  succeed: a worker only logs a failed write of a start or an end
  (`task_manager.rs` 1087, 1143), and after a crash such a task is executed again or
  ends as failed.
- `StartedIsActive` needs clients that wait. With `OneAtATime` FALSE and
  `Kinds` = {"send", "peek"}, an engine spawned meanwhile is inserted over the one
  that runs a turn (`runtime_threads.rs:2705`); with {"send", "move"}, `update_thread`
  evicts the engine on a stale check (1485).
- `OwnOutcome` is stated for as long as no engine starts a turn by itself
  (`extras`): such a turn has no monitor, and the next turn's monitor takes its end
  for its own.
- `BlockedIsDriven` and `InterruptSticks` are stated for as long as nothing fails
  (`faults` = 0): an error after the registration leaves the thread with an active
  turn nobody monitors until the next boot, so an interrupt of it is accepted and
  the thread stays blocked.
- A turn whose engine is evicted between `Save` and `Register` stays in progress
  until the next boot (2157); no property covers it, since none of the docs
  promises otherwise.
- `RememberedIsNotAsked` needs clients that start a turn when the last one is over:
  a start saves the thread as it read it, and loses an answer remembered meanwhile.
- A run of the fleet that is resumed leases tasks again, but no command starts a
  loop for it: nobody runs them. Two concurrent resumes exceed the budget; a
  resume that dies between the failure and its alert loses the alert; a stop that
  races a lease decision has its cancelled task revived. A restart after the loop
  ended leaves the task leased, and neither stop nor interrupt kills a subprocess.
- A child of `SubAgents` that was cancelled is listed as interrupted or completed
  when its task was past its last await and still calls `update_from_result`. An
  older snapshot that lands last leaves the file behind the table. Every engine on
  a workspace has a manager of its own over the same `subagents.v1.json`. Retention
  is counted from the start, so a long-lived child may be forgotten before it was
  told. `update_runtime_limits` replaces the gate while a task may hold a permit of
  the old one (1971-1991), and a resident lease taken for a spawn that then fails
  stays "pending".

## 5. The proofs

TLAPS proves these for every value of the constants that satisfies the modules' named
assumptions (all about types and distinct names). What a theorem needs beside them of
the callers is a hypothesis of it, or of the property it states, and named below.

**TaskManager_proofs.** The queue's exactness is not inductive alone: that
`finish_task` frees the right token needs each token to have its worker
(`TokensHaveOwners`), that a fresh id has no old file needs `UndrawnIsFresh`, and
that a boot starts from nothing needs `DownIsEmpty`. Together with the types these are
`Ownership`. On top of it `Durability` adds, for `CancelSticks`, that an
acknowledged cancellation of a running task has cancelled the token its worker
will look at (`CancelReachedToken`), and, for what a reload may find,
`DiskNeverAhead`: whatever subset of writes fails, a file is never ahead of the
memory. While every write succeeds more holds: the files are the memory (`Synced`),
and what a reload would find waiting was never started (`WaitingIsNew`). With
`HandlersMoveOne`, that a handler moves at most one record and as its lifecycle
allows, this gives `StartedAtMostOnce` and the refinement: a death between the writes
of a handler leaves the table before it or after it. Theorems: `TypeCorrect`,
`QueueCorrect`, `OwnershipCorrect`, `DiskCorrect`, `AckedCorrect`, `CancelCorrect`,
`FinalityCorrect`, `StartedCorrect`, `LifecycleCorrect`.

**EventLog_proofs.** For `SeqsUnique` the invariant says that every number in a
file or in a writer's hand is below the *saved* counter, from which a restart
resumes, and that a number in hand is in no file and no other hand. The types
(`TypeCorrect`) need what a read returns: `Kept` takes a sequence of positions, of
which the lemmas say that they increase and are all those asked for, by the least
and the greatest of a set of naturals. These two hold for any writers. The others assume
`OneWriter`, and `EventLog_order.cfg` shows that they must. Then a number in hand
belongs to a thread nobody else writes (`Held`, `Alone`) and is larger than all in its
file (`Above`), so that files are in order (`OrderedCorrect`); and a client was sent
increasing numbers, none above the one its stream compares the next with (`Sent`),
which gives `StreamedCorrect` through lagging, reconnection and restarts.
`FeedImplemented` is the safety part of `PollersFollow`: until something fails,
nobody has written and lost a line (`Whole`) and a poller was told the file up to the
largest number it saw (`Following`), so a read tells it the rest and nothing twice.

**RuntimeThreads_proofs.** `TypeCorrect` says more than the types: a call that acts on
an engine has one (`Readiness`).

`RecordsImplemented` (every step is a step of `TurnRecords` or changes no record) and
`AnnouncedStays` follow the program counter. Without steers (`Recorded`): before `Save`
there is no record, from there to `Store` it is in progress, at `Announce` it is the
monitor's outcome, and only a call at `Clear` or gone has told anything. The recovery at
boot must not meet a turn under way: `Down` says that no call is anywhere while the
process is down. `RecordsImplemented` assumes `Steers = {}`, and
`RuntimeThreads_steer.cfg` shows that it must: a steer may put an ended turn back in
progress. `AnnouncedStays` and `UndoneBySteers` are for any steers. Their invariant
(`Displayed`) follows in addition what a `steer_turn` has in hand between its reads and
writes (`Carried`): only the active turn of a thread is steered (`Steerable`), so that
its record is there, and the status it will write back is "in progress" or, read after
the monitor's write, the turn's own outcome. So a steer undoes an end by putting the
turn back in progress, never by another end, and nothing but a steer of the turn itself
does that.

The others assume clients that wait for an answer before they call a thread again
(`OneAtATime`), without which section 4 shows them false. `Orderly` then says that one
call per thread is between its look at the table and its registration
(`OneStarting`), and that a turn whose start was acknowledged and has not ended is the
active one of its own engine in the table (`Seating`); that no other call put an
engine in its place meanwhile is what needs `OneStarting`. From it `StartedCorrect`;
`ReplacedCorrect`, that no second turn takes the place of an active one, which
`RuntimeThreads_double.cfg` refutes without the assumption;
and, with the LRU being the table (`LruIsLoaded`), `GrowthCorrect`. While nothing
fails, the engine of an active turn was not told to stop and takes what is sent
(`Serving`), so that no start is left halfway and each active turn has its call
(`Driven`): `BlockedCorrect`. On that, `InterruptCorrect` follows the interrupt from
the flag to the last look and the record (`Recording`), whatever a steer writes back
in between. `OutcomeCorrect` needs only `Orderly`: with engines that start nothing by
themselves, an engine has one operation queued, at work or answered, and it is that
of the active turn of its thread (`Answered`).

**TaskExecution_proofs.** The invariant does not mention what the executor has read.
`Monitoring` says that a turn.completed in the file, or one the monitor is about to
write, tells what is stored, and that the engine has ended by then; `Phases` where
turn and monitor are while the executor starts them; `Answered` how an executor that
saw no end came to its answer: nothing works for it (`Gone`), or the log does not
parse. `Bounded` says that the numbers of a file, and those in hand, were drawn, so that
a batch has a last event (`LatestIsLast`): the types need it. Theorems: `FollowsCorrect`,
`AttendedCorrect`, `TypeCorrect`.

**Approvals_proofs.** The types need that a thread has one monitor at a time
(`OneMonitor`), which needs that a monitored turn is the active one or its engine
was evicted (`MonitoredIsActive`), and what the monitor has in hand (`OnTheItem`).
`AllowedCorrect` adds that what is on its way to the engine, in the reply channel, in
the monitor's hand or among the decisions, and says yes, is for an item that was
allowed; it assumes that ids differ within the thread (`OwnIds`), and
`Approvals_same.cfg` shows that it must. `RememberedCorrect` adds that once an
answer is remembered the record, or what a start has read of it, says so; it assumes
`Polite`. `ItemsCorrect` assumes neither. It rests on what stands in the channel of
events: an item is started in the turn that is monitored, once, and before it is done
(`StartsInTurn`, `StartsOnce`, `DoneLater`), and the end of the turn is the last
event (`EndComesLast`). So what the engine has done with is over in its record or
will be when the channel is read (`DoneIsTold`). A message may be left to the end of
the turn, and the monitor knows one only, `current_message_item`: that there is no
second (`OneMessage`) needs that no message starts in the channel before the last one
is done or dropped (`MessagesInTurn`). What remains in progress is what the engine
dropped. `ListedIsOver` adds what a recovery has yet to write. Theorems: `TypeCorrect`,
`AllowedCorrect`, `RememberedCorrect`, `ItemsCorrect`.

**Automations_proofs.** For one process (`OneProcess`): `Locked` says that one job
at a time is under way, `Holds` that what it read under the mutex still stands when it
writes. On top, for `SlotHasOneRun`, that runs are numbered in the order they are made
and that a run in hand is new and of a slot without one among the latest. Theorems:
`PausesCorrect`, `SlotsCorrect`, `OneRunCorrect`, `RunsCorrect`, `TypeCorrect`.

`RunsCorrect` counts the runs: there are never more than were asked for by hand, than
slots came due, and than faults cut a run off from its slot (`RunsAreDue`). The
invariant is `Counted`, over the slots that are `Spent`: those an automation has left
behind, and the one it is about to leave because its run is under way. Saving the
schedule, pausing and resuming spend no slot twice and give none back; a failed write
or the death of the process gives back one at most, the one under way
(`OneUnderway`), and that fault pays for it. Hence the numbers suffice (`EnoughIds`),
which is the part of `TypeOK` that its other conjuncts need: `TypeCorrect`, for one
process that exists. What has a task there is `Tracked`, so that a reconciled run
takes a status and never `"none"`.

**Fleet_proofs.** `CmdsHarmless` and `LoopInOrder` say what is in the hands of
those who decided and have yet to append: every record names the worker its task
has, no command completes a task, and the loop's ends and receipts come in an order
in which a completed task is owed its receipt. `TypeCorrect`, `ReceiptsCorrect` and
`StaysCorrect` follow without assuming `Polite`.

The budget and the escalations are about commands that come one at a time, a resume
only when the loop is gone (`Polite`). `CInv` says what plans such a command may hold
(`InHand`), that the loop leases only what nobody leased before (`Unleased`), that
the leases made, and those a resume has yet to append, stay within the budget
(`Leases`), that failures and alerts in hand are those of a resume (`Resuming`),
and that a task which may still fail for good has an alert to spare (`Escalations`).
A loop or a command that dies between two records is among the steps. `StartedOnce`
is about the loop's own subprocesses, with exits that are their own task's (`OwnExit`;
the run `fleet_exit` has the others): a lease that was used for a subprocess keeps its
worker occupied until the exit is decided on, and then the task is ended, so the loop
never finds it to be started again (`Starts`). `OwnExitCorrect` says when exits are
their own task's: when the operator only resumes. Then the loop alone writes the ledger
(`Alone`): a worker has one task at a time, its process is of that task, an end is
decided only of a task whose worker has no process, and the loop gives the worker
another only after. The interrupts, stops and restarts are what breaks it. Theorems:
`BudgetCorrect`, `EscalatedCorrect`, `StartedCorrect`, `OwnExitCorrect`.

**SubAgents_proofs.** That a running agent has a task needs `CutShort` (an aborted
task's agent is no longer listed as running), so that a task that dies unheard
leaves nothing listed, and `EndsKnown`, so that a late update cannot write
"running". `AdmissionCorrect` is a count: a spawn adds one agent to those its own
cleanup left, and no other step adds any. `DrainedCorrect` needs that both sources
name agents of this boot, that a fresh agent was told nothing of, and that what was
told of this boot is in the set. Theorems: `TypeCorrect`, `RunningCorrect`,
`AdmissionCorrect`, `DrainedCorrect`.

Not proved, only checked by TLC: everything with fairness (`AckedSettles`,
`PollersFollow`, `StartedEnds`, `TasksSettle`, `TurnsSettle`, `RunsSettle`, `LoopEnds`,
`ChildrenReport`), which the prover does not reach (of `PollersFollow` the part about
steps is proved). Every other property of a passing run is stated by one of these
theorems.

## 6. What is left out

- *TaskManager*: the contents of a record beside its status (timeline,
  checklist, gates, artifacts), `set_default_workspace`, and the read-only calls.
- *EventLog*: payloads, `replay_limit`, the heartbeat of a stream. A second
  process on the same data directory is not modelled.
- *RuntimeThreads*: thread records, forks and seeding; items and approvals
  (`Approvals` has them); `sync_engines_with_config`;
  `RuntimeThreadManager::shutdown`, which only tests call. An evicted engine is sent
  its shutdown in the step that evicts it; the code does so after releasing the
  lock, in the same call. The channel of operations (32) is taken to be
  unbounded: a thread never has that many waiting. The engine's turn is activity
  followed by an outcome; what decides the outcome is not modelled.
- *TaskExecution*: the task's files (`TaskManager` has them), other clients that
  interrupt or steer the task's turn, a panic of the executor, the events of the
  start, what a task copies from events into its record, an engine that ends
  interrupted of its own accord. A torn file stays torn; a read between the two
  halves of a line sees it whole or not at all.
- *Approvals*: dynamic tools (`execute_dynamic_tool` registers before it emits),
  user input, elevation; status and agent items, the error item of an empty turn;
  `update_thread` of `auto_approve`, steering; the engine's channel of decisions (64)
  is unbounded; a remembered answer when the thread approves everything already.
- *Automations*: the rules (every automation is hourly), time stamps, files that do
  not parse (one stops every tick), active automations without a next slot, what a
  failed `add_task` leaves in the task manager, two task managers on one directory.
- *Fleet*: the run's status, numbers of records, artifacts, routes and other events
  no decision reads; `tick_run`, `cancel_run`, `launch_queued_work`, `compact` and
  `claim_next`, which only tests call.
- *SubAgents*: live changes of the limits, worker records and events, token
  budgets (an exhausted one counts as completed), names, resident leases, the inbox
  of a nested agent's parent, the cancellation token (nobody cancels it),
  `Op::SpawnSubAgent` (never sent), what a checkpoint holds. A spawn reads the clock
  twice; the model takes it once.
- Everything under *Other components* in section 1, and the interactive screen's own
  use of the engine.

## 7. The plan

Done: the eight modules of section 2, their abstract specifications, their runs, and
the theorems above.

Next modules, most important first.

1. **Dynamic tools and user input**, next to `Approvals`: the request that is
   registered before it is told.
2. **Shell jobs**: a process, its reader threads and its record; what a kill races.
3. The live limits and the resident leases of `SubAgents`.

Every safety property of the runs is proved, and every type invariant; a new module
brings its own.

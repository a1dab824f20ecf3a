---------------------------- MODULE TaskExecution ----------------------------
(***************************************************************************)
(* A durable task, the turn that does its work and the event log between   *)
(* them.  A worker's executor makes a thread for its task, starts one turn *)
(* on it and polls the thread's file for turn.completed; the turn's        *)
(* monitor writes that event when the engine has ended.  A cancellation is *)
(* passed on as an interrupt of the turn, whose event the executor appends *)
(* to the file the monitor appends to.                                     *)
(*                                                                         *)
(* The parts are those of TaskManager, RuntimeThreads and EventLog, cut to *)
(* what they say to one another.  Every task has a thread of its own, so   *)
(* numbers are compared within a thread only and are counted per thread.   *)
(***************************************************************************)
EXTENDS Naturals, FiniteSets

CONSTANTS
  Tasks,
  Workers,      \* how many tasks run at a time
  MaxNotes,     \* bound: events a monitor writes before the turn ends
  MaxFaults,    \* bound: failed writes and sends
  MaxCrashes    \* bound: deaths of the process

ASSUME TasksAssumption == IsFiniteSet(Tasks) /\ Workers \in Nat \ {0}
ASSUME ExecutionBounds == {MaxNotes, MaxFaults, MaxCrashes} \subseteq Nat

VARIABLES
  up,
  status,           \* TaskRecord.status
  canceled,         \* the tasks whose token is cancelled
  cancel_requested, \* those whose executor has passed it on
  pc, answer,       \* where the executor of each task stands, and what it returns
  seen_seq,
  turn,             \* TurnRecord.status of each task's turn
  loaded, active, flagged, \* its thread's engine, active_turn, interrupt_requested
  engine,           \* how the engine's work ended, once it has
  monitor,          \* where the turn's monitor stands
  notes, heard,     \* events it has written before the end; the outcome it goes by
  drawn, hand,      \* numbers drawn on each thread; those the two writers hold
  log, open, garbled, \* the events of each file; no newline yet; a line does not parse
  faults, crashes

tasks    == <<status, canceled>>
executor == <<cancel_requested, pc, answer, seen_seq>>
table    == <<loaded, active, flagged>>
turns    == <<turn, engine, monitor, notes, heard>>
files    == <<drawn, hand, log, open, garbled>>
bounds   == <<faults, crashes>>
vars     == <<up, tasks, executor, table, turns, files, bounds>>

Final    == {"Completed", "Failed", "Canceled"}
Outcomes == {"Completed", "Failed", "Interrupted"}
Starting == {"load", "save", "register", "send"}
Telling  == {"draw", "text", "line"}
Writers  == {"executor", "monitor"}

TypeOK ==
  /\ up \in BOOLEAN
  /\ status \in [Tasks -> {"Queued", "Running"} \cup Final]
  /\ canceled \subseteq Tasks /\ cancel_requested \subseteq Tasks
  /\ pc \in [Tasks -> {"none", "poll", "read", "done"} \cup Starting \cup Telling]
  /\ answer \in [Tasks -> Final] /\ seen_seq \in [Tasks -> Nat]
  /\ turn \in [Tasks -> {"absent", "InProgress"} \cup Outcomes]
  /\ loaded \subseteq Tasks /\ active \subseteq Tasks /\ flagged \subseteq Tasks
  /\ engine \in [Tasks -> {"none", "works", "Completed", "Failed"}]
  /\ monitor \in [Tasks -> {"none", "listen", "noteText", "noteLine", "store", "announce",
                            "endText", "endLine", "clear"}]
  /\ notes \in [Tasks -> 0..MaxNotes] /\ heard \in [Tasks -> Outcomes]
  /\ drawn \in [Tasks -> Nat] /\ hand \in [Tasks -> [Writers -> Nat]]
  /\ log \in [Tasks -> SUBSET [seq : Nat, what : {"note", "end"}]]
  /\ open \subseteq Tasks /\ garbled \subseteq Tasks
  /\ faults \in 0..MaxFaults /\ crashes \in 0..MaxCrashes

Init ==
  /\ up = TRUE
  /\ status = [t \in Tasks |-> "Queued"] /\ canceled = {} /\ cancel_requested = {}
  /\ pc = [t \in Tasks |-> "none"] /\ answer = [t \in Tasks |-> "Failed"]
  /\ seen_seq = [t \in Tasks |-> 0]
  /\ turn = [t \in Tasks |-> "absent"] /\ loaded = {} /\ active = {} /\ flagged = {}
  /\ engine = [t \in Tasks |-> "none"] /\ monitor = [t \in Tasks |-> "none"]
  /\ notes = [t \in Tasks |-> 0] /\ heard = [t \in Tasks |-> "Failed"]
  /\ drawn = [t \in Tasks |-> 0] /\ hand = [t \in Tasks |-> [w \in Writers |-> 0]]
  /\ log = [t \in Tasks |-> {}] /\ open = {} /\ garbled = {}
  /\ faults = 0 /\ crashes = 0

At(t, l)   == up /\ pc[t] = l
Goto(t, l) == pc' = [pc EXCEPT ![t] = l]
Fault      == faults < MaxFaults /\ faults' = faults + 1 /\ UNCHANGED crashes

-----------------------------------------------------------------------------
(* The log: append_event of one of the two writers of a thread.            *)

(* The number, under the lock of the store. *)
Draw(t, w) ==
  /\ drawn' = [drawn EXCEPT ![t] = @ + 1]
  /\ hand' = [hand EXCEPT ![t][w] = drawn[t] + 1]
  /\ UNCHANGED <<log, open, garbled>>

(* The text and then the newline, without it. *)
WriteText(t, w, what) ==
  /\ log' = [log EXCEPT ![t] = @ \cup {[seq |-> hand[t][w], what |-> what]}]
  /\ open' = open \cup {t}
  /\ garbled' = garbled \cup ({t} \cap open)
  /\ UNCHANGED <<drawn, hand>>

EndLine(t) == open' = open \ {t} /\ UNCHANGED <<drawn, hand, log, garbled>>

(* A failed write of the text leaves nothing of it, or a part.             *)
Torn(t, writing) ==
  /\ \/ UNCHANGED <<open, garbled>>
     \/ writing /\ open' = open \cup {t} /\ garbled' = garbled \cup {t}
  /\ UNCHANGED <<drawn, hand, log>>

-----------------------------------------------------------------------------
(* The task manager.                                                       *)

Running == {t \in Tasks : status[t] = "Running"}

StartTask(t) ==
  /\ up /\ status[t] = "Queued" /\ Cardinality(Running) < Workers
  /\ status' = [status EXCEPT ![t] = "Running"] /\ Goto(t, "load")
  /\ UNCHANGED <<up, canceled, cancel_requested, answer, seen_seq, table, turns, files, bounds>>

(* cancel_task *)
CancelTask(t) ==
  /\ up /\ t \notin canceled
  /\ \/ status[t] = "Queued" /\ status' = [status EXCEPT ![t] = "Canceled"]
        /\ UNCHANGED canceled
     \/ status[t] = "Running" /\ canceled' = canceled \cup {t} /\ UNCHANGED status
  /\ UNCHANGED <<up, executor, table, turns, files, bounds>>

(* finish_task *)
(* Mutant: what the executor answered.                                     *)
Result_AnswerWins(t) == answer[t]

Result(t) == IF t \in canceled /\ answer[t] = "Completed" THEN "Canceled" ELSE answer[t]

FinishTask(t) ==
  /\ At(t, "done")
  /\ status' = [status EXCEPT ![t] = Result(t)] /\ Goto(t, "none")
  /\ UNCHANGED <<up, canceled, cancel_requested, answer, seen_seq, table, turns, files, bounds>>

-----------------------------------------------------------------------------
(* EngineTaskExecutor::execute: create_thread and start_turn.              *)

Answers(t, r) == Goto(t, "done") /\ answer' = [answer EXCEPT ![t] = r]

Load(t) ==
  /\ At(t, "load") /\ Goto(t, "save")
  /\ loaded' = loaded \cup {t}
  /\ UNCHANGED <<up, tasks, cancel_requested, answer, seen_seq, active, flagged, turns, files, bounds>>

(* Other threads are loaded and push out one that has no active turn yet.  *)
Evict(t) ==
  /\ up /\ pc[t] \in {"save", "register"} /\ t \in loaded
  /\ loaded' = loaded \ {t}
  /\ UNCHANGED <<up, tasks, executor, active, flagged, turns, files, bounds>>

Save(t) ==
  /\ At(t, "save") /\ Goto(t, "register")
  /\ turn' = [turn EXCEPT ![t] = "InProgress"]
  /\ UNCHANGED <<up, tasks, cancel_requested, answer, seen_seq, table, engine, monitor, notes,
                 heard, files, bounds>>

Register(t) ==
  /\ At(t, "register")
  /\ IF t \in loaded THEN active' = active \cup {t} /\ Goto(t, "send") /\ UNCHANGED answer
                     ELSE Answers(t, "Failed") /\ UNCHANGED active
  /\ UNCHANGED <<up, tasks, cancel_requested, seen_seq, loaded, flagged, turns, files, bounds>>

Send(t) ==
  /\ At(t, "send") /\ Goto(t, "poll")
  /\ engine' = [engine EXCEPT ![t] = "works"] /\ monitor' = [monitor EXCEPT ![t] = "listen"]
  /\ UNCHANGED <<up, tasks, cancel_requested, answer, seen_seq, table, turn, notes, heard, files,
                 bounds>>

StartFails(t) ==
  /\ up /\ pc[t] \in Starting /\ Fault
  /\ Answers(t, "Failed")
  /\ UNCHANGED <<up, tasks, cancel_requested, seen_seq, table, turns, files>>

-----------------------------------------------------------------------------
(* ... and its loop.                                                       *)

(* A cancellation is passed on once, if the turn is still active.          *)
Asks(t) == t \in canceled /\ t \notin cancel_requested

RequestInterrupt(t) ==
  /\ At(t, "poll") /\ Asks(t)
  /\ cancel_requested' = cancel_requested \cup {t}
  /\ IF t \in active THEN flagged' = flagged \cup {t} /\ Goto(t, "draw")
                     ELSE Goto(t, "read") /\ UNCHANGED flagged
  /\ UNCHANGED <<up, tasks, answer, seen_seq, loaded, active, turns, files, bounds>>

(* turn.interrupt_requested *)
TellInterrupt(t) ==
  /\ \/ At(t, "draw") /\ Draw(t, "executor") /\ Goto(t, "text")
     \/ At(t, "text") /\ WriteText(t, "executor", "note") /\ Goto(t, "line")
     \/ At(t, "line") /\ EndLine(t) /\ Goto(t, "read")
  /\ UNCHANGED <<up, tasks, cancel_requested, answer, seen_seq, table, turns, bounds>>

(* Whatever interrupt_turn returns is dropped. *)
TellingFails(t) ==
  /\ up /\ pc[t] \in Telling /\ Fault /\ Goto(t, "read")
  /\ Torn(t, pc[t] = "text")
  /\ UNCHANGED <<up, tasks, cancel_requested, answer, seen_seq, table, turns>>

(* events_since *)
Batch(t) == {e \in log[t] : e.seq > seen_seq[t]}

(* Mutant: the latest number drawn. *)
Latest_Drawn(t) == drawn[t]

Latest(t) == CHOOSE n \in {seen_seq[t]} \cup {e.seq : e \in Batch(t)} :
               \A e \in Batch(t) : e.seq <= n

(* Mutant: a cancellation that was passed on ends the task. *)
Heard_Cancel(t) == t \in cancel_requested \/ \E e \in Batch(t) : e.what = "end"

Heard(t) == \E e \in Batch(t) : e.what = "end"

AnswerOf(r) == IF r = "Interrupted" THEN "Canceled" ELSE r

(* The loop sleeps before it looks at its token again. *)
Read(t) ==
  /\ At(t, "read") \/ (At(t, "poll") /\ ~Asks(t))
  /\ IF t \in garbled THEN Answers(t, "Failed") /\ UNCHANGED seen_seq
     ELSE /\ seen_seq' = [seen_seq EXCEPT ![t] = Latest(t)]
          /\ IF Heard(t) THEN Answers(t, AnswerOf(heard[t]))
                         ELSE Goto(t, "poll") /\ UNCHANGED answer
  /\ UNCHANGED <<up, tasks, cancel_requested, table, turns, files, bounds>>

-----------------------------------------------------------------------------
(* The turn: its engine, and its monitor.                                  *)

EngineEnds(t, r) ==
  /\ up /\ engine[t] = "works"
  /\ engine' = [engine EXCEPT ![t] = r]
  /\ UNCHANGED <<up, tasks, executor, table, turn, monitor, notes, heard, files, bounds>>

MonitorAt(t, l)   == up /\ monitor[t] = l
MonitorGoto(t, l) == monitor' = [monitor EXCEPT ![t] = l]

(* A text, a tool call: events of their own. *)
Note(t) ==
  /\ MonitorAt(t, "listen") /\ notes[t] < MaxNotes
  /\ notes' = [notes EXCEPT ![t] = @ + 1]
  /\ Draw(t, "monitor") /\ MonitorGoto(t, "noteText")
  /\ UNCHANGED <<up, tasks, executor, table, turn, engine, heard, bounds>>

(* The end, and the last look at the interrupt flag. *)
HearEnd(t) ==
  /\ MonitorAt(t, "listen") /\ engine[t] \in Outcomes
  /\ heard' = [heard EXCEPT ![t] = IF t \in flagged THEN "Interrupted" ELSE engine[t]]
  /\ MonitorGoto(t, "store")
  /\ UNCHANGED <<up, tasks, executor, table, turn, engine, notes, files, bounds>>

Store(t) ==
  /\ MonitorAt(t, "store") /\ MonitorGoto(t, "announce")
  /\ turn' = [turn EXCEPT ![t] = heard[t]]
  /\ UNCHANGED <<up, tasks, executor, table, engine, notes, heard, files, bounds>>

Announce(t) ==
  /\ MonitorAt(t, "announce") /\ Draw(t, "monitor") /\ MonitorGoto(t, "endText")
  /\ UNCHANGED <<up, tasks, executor, table, turn, engine, notes, heard, bounds>>

WriteEvent(t) ==
  /\ \/ MonitorAt(t, "noteText") /\ WriteText(t, "monitor", "note") /\ MonitorGoto(t, "noteLine")
     \/ MonitorAt(t, "noteLine") /\ EndLine(t) /\ MonitorGoto(t, "listen")
     \/ MonitorAt(t, "endText") /\ WriteText(t, "monitor", "end") /\ MonitorGoto(t, "endLine")
     \/ MonitorAt(t, "endLine") /\ EndLine(t) /\ MonitorGoto(t, "clear")
  /\ UNCHANGED <<up, tasks, executor, table, turn, engine, notes, heard, bounds>>

Clear(t) ==
  /\ MonitorAt(t, "clear") /\ MonitorGoto(t, "none")
  /\ active' = active \ {t}
  /\ UNCHANGED <<up, tasks, executor, loaded, flagged, turn, engine, notes, heard, files, bounds>>

(* An error ends the monitor; it is logged. *)
MonitorFails(t) ==
  /\ up /\ monitor[t] \notin {"none", "clear"} /\ Fault /\ MonitorGoto(t, "none")
  /\ Torn(t, monitor[t] \in {"noteText", "endText"})
  /\ UNCHANGED <<up, tasks, executor, table, turn, engine, notes, heard>>

-----------------------------------------------------------------------------
(* The process.                                                            *)

Crash ==
  /\ up /\ up' = FALSE /\ crashes < MaxCrashes /\ crashes' = crashes + 1
  /\ pc' = [t \in Tasks |-> "none"] /\ monitor' = [t \in Tasks |-> "none"]
  /\ loaded' = {} /\ active' = {} /\ flagged' = {}
  /\ engine' = [t \in Tasks |-> "none"]
  /\ UNCHANGED <<tasks, cancel_requested, answer, seen_seq, turn, notes, heard, files, faults>>

(* The turns are recovered, then the tasks; what a death in between leaves *)
(* is recovered by the next boot.                                          *)
Boot ==
  /\ ~up /\ up' = TRUE
  /\ turn' = [t \in Tasks |-> IF turn[t] = "InProgress" THEN "Interrupted" ELSE turn[t]]
  /\ status' = [t \in Tasks |-> IF status[t] = "Running" THEN "Failed" ELSE status[t]]
  /\ UNCHANGED <<canceled, executor, table, engine, monitor, notes, heard, files, bounds>>

-----------------------------------------------------------------------------
Executor(t) ==
  \/ Load(t) \/ Save(t) \/ Register(t) \/ Send(t)
  \/ RequestInterrupt(t) \/ TellInterrupt(t) \/ Read(t) \/ FinishTask(t)

Monitor(t) == Note(t) \/ HearEnd(t) \/ Store(t) \/ Announce(t) \/ WriteEvent(t) \/ Clear(t)

Work(t) == \E r \in {"Completed", "Failed"} : EngineEnds(t, r)

Next ==
  \/ \E t \in Tasks : StartTask(t) \/ CancelTask(t) \/ Executor(t) \/ Monitor(t) \/ Work(t)
                      \/ Evict(t) \/ StartFails(t) \/ TellingFails(t) \/ MonitorFails(t)
  \/ Crash \/ Boot

Spec == Init /\ [][Next]_vars

(* Workers, executors, monitors and engines are polled, a turn has a       *)
(* bounded number of steps, and the program is started again.              *)
Fairness ==
  /\ \A t \in Tasks : WF_vars(Executor(t)) /\ WF_vars(Monitor(t)) /\ WF_vars(Work(t))
  /\ WF_vars(\E t \in Tasks : StartTask(t)) /\ WF_vars(Boot)

FairSpec == Spec /\ Fairness

-----------------------------------------------------------------------------
(* What finish_task (task_manager.rs:1316) reports of a task is what       *)
(* save_turn stored of its turn, now and after every restart, unless it    *)
(* was cancelled at the last moment, its start failed, its log cannot be   *)
(* read, or the process died.                                              *)
TaskFollowsTurn ==
  \A t \in Tasks :
    /\ status[t] = "Completed" => turn[t] = "Completed" /\ t \notin canceled
    /\ status[t] = "Canceled" =>
         turn[t] \in {"absent", "Interrupted"} \/ (turn[t] = "Completed" /\ t \in canceled)
    /\ status[t] = "Failed" =>
         turn[t] \in {"absent", "InProgress", "Failed"} \/ t \in garbled \/ crashes > 0

(* A task that ended has no agent at work behind its back, though the      *)
(* executor lets go of the turn on an error of any kind: only one whose    *)
(* log cannot be read has (task_manager.rs:510).                           *)
NoneUnattended ==
  \A t \in Tasks : engine[t] = "works" /\ status[t] # "Running" => t \in garbled

(* Every task ends, cancelled or not, whatever fails or dies, but for two  *)
(* that run for ever and keep their worker: one whose monitor gave up      *)
(* without telling the end, and one whose executor saw its own event of a  *)
(* cancellation, which had overtaken the end (task_manager.rs:504, 531).   *)
Polls(t)     == pc[t] \in {"poll", "read"} /\ monitor[t] = "none"
Abandoned(t) == Polls(t) /\ ~\E e \in log[t] : e.what = "end"
Missed(t)    == Polls(t) /\ t \in cancel_requested /\ ~Heard(t)

TasksSettle ==
  \A t \in Tasks :
    []<>(status[t] \in Final \/ \E u \in Tasks : Abandoned(u) \/ Missed(u))

(* docs/TOOL_SURFACE.md:141: a running task can be cancelled.              *)
(* TaskExecution_lost.cfg refutes it.                                      *)
CanceledEnds == \A t \in Tasks : t \in canceled ~> status[t] \in Final
=============================================================================

----------------------------- MODULE RuntimeThreads -----------------------------
(***************************************************************************)
(* The runtime thread manager: turns started on threads, one engine per    *)
(* loaded thread, a table of the loaded engines under one mutex with an    *)
(* LRU of bounded size, and a monitor per turn that reads the engine's     *)
(* events and records how the turn ended.                                  *)
(*                                                                         *)
(* A client call is a process.  It takes the mutex several times and is    *)
(* interleaved with the other calls between two of them: what it found     *)
(* under the lock may no longer hold when it acts on it.  Each call that   *)
(* finds its thread without an engine spawns one, which is named after the *)
(* call; each call that starts a turn draws an id, which is the call too.  *)
(***************************************************************************)
EXTENDS Naturals, Sequences, FiniteSets, Functions, SequencesExt

CONSTANTS
  Threads, Calls,
  Steers,         \* calls of steer_turn
  None, Extra,    \* no engine, turn or outcome; a turn the engine starts by itself
  Kinds,          \* what clients call: "send", "compact", "peek", "move"
  OneAtATime,     \* clients wait for the answer before they call a thread again
  MaxActive,      \* max_active_threads, 0 for no limit
  EventCapacity,  \* of the channel from an engine to its monitors
  MaxExtras,      \* bound: turns engines start by themselves
  MaxFaults,      \* bound: calls and monitors that end on an error
  MaxCrashes      \* bound: deaths of the process

ASSUME NamesAssumption == None \notin Threads \cup Calls \cup {Extra} /\ Extra \notin Calls
ASSUME KindsAssumption == Kinds \subseteq {"send", "compact", "peek", "move"}
ASSUME LimitsAssumption == OneAtATime \in BOOLEAN /\ MaxActive \in Nat /\ EventCapacity \in Nat \ {0}
ASSUME BoundsAssumption == MaxExtras \in Nat /\ MaxFaults \in Nat /\ MaxCrashes \in Nat

VARIABLES
  up,
  turn, told,     \* the record of each turn; the status its turn.completed told
  loaded,         \* ActiveThreads.engines: the engine of each loaded thread
  active, flagged,\* its active_turn, and interrupt_requested of it
  lru,
  ops, events,    \* the channels to and from each engine
  running,        \* the operation an engine works on
  canceled,       \* the engines whose cancellation token is cancelled
  stopped,        \* the engines whose loop has ended
  pc, kind, of,   \* where each call stands, what it does, and on which thread
  engine,         \* the engine handle it holds
  outcome, saw, heard, \* of its monitor: status, saw_engine_activity, whose outcome it took
  steer,          \* where each steer_turn stands, its turn, the status it read
  interrupted,    \* history: turns interrupted before their monitor's last look
  extras, faults, crashes

records == <<turn, told>>
table   == <<loaded, active, flagged, lru>>
engines == <<ops, events, running, canceled, stopped>>
calls   == <<pc, kind, of, engine>>
monitor == <<outcome, saw, heard>>
bounds  == <<extras, faults, crashes>>
vars    == <<up, records, table, engines, calls, monitor, steer, interrupted, bounds>>

Outcomes  == {"Completed", "Failed", "Interrupted"}
Statuses  == {"absent", "InProgress"} \cup Outcomes
Starting  == {"load", "check", "save", "register", "route", "move"}
Monitored == {"listen", "judge", "store", "announce", "clear"}
Location  == {"new", "gone"} \cup Starting \cup Monitored

Operation == [kind : {"send", "compact"}, of : Calls \cup {Extra}]
               \cup [kind : {"shutdown"}, of : {Extra}]
Event     == [what : {"activity"} \cup Outcomes, of : Calls \cup {Extra}]
Idle      == [kind |-> "idle", of |-> None]

TypeOK ==
  /\ up \in BOOLEAN
  /\ turn \in [Calls -> Statuses] /\ told \in [Calls -> Outcomes \cup {None}]
  /\ loaded \in [Threads -> Calls \cup {None}]
  /\ active \in [Threads -> Calls \cup {None}] /\ flagged \in [Threads -> BOOLEAN]
  /\ lru \in Seq(Threads)
  /\ ops \in [Calls -> Seq(Operation)] /\ events \in [Calls -> Seq(Event)]
  /\ running \in [Calls -> Operation \cup {Idle}]
  /\ canceled \subseteq Calls /\ stopped \subseteq Calls
  /\ pc \in [Calls -> Location] /\ kind \in [Calls -> Kinds \cup {None}]
  /\ of \in [Calls -> Threads \cup {None}] /\ engine \in [Calls -> Calls \cup {None}]
  /\ outcome \in [Calls -> Outcomes] /\ saw \in [Calls -> BOOLEAN]
  /\ heard \in [Calls -> Calls \cup {None, Extra}]
  /\ steer \in [Steers -> [pc : {"new", "load", "save", "resave", "done"},
                           turn : Calls \cup {None}, status : Statuses]]
  /\ interrupted \subseteq Calls
  /\ extras \in 0..MaxExtras /\ faults \in 0..MaxFaults /\ crashes \in 0..MaxCrashes

-----------------------------------------------------------------------------
(* The table of loaded engines.                                            *)

Loaded == {h \in Threads : loaded[h] # None}
Busy   == {h \in Loaded : active[h] # None}

(* retain(|id| id != h), for an LRU that holds h at most once. *)
Without(q, h) == IF h \in Range(q) THEN RemoveAt(q, CHOOSE i \in DOMAIN q : q[i] = h) ELSE q

Touched(q, h) == Append(Without(q, h), h)

(* enforce_lru_capacity: of a full table, the first thread in the LRU that *)
(* has no active turn goes; busy ones rotate to the back.                  *)
(* Mutant: the table is looked at one entry too late.                      *)
Candidates_Late ==
  IF MaxActive = 0 \/ Cardinality(Loaded) <= MaxActive THEN {}
  ELSE {i \in DOMAIN lru : lru[i] \notin Busy}

Candidates ==
  IF MaxActive = 0 \/ Cardinality(Loaded) < MaxActive THEN {}
  ELSE {i \in DOMAIN lru : lru[i] \notin Busy}

First(S) == CHOOSE i \in S : \A j \in S : i <= j

Victim == IF Candidates = {} THEN None ELSE lru[First(Candidates)]

ScannedLru ==
  IF Candidates = {} THEN lru
  ELSE LET i == First(Candidates)
       IN  SubSeq(lru, i + 1, Len(lru)) \o SubSeq(lru, 1, i - 1)

(* The engines of the threads S are sent a shutdown. *)
SendShutdown(S) ==
  ops' = [e \in Calls |-> IF \E h \in S : loaded[h] = e
                          THEN Append(ops[e], [kind |-> "shutdown", of |-> Extra]) ELSE ops[e]]

-----------------------------------------------------------------------------
Init ==
  /\ up = TRUE
  /\ turn = [c \in Calls |-> "absent"] /\ told = [c \in Calls |-> None]
  /\ loaded = [h \in Threads |-> None]
  /\ active = [h \in Threads |-> None] /\ flagged = [h \in Threads |-> FALSE]
  /\ lru = <<>>
  /\ ops = [e \in Calls |-> <<>>] /\ events = [e \in Calls |-> <<>>]
  /\ running = [e \in Calls |-> Idle]
  /\ canceled = {} /\ stopped = {}
  /\ engine = [c \in Calls |-> None]
  /\ outcome = [c \in Calls |-> "Completed"] /\ saw = [c \in Calls |-> FALSE]
  /\ heard = [c \in Calls |-> None]
  /\ pc = [c \in Calls |-> "new"]
  /\ kind = [c \in Calls |-> None] /\ of = [c \in Calls |-> None]
  /\ steer = [s \in Steers |-> [pc |-> "new", turn |-> None, status |-> "absent"]]
  /\ interrupted = {}
  /\ extras = 0 /\ faults = 0 /\ crashes = 0

At(c, l) == up /\ pc[c] = l
Goto(c, l) == pc' = [pc EXCEPT ![c] = l]

-----------------------------------------------------------------------------
(* The calls: start_turn, compact_thread, get_engine, and update_thread    *)
(* with another workspace.                                                 *)

(* The thread is read and an engine looked for; without one, one is        *)
(* spawned, outside the lock.                                              *)
Begin(c, h, k) ==
  /\ At(c, "new")
  /\ OneAtATime => \A d \in Calls : of[d] = h => pc[d] \notin Starting
  /\ of' = [of EXCEPT ![c] = h] /\ kind' = [kind EXCEPT ![c] = k]
  /\ \/ k = "move" /\ Goto(c, "check") /\ UNCHANGED <<engine, lru>>
     \/ /\ k # "move" /\ h \in Loaded
        /\ engine' = [engine EXCEPT ![c] = loaded[h]]
        /\ lru' = Touched(lru, h)
        /\ Goto(c, IF k = "peek" THEN "gone" ELSE "check")
     \/ /\ k # "move" /\ h \notin Loaded
        /\ engine' = [engine EXCEPT ![c] = c]
        /\ Goto(c, "load") /\ UNCHANGED lru
  /\ UNCHANGED <<up, records, loaded, active, flagged, engines, monitor, steer, interrupted, bounds>>

(* The engine is put in the table, over whatever is there by now. *)
Load(c) ==
  /\ At(c, "load")
  /\ LET h == of[c]
     IN  /\ loaded' = [g \in Threads |-> IF g = h THEN c ELSE IF g = Victim THEN None ELSE loaded[g]]
         /\ active' = [active EXCEPT ![h] = None] /\ flagged' = [flagged EXCEPT ![h] = FALSE]
         /\ lru' = Touched(ScannedLru, h)
  /\ SendShutdown({Victim} \cap Loaded)
  /\ Goto(c, IF kind[c] = "peek" THEN "gone" ELSE "check")
  /\ UNCHANGED <<up, records, events, running, canceled, stopped, kind, of, engine, monitor,
                 steer, interrupted, bounds>>

(* Mutant: no check. *)
Check_Open(c) ==
  /\ At(c, "check")
  /\ Goto(c, IF kind[c] = "move" THEN "move" ELSE "save")
  /\ UNCHANGED <<up, records, table, engines, kind, of, engine, monitor, steer, interrupted, bounds>>

Check(c) ==
  /\ At(c, "check")
  /\ Goto(c, IF active[of[c]] # None THEN "gone" ELSE IF kind[c] = "move" THEN "move" ELSE "save")
  /\ UNCHANGED <<up, records, table, engines, kind, of, engine, monitor, steer, interrupted, bounds>>

(* update_thread saves the thread, then drops its engine: evict_cached_engine. *)
Move(c) ==
  /\ At(c, "move")
  /\ LET h == of[c]
     IN  /\ loaded' = [loaded EXCEPT ![h] = None] /\ active' = [active EXCEPT ![h] = None]
         /\ flagged' = [flagged EXCEPT ![h] = FALSE]
         /\ lru' = Without(lru, h)
         /\ SendShutdown({h} \cap Loaded)
  /\ Goto(c, "gone")
  /\ UNCHANGED <<up, records, events, running, canceled, stopped, kind, of, engine, monitor,
                 steer, interrupted, bounds>>

(* The turn is saved in progress, and turn.started told. *)
Save(c) ==
  /\ At(c, "save")
  /\ turn' = [turn EXCEPT ![c] = "InProgress"]
  /\ Goto(c, "register")
  /\ UNCHANGED <<up, told, table, engines, kind, of, engine, monitor, steer, interrupted, bounds>>

(* The turn becomes the active one, unless the engine was evicted. *)
Register(c) ==
  /\ At(c, "register")
  /\ IF of[c] \in Loaded
     THEN /\ active' = [active EXCEPT ![of[c]] = c] /\ flagged' = [flagged EXCEPT ![of[c]] = FALSE]
          /\ lru' = Touched(lru, of[c])
          /\ Goto(c, "route")
     ELSE Goto(c, "gone") /\ UNCHANGED <<active, flagged, lru>>
  /\ UNCHANGED <<up, records, loaded, engines, kind, of, engine, monitor, steer, interrupted, bounds>>

(* The operation is sent to the engine the call got first, and a monitor   *)
(* spawned; a stopped engine takes no operation.                           *)
Send(c) ==
  /\ At(c, "route")
  /\ IF engine[c] \in stopped
     THEN Goto(c, "gone") /\ UNCHANGED ops
     ELSE /\ ops' = [ops EXCEPT ![engine[c]] = Append(@, [kind |-> kind[c], of |-> c])]
          /\ Goto(c, "listen")
  /\ UNCHANGED <<up, records, table, events, running, canceled, stopped, kind, of, engine, monitor,
                 steer, interrupted, bounds>>

(* The engine's session, a write, an event or the choice of a model fails  *)
(* and the call returns the error; nothing done so far is undone.          *)
StartFails(c) ==
  /\ up /\ pc[c] \in {"load", "save", "register", "route"}
  /\ faults < MaxFaults /\ faults' = faults + 1
  /\ \/ UNCHANGED turn
     \/ pc[c] = "save" /\ turn' = [turn EXCEPT ![c] = "InProgress"]
  /\ Goto(c, "gone")
  /\ UNCHANGED <<up, told, table, engines, kind, of, engine, monitor, steer, interrupted, extras, crashes>>
-----------------------------------------------------------------------------
(* interrupt_turn: the flag of the active turn and the token of the loaded *)
(* engine.                                                                 *)
Interrupt(c) ==
  /\ up /\ of[c] \in Loaded /\ active[of[c]] = c
  /\ flagged' = [flagged EXCEPT ![of[c]] = TRUE]
  /\ canceled' = canceled \cup {loaded[of[c]]}
  /\ lru' = Touched(lru, of[c])
  /\ interrupted' = IF pc[c] \in {"store", "announce", "clear"} THEN interrupted
                    ELSE interrupted \cup {c}
  /\ UNCHANGED <<up, records, loaded, active, ops, events, running, stopped, calls, monitor, steer, bounds>>

(* steer_turn: the engine takes the input; then the record is read,        *)
(* counted up and written, and written again with the item.                *)
SteerBegin(s, c) ==
  /\ up /\ steer[s].pc = "new"
  /\ of[c] \in Loaded /\ active[of[c]] = c /\ loaded[of[c]] \notin stopped
  /\ steer' = [steer EXCEPT ![s] = [@ EXCEPT !.pc = "load", !.turn = c]]
  /\ lru' = Touched(lru, of[c])
  /\ UNCHANGED <<up, records, loaded, active, flagged, engines, calls, monitor, interrupted, bounds>>

SteerLoad(s) ==
  /\ up /\ steer[s].pc = "load"
  /\ steer' = [steer EXCEPT ![s] = [@ EXCEPT !.pc = "save", !.status = turn[steer[s].turn]]]
  /\ UNCHANGED <<up, records, table, engines, calls, monitor, interrupted, bounds>>

SteerSave(s) ==
  /\ up /\ steer[s].pc \in {"save", "resave"}
  /\ turn' = [turn EXCEPT ![steer[s].turn] = steer[s].status]
  /\ steer' = [steer EXCEPT ![s].pc = IF @ = "save" THEN "resave" ELSE "done"]
  /\ UNCHANGED <<up, told, table, engines, calls, monitor, interrupted, bounds>>

-----------------------------------------------------------------------------
(* The engine: one operation at a time, in the order of the channel.       *)

Room(e) == Len(events[e]) < EventCapacity
Said(e, what) == Append(events[e], [what |-> what, of |-> running[e].of])

(* A message starts with a fresh cancellation token, a compaction does not *)
(* and says at once that it started.                                       *)
TakeOp(e) ==
  /\ up /\ e \notin stopped /\ running[e] = Idle /\ ops[e] # <<>>
  /\ ops' = [ops EXCEPT ![e] = Tail(@)]
  /\ LET op == Head(ops[e])
     IN  \/ /\ op.kind = "shutdown" /\ stopped' = stopped \cup {e}
            /\ UNCHANGED <<events, running, canceled>>
         \/ /\ op.kind = "send"
            /\ running' = [running EXCEPT ![e] = op] /\ canceled' = canceled \ {e}
            /\ UNCHANGED <<events, stopped>>
         \/ /\ op.kind = "compact"
            /\ Room(e) /\ running' = [running EXCEPT ![e] = op]
            /\ events' = [events EXCEPT ![e] = Append(@, [what |-> "activity", of |-> op.of])]
            /\ UNCHANGED <<canceled, stopped>>
  /\ UNCHANGED <<up, records, table, calls, monitor, steer, interrupted, bounds>>

(* Text, tool calls and the rest; one such event unread stands for many. *)
Work(e) ==
  /\ up /\ running[e] # Idle /\ Room(e)
  /\ \A i \in DOMAIN events[e] : events[e][i].what # "activity"
  /\ events' = [events EXCEPT ![e] = Said(e, "activity")]
  /\ UNCHANGED <<up, records, table, ops, running, canceled, stopped, calls, monitor, steer,
                 interrupted, bounds>>

(* Mutant: a compaction that failed does not return. *)
Complete_Twice(e, o) ==
  /\ up /\ running[e] # Idle /\ Room(e)
  /\ o = "Interrupted" => running[e].kind = "send" /\ e \in canceled
  /\ events' = [events EXCEPT ![e] = Said(e, o) \o
                  IF o = "Failed" /\ running[e].kind = "compact"
                  THEN <<[what |-> "Completed", of |-> running[e].of]>> ELSE <<>>]
  /\ running' = [running EXCEPT ![e] = Idle]
  /\ UNCHANGED <<up, records, table, ops, canceled, stopped, calls, monitor, steer, interrupted,
                 bounds>>

(* After a completed message an active goal sends the next one. *)
Complete(e, o) ==
  /\ up /\ running[e] # Idle /\ Room(e)
  /\ o = "Interrupted" => running[e].kind = "send" /\ e \in canceled
  /\ events' = [events EXCEPT ![e] = Said(e, o)]
  /\ running' = [running EXCEPT ![e] = Idle]
  /\ \/ UNCHANGED <<ops, extras>>
     \/ /\ o = "Completed" /\ running[e].kind = "send"
        /\ extras < MaxExtras /\ extras' = extras + 1
        /\ ops' = [ops EXCEPT ![e] = Append(@, [kind |-> "send", of |-> Extra])]
  /\ UNCHANGED <<up, records, table, canceled, stopped, calls, monitor, steer, interrupted,
                 faults, crashes>>

(* A sub-agent reports to an idle engine, which answers with a turn. *)
Resume(e) ==
  /\ up /\ engine[e] = e /\ pc[e] # "load"
  /\ e \notin stopped /\ running[e] = Idle
  /\ extras < MaxExtras /\ extras' = extras + 1
  /\ running' = [running EXCEPT ![e] = [kind |-> "send", of |-> Extra]]
  /\ canceled' = canceled \ {e}
  /\ UNCHANGED <<up, records, table, ops, events, stopped, calls, monitor, steer, interrupted,
                 faults, crashes>>

-----------------------------------------------------------------------------
(* monitor_turn                                                            *)

(* The monitors that share an engine take turns on its one receiver. *)
Hear(c) ==
  /\ At(c, "listen") /\ events[engine[c]] # <<>>
  /\ events' = [events EXCEPT ![engine[c]] = Tail(@)]
  /\ LET ev == Head(events[engine[c]])
     IN  IF ev.what = "activity"
         THEN saw' = [saw EXCEPT ![c] = TRUE] /\ UNCHANGED <<pc, outcome, heard>>
         ELSE /\ outcome' = [outcome EXCEPT ![c] = ev.what]
              /\ heard' = [heard EXCEPT ![c] = ev.of]
              /\ Goto(c, "judge") /\ UNCHANGED saw
  /\ UNCHANGED <<up, records, table, ops, running, canceled, stopped, kind, of, engine, steer,
                 interrupted, bounds>>

(* The channel is closed; the status is still the Completed it began with. *)
(* Mutant: the monitor reads on. *)
HearEnd_Stays(c) ==
  /\ At(c, "listen") /\ events[engine[c]] = <<>> /\ engine[c] \in stopped
  /\ UNCHANGED vars

HearEnd(c) ==
  /\ At(c, "listen") /\ events[engine[c]] = <<>> /\ engine[c] \in stopped
  /\ Goto(c, "judge")
  /\ UNCHANGED <<up, records, table, engines, kind, of, engine, monitor, steer, interrupted, bounds>>

(* The last look at the interrupt flag; a turn that completed without a    *)
(* sign of the engine has failed.                                          *)
Flagged(c) == of[c] \in Loaded /\ active[of[c]] = c /\ flagged[of[c]]

(* Mutant: the engine's word is final. *)
Verdict_Engine(c) == IF outcome[c] = "Completed" /\ ~saw[c] THEN "Failed" ELSE outcome[c]

Verdict(c) == IF Flagged(c) THEN "Interrupted" ELSE
              IF outcome[c] = "Completed" /\ ~saw[c] THEN "Failed" ELSE outcome[c]

Judge(c) ==
  /\ At(c, "judge")
  /\ outcome' = [outcome EXCEPT ![c] = Verdict(c)]
  /\ Goto(c, "store")
  /\ UNCHANGED <<up, records, table, engines, kind, of, engine, saw, heard, steer, interrupted, bounds>>

(* Mutant: the record is written after another look at the flag. *)
Store_Looks(c) ==
  /\ At(c, "store")
  /\ turn' = [turn EXCEPT ![c] = Verdict(c)]
  /\ Goto(c, "announce")
  /\ UNCHANGED <<up, told, table, engines, kind, of, engine, monitor, steer, interrupted, bounds>>

Store(c) ==
  /\ At(c, "store")
  /\ turn' = [turn EXCEPT ![c] = outcome[c]]
  /\ Goto(c, "announce")
  /\ UNCHANGED <<up, told, table, engines, kind, of, engine, monitor, steer, interrupted, bounds>>

Announce(c) ==
  /\ At(c, "announce")
  /\ told' = [told EXCEPT ![c] = outcome[c]]
  /\ Goto(c, "clear")
  /\ UNCHANGED <<up, turn, table, engines, kind, of, engine, monitor, steer, interrupted, bounds>>

(* Mutant: a failed turn returns early. *)
Clear_Completed(c) ==
  /\ At(c, "clear")
  /\ IF active[of[c]] = c /\ outcome[c] # "Failed"
     THEN active' = [active EXCEPT ![of[c]] = None] /\ flagged' = [flagged EXCEPT ![of[c]] = FALSE]
     ELSE UNCHANGED <<active, flagged>>
  /\ lru' = Touched(lru, of[c])
  /\ Goto(c, "gone")
  /\ UNCHANGED <<up, records, loaded, engines, kind, of, engine, monitor, steer, interrupted, bounds>>

(* The thread is free again, if the turn is still its active one; it is    *)
(* the most recently used even when it is no longer loaded.                *)
Clear(c) ==
  /\ At(c, "clear")
  /\ IF active[of[c]] = c
     THEN active' = [active EXCEPT ![of[c]] = None] /\ flagged' = [flagged EXCEPT ![of[c]] = FALSE]
     ELSE UNCHANGED <<active, flagged>>
  /\ lru' = Touched(lru, of[c])
  /\ Goto(c, "gone")
  /\ UNCHANGED <<up, records, loaded, engines, kind, of, engine, monitor, steer, interrupted, bounds>>

(* A write or an event fails: the monitor ends where it stands. *)
MonitorFails(c) ==
  /\ up /\ pc[c] \in Monitored \ {"clear"}
  /\ faults < MaxFaults /\ faults' = faults + 1
  /\ Goto(c, "gone")
  /\ UNCHANGED <<up, records, table, engines, kind, of, engine, monitor, steer, interrupted, extras, crashes>>

-----------------------------------------------------------------------------
Crash ==
  /\ up /\ crashes < MaxCrashes /\ crashes' = crashes + 1
  /\ up' = FALSE
  /\ loaded' = [h \in Threads |-> None]
  /\ active' = [h \in Threads |-> None] /\ flagged' = [h \in Threads |-> FALSE]
  /\ lru' = <<>>
  /\ ops' = [e \in Calls |-> <<>>] /\ events' = [e \in Calls |-> <<>>]
  /\ running' = [e \in Calls |-> Idle]
  /\ canceled' = {} /\ stopped' = {}
  /\ engine' = [c \in Calls |-> None]
  /\ outcome' = [c \in Calls |-> "Completed"] /\ saw' = [c \in Calls |-> FALSE]
  /\ heard' = [c \in Calls |-> None]
  /\ pc' = [c \in Calls |-> IF pc[c] = "new" THEN "new" ELSE "gone"]
  /\ steer' = [s \in Steers |-> [steer[s] EXCEPT !.pc = IF @ = "new" THEN "new" ELSE "done"]]
  /\ UNCHANGED <<records, kind, of, interrupted, extras, faults>>

(* recover_interrupted_state *)
(* Mutant: every turn, whatever its status. *)
Recovered_All(s) == IF s = "absent" THEN s ELSE "Interrupted"

Recovered(s) == IF s = "InProgress" THEN "Interrupted" ELSE s

Open ==
  /\ ~up /\ up' = TRUE
  /\ turn' = [c \in Calls |-> Recovered(turn[c])]
  /\ UNCHANGED <<told, table, engines, calls, monitor, steer, interrupted, bounds>>

-----------------------------------------------------------------------------
Call(c) ==
  \/ \E h \in Threads, k \in Kinds : Begin(c, h, k)
  \/ Load(c) \/ Check(c) \/ Move(c) \/ Save(c) \/ Register(c) \/ Send(c) \/ StartFails(c)

Steer(s) == (\E c \in Calls : SteerBegin(s, c)) \/ SteerLoad(s) \/ SteerSave(s)

Engine(e) == TakeOp(e) \/ Work(e) \/ \E o \in Outcomes : Complete(e, o)

Monitor(c) == Hear(c) \/ HearEnd(c) \/ Judge(c) \/ Store(c) \/ Announce(c) \/ Clear(c)

Next ==
  \/ \E c \in Calls : Call(c) \/ Interrupt(c) \/ Engine(c) \/ Resume(c) \/ Monitor(c) \/ MonitorFails(c)
  \/ \E s \in Steers : Steer(s)
  \/ Crash \/ Open

Spec == Init /\ [][Next]_vars

(* Tokio polls every ready task.  An operation ends: a turn has at most    *)
(* 100 steps (max_steps), each bounded by the timeout of its stream, so it *)
(* completes even though the room for its last event comes and goes.       *)
Fairness == \A c \in Calls : WF_vars(Monitor(c)) /\ WF_vars(TakeOp(c))
                              /\ SF_vars(\E o \in Outcomes : Complete(c, o))

FairSpec == Spec /\ Fairness

-----------------------------------------------------------------------------
(* Whatever calls race, fail or crash.                                     *)

(* A steer_turn has written the turn's record. *)
Steered(c) == \E s \in Steers : steer[s].turn = c /\ steer[s].pc \in {"resave", "done"}

(* The status a turn.completed told is the one on disk, then and after     *)
(* every restart: a client that saw a turn end never finds it interrupted  *)
(* by the next boot (monitor_turn saves before it emits).  A steer_turn    *)
(* that read the record before may put the turn back in progress, for the  *)
(* next boot to interrupt; it does nothing worse.                          *)
AnnouncedIsRecorded ==
  \A c \in Calls : told[c] # None =>
    turn[c] = told[c] \/ (turn[c] \in {"InProgress", "Interrupted"} /\ Steered(c))

Records == INSTANCE TurnRecords WITH status <- turn

(* As long as nobody steers, turns start, end, are announced and are       *)
(* interrupted by a restart in this order and no other.                    *)
ImplementsRecords == Records!Spec

(* Every turn whose start was acknowledged is announced as ended, unless a *)
(* monitor failed or the process died, though calls race, share an engine  *)
(* or have it evicted under them, and though an engine that nobody listens *)
(* to blocks on its full channel.                                          *)
StartedEnds ==
  \A c \in Calls : pc[c] = "listen" ~> (told[c] # None \/ faults + crashes > 0)

-----------------------------------------------------------------------------
(* As long as clients wait for an answer before they call a thread again.  *)

(* A turn whose start was acknowledged is its thread's active turn until   *)
(* it ends, so it can be interrupted, no second turn starts and the LRU    *)
(* keeps its engine (the check in start_turn and the one that follows it,  *)
(* two sections later, in the registration).                               *)
StartedIsActive ==
  \A c \in Calls : pc[c] \in Monitored => active[of[c]] = c /\ loaded[of[c]] = engine[c]

(* As long as nothing fails, a turn interrupted before its monitor's last  *)
(* look ends interrupted, whatever the engine made of the token, which a   *)
(* message still queued replaces (handle_send_message).                    *)
InterruptSticks == faults = 0 =>
  \A c \in interrupted : turn[c] \in {"InProgress", "Interrupted"} /\ told[c] \in {None, "Interrupted"}

(* While engines start no turns by themselves, a turn ends with the        *)
(* outcome of its own operation (monitor_turn).                            *)
OwnOutcome == extras = 0 => \A c \in Calls : heard[c] \in {c, None}

(* As long as nothing fails, a thread is blocked by a turn only while the  *)
(* turn has a monitor or is about to have one: no engine refuses the       *)
(* operation (start_turn, enforce_lru_capacity).                           *)
BlockedIsDriven == faults = 0 =>
  \A h \in Threads : active[h] # None => pc[active[h]] \in Monitored \cup {"route"}

(* The table outgrows its limit only when every engine in it is busy.      *)
GrowsOnlyWhenBusy ==
  [][/\ MaxActive > 0
     /\ Cardinality(Loaded') > MaxActive
     /\ Cardinality(Loaded') > Cardinality(Loaded)
     => Busy = Loaded]_vars

-----------------------------------------------------------------------------
(* What the interleavings break: RuntimeThreads_double.cfg and             *)
(* RuntimeThreads_steer.cfg refute them.                                   *)

(* The active turn of a thread is not replaced by another                  *)
(* (runtime_threads.rs:2082).                                              *)
NeverReplaced ==
  [][\A h \in Threads : active[h] # None => active'[h] \in {active[h], None}]_vars

(* A turn that ended is never in progress again, though a steer_turn read  *)
(* its record before (docs/ARCHITECTURE.md:241).                           *)
EndedStaysEnded ==
  [][\A c \in Calls : turn[c] \in Outcomes => turn'[c] = turn[c]]_vars

(* What is left of it: only a steer_turn of the turn undoes its end, and   *)
(* puts nothing else in its place than a turn in progress.                 *)
OnlySteersUndo ==
  [][\A c \in Calls : turn[c] \in Outcomes =>
       turn'[c] = turn[c] \/ (turn'[c] = "InProgress" /\ Steered(c)')]_vars
=============================================================================

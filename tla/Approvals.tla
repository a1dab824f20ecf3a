------------------------------- MODULE Approvals -------------------------------
(***************************************************************************)
(* Inside the turns of one thread of the runtime.  The engine opens items  *)
(* and asks before it runs a tool; the turn's monitor keeps a record per   *)
(* item, passes the question on to the clients and their answer back, and  *)
(* waits for it no longer than a timeout.  The map of the requests that    *)
(* wait is shared by all threads and goes by the id the model gave its     *)
(* tool call: the other threads are an environment that may use one of our *)
(* ids.  A boot marks what the dead process left in progress interrupted.  *)
(*                                                                         *)
(* How turns are started and the table of engines are the subject of       *)
(* RuntimeThreads; here a start reads the thread, then looks for an active *)
(* turn and saves both records with what it read.                          *)
(***************************************************************************)
EXTENDS Naturals, Sequences, FiniteSets

CONSTANTS
  Turns, Items, Ids,
  Tools,          \* the items that are tool calls; the others are messages
  TurnOf, IdOf,   \* the turn of each item, the id the model gives it
  Shared,         \* ids that other threads' tool calls have too
  None, Elsewhere,\* no turn, item or request; a request of another thread
  Polite,         \* clients start a turn when the last one's monitor is done
  EventCapacity,  \* of the channel from the engine to the monitor
  MaxFaults,      \* bound: failed writes and events, engines evicted
  MaxCrashes      \* bound: deaths of the process

ASSUME ItemsAssumption ==
  Tools \subseteq Items /\ Shared \subseteq Ids /\ {None, Elsewhere} \cap (Turns \cup Items) = {}
ASSUME MapsAssumption == TurnOf \in [Items -> Turns] /\ IdOf \in [Items -> Ids]
ASSUME LimitsAssumption == Polite \in BOOLEAN /\ EventCapacity \in Nat \ {0}
ASSUME ApprovalBounds == MaxFaults \in Nat /\ MaxCrashes \in Nat

VARIABLES
  process,        \* down, recovering or up
  mending,        \* the turn whose items the recovery is about to end
  auto,           \* auto_approve of the thread's record
  turn, listed,   \* status and item_ids of each turn's record
  item,           \* the status of each item's record
  active,         \* the active turn of the thread's engine
  approving, flagged, \* its auto_approve and interrupt_requested
  evicted,        \* the engine left the table while it had a turn
  pc, read,       \* where each turn's call or monitor stands; the auto_approve it read
  on, message,    \* the item the monitor works on; current_message_item
  outcome,
  busy, phase,    \* the turn the engine works on; how far it is with each item
  events, decisions, \* the channels from and to the engine
  canceled,       \* its token is cancelled
  pending,        \* pending_approvals: whose request waits under an id
  reply,          \* the oneshot channel of each request
  elsewhere,      \* the ids under which another thread's monitor waits
  allowed, remembered, recovered, torn, \* history: requests allowed, a remembered answer,
                  \* turns a boot recovered, turns whose recovery died
  faults, crashes

records  == <<auto, turn, listed, item>>
table    == <<active, approving, flagged, evicted>>
monitor  == <<pc, read, on, message, outcome>>
engine   == <<busy, phase, events, decisions, canceled>>
requests == <<pending, reply, elsewhere>>
history  == <<allowed, remembered, recovered, torn>>
bounds   == <<faults, crashes>>
vars     == <<process, mending, records, table, monitor, engine, requests, history, bounds>>

Ended     == {"Completed", "Interrupted"}   \* Completed: or failed
Statuses  == {"absent", "InProgress"} \cup Ended
Monitored == {"listen", "attach", "flags", "wait", "expired", "cancel", "store"}
Phases    == {"new", "open", "asking", "ran", "done", "dropped"}
Answers   == {"allow", "remember", "deny"}
Event     == [what : {"start", "done"}, of : Items] \cup [what : {"ask"}, of : Tools]
             \cup [what : Ended, of : {None}]

RecordsTypeOK ==
  /\ process \in {"down", "recovering", "up"} /\ mending \in Turns \cup {None}
  /\ turn \in [Turns -> Statuses] /\ listed \in [Turns -> SUBSET Items]
  /\ item \in [Items -> Statuses]

MonitorTypeOK ==
  /\ active \in Turns \cup {None}
  /\ pc \in [Turns -> {"new", "start", "gone"} \cup Monitored] /\ read \in [Turns -> BOOLEAN]
  /\ on \in Items \cup {None} /\ message \in (Items \ Tools) \cup {None} /\ outcome \in Ended

EngineTypeOK ==
  /\ busy \in Turns \cup {None} /\ phase \in [Items -> Phases]
  /\ events \in Seq(Event) /\ decisions \in Seq(Ids \X BOOLEAN)

RequestsTypeOK ==
  /\ pending \in [Ids -> Tools \cup {None, Elsewhere}] /\ elsewhere \subseteq Shared
  /\ reply \in [Items -> Answers \cup {"none", "open", "dropped"}]

SwitchesTypeOK ==
  /\ auto \in BOOLEAN /\ approving \in BOOLEAN /\ flagged \in BOOLEAN /\ evicted \in BOOLEAN
  /\ canceled \in BOOLEAN /\ remembered \in BOOLEAN

HistoryTypeOK ==
  /\ allowed \subseteq Tools /\ recovered \subseteq Turns /\ torn \subseteq Turns
  /\ faults \in 0..MaxFaults /\ crashes \in 0..MaxCrashes

TypeOK == /\ RecordsTypeOK /\ MonitorTypeOK /\ EngineTypeOK
          /\ RequestsTypeOK /\ SwitchesTypeOK /\ HistoryTypeOK

Init ==
  /\ process = "up" /\ mending = None
  /\ auto = FALSE
  /\ turn = [t \in Turns |-> "absent"] /\ listed = [t \in Turns |-> {}]
  /\ item = [i \in Items |-> "absent"]
  /\ active = None /\ approving = FALSE /\ flagged = FALSE /\ evicted = FALSE
  /\ pc = [t \in Turns |-> "new"] /\ read = [t \in Turns |-> FALSE]
  /\ on = None /\ message = None /\ outcome = "Completed"
  /\ busy = None /\ phase = [i \in Items |-> "new"]
  /\ events = <<>> /\ decisions = <<>> /\ canceled = FALSE
  /\ pending = [d \in Ids |-> None] /\ reply = [i \in Items |-> "none"] /\ elsewhere = {}
  /\ allowed = {} /\ remembered = FALSE /\ recovered = {} /\ torn = {}
  /\ faults = 0 /\ crashes = 0

At(t, l) == process = "up" /\ pc[t] = l
Goto(t, l) == pc' = [pc EXCEPT ![t] = l]
Fault == faults < MaxFaults /\ faults' = faults + 1 /\ UNCHANGED crashes

-----------------------------------------------------------------------------
(* Clients: start_turn, interrupt_turn, and the eviction of the engine by  *)
(* a call whose look for an active turn came before this one's start.      *)

(* The next call loads a new engine in the place of one that was evicted,  *)
(* with channels of its own; that it does so while the old one works is    *)
(* left to RuntimeThreads.                                                 *)
StartRead(t) ==
  /\ At(t, "new")
  /\ Polite \/ evicted => \A u \in Turns : pc[u] \in {"new", "gone"}
  /\ \/ ~evicted /\ UNCHANGED <<events, decisions>>
     \/ evicted /\ busy = None /\ events' = <<>> /\ decisions' = <<>>
  /\ read' = [read EXCEPT ![t] = auto]
  /\ evicted' = FALSE
  /\ Goto(t, "start")
  /\ UNCHANGED <<process, mending, records, active, approving, flagged, on, message, outcome,
                 busy, phase, canceled, requests, history, bounds>>

(* The thread's record is saved as it was read.  A start that loses its    *)
(* engine on the way is left to RuntimeThreads, too.                       *)
Start(t) ==
  /\ At(t, "start")
  /\ \/ /\ active # None
        /\ Goto(t, "gone")
        /\ UNCHANGED <<auto, turn, active, approving, flagged, busy, canceled>>
     \/ /\ active = None /\ busy = None /\ ~evicted
        /\ turn' = [turn EXCEPT ![t] = "InProgress"]
        /\ auto' = read[t]
        /\ active' = t /\ approving' = read[t] /\ flagged' = FALSE
        /\ busy' = t /\ canceled' = FALSE
        /\ Goto(t, "listen")
  /\ UNCHANGED <<process, mending, listed, item, evicted, read, on, message, outcome, phase, events,
                 decisions, requests, history, bounds>>

Interrupt ==
  /\ process = "up" /\ active # None
  /\ flagged' = TRUE
  /\ canceled' = TRUE
  /\ UNCHANGED <<process, mending, records, active, approving, evicted, monitor, busy, phase,
                 events, decisions, requests, history, bounds>>

Evict ==
  /\ process = "up" /\ active # None /\ Fault
  /\ active' = None /\ approving' = FALSE /\ flagged' = FALSE
  /\ evicted' = TRUE
  /\ UNCHANGED <<process, mending, records, monitor, engine, requests, history>>

(* The map after the entry of an id is replaced: the sender it held is     *)
(* dropped, and a receiver that waits on it finds the channel closed.      *)
Replace(d, new, replies) ==
  /\ pending' = [pending EXCEPT ![d] = new]
  /\ reply' = [i \in Items |-> IF i = pending[d] /\ replies[i] = "open" THEN "dropped" ELSE replies[i]]

(* decide_approval: the sender leaves the map and passes the answer on, if *)
(* its receiver is still there; the client is told whether it was.         *)
Answer(d, v) ==
  /\ process = "up" /\ pending[d] # None
  /\ pending' = [pending EXCEPT ![d] = None]
  /\ LET i == pending[d]
     IN  IF i \in Tools /\ reply[i] = "open"
         THEN /\ reply' = [reply EXCEPT ![i] = v]
              /\ allowed' = IF v = "deny" THEN allowed ELSE allowed \cup {i}
         ELSE UNCHANGED <<reply, allowed>>
  /\ elsewhere' = IF pending[d] = Elsewhere THEN elsewhere \ {d} ELSE elsewhere
  /\ UNCHANGED <<process, mending, records, table, monitor, engine, remembered, recovered, torn, bounds>>

(* The monitor of another thread registers a request with one of our ids,  *)
(* and takes it back when its time is up, whoever is under the id by then. *)
RegisterElsewhere(d) ==
  /\ process = "up" /\ d \in Shared \ elsewhere
  /\ elsewhere' = elsewhere \cup {d}
  /\ Replace(d, Elsewhere, reply)
  /\ UNCHANGED <<process, mending, records, table, monitor, engine, history, bounds>>

CancelElsewhere(d) ==
  /\ process = "up" /\ d \in elsewhere
  /\ elsewhere' = elsewhere \ {d}
  /\ Replace(d, None, reply)
  /\ UNCHANGED <<process, mending, records, table, monitor, engine, history, bounds>>

-----------------------------------------------------------------------------
(* The engine, as its monitor sees it.                                     *)

OpenAmong(S) == {i \in S : phase[i] = "open"}
Room == Len(events) < EventCapacity
Working == process = "up" /\ busy # None /\ Room /\ \A i \in Tools : phase[i] # "asking"
Tell(what, i) == events' = Append(events, [what |-> what, of |-> i])
outside == <<process, mending, records, table, monitor, requests, history, bounds>>

(* A text block or a tool call begins.  A message that was not complete    *)
(* when another one begins is never completed.                             *)
Open(i) ==
  /\ Working /\ busy = TurnOf[i] /\ phase[i] = "new"
  /\ LET left == IF i \in Tools THEN {} ELSE OpenAmong(Items \ Tools)
     IN  phase' = [j \in Items |-> IF j = i THEN "open" ELSE IF j \in left THEN "dropped" ELSE phase[j]]
  /\ Tell("start", i)
  /\ UNCHANGED <<outside, busy, decisions, canceled>>

(* A message is complete, or a tool ran that needs no approval. *)
Finish(i) ==
  /\ Working /\ phase[i] = "open"
  /\ phase' = [phase EXCEPT ![i] = "done"]
  /\ Tell("done", i)
  /\ UNCHANGED <<outside, busy, decisions, canceled>>

Ask(i) ==
  /\ i \in Tools /\ Working /\ phase[i] = "open" /\ ~canceled
  /\ phase' = [phase EXCEPT ![i] = "asking"]
  /\ Tell("ask", i)
  /\ UNCHANGED <<outside, busy, decisions, canceled>>

(* Mutant: any decision will do. *)
IsAbout_Any(d, i) == TRUE

IsAbout(d, i) == d[1] = IdOf[i]

(* await_tool_approval takes the next decision and skips one that is about *)
(* another call; an approved tool runs, a denied one is done.              *)
Decide(i) ==
  /\ process = "up" /\ phase[i] = "asking" /\ decisions # <<>> /\ Room
  /\ decisions' = Tail(decisions)
  /\ IF IsAbout(Head(decisions), i)
     THEN /\ phase' = [phase EXCEPT ![i] = IF Head(decisions)[2] THEN "ran" ELSE "done"]
          /\ Tell("done", i)
     ELSE UNCHANGED <<phase, events>>
  /\ UNCHANGED <<outside, busy, canceled>>

GiveUp(i) ==
  /\ process = "up" /\ phase[i] = "asking" /\ canceled /\ Room
  /\ phase' = [phase EXCEPT ![i] = "done"]
  /\ Tell("done", i)
  /\ UNCHANGED <<outside, busy, decisions, canceled>>

(* The stream is cut after tool calls were announced, by an interrupt or   *)
(* because the request is sent again: nothing more is told of them.        *)
Drop ==
  /\ Working /\ OpenAmong(Tools) # {}
  /\ phase' = [i \in Items |-> IF i \in OpenAmong(Tools) THEN "dropped" ELSE phase[i]]
  /\ UNCHANGED <<outside, busy, events, decisions, canceled>>

(* A message that is still open is left to the monitor. *)
EndTurn ==
  /\ Working /\ OpenAmong(Tools) = {}
  /\ \E status \in Ended : (status = "Interrupted" => canceled) /\ Tell(status, None)
  /\ phase' = [i \in Items |-> IF i \in OpenAmong(Items) THEN "done" ELSE phase[i]]
  /\ busy' = None
  /\ UNCHANGED <<outside, decisions, canceled>>

Engine == \/ \E i \in Items : Open(i) \/ Finish(i) \/ Ask(i) \/ Decide(i) \/ GiveUp(i)
          \/ Drop \/ EndTurn

-----------------------------------------------------------------------------
(* monitor_turn                                                            *)

Outcome(t) == IF flagged /\ active = t THEN "Interrupted" ELSE Head(events).what

(* The open message ends with its turn. *)
(* Mutant: it is left as it is. *)
LastItems_Left(t) == item

LastItems(t) == [i \in Items |-> IF i = message THEN Outcome(t) ELSE item[i]]

(* An event of the engine.  A started item is saved in progress, to be     *)
(* listed next; the end of the turn is judged by a last look at the        *)
(* interrupt flag.                                                         *)
Hear(t) ==
  /\ At(t, "listen") /\ events # <<>>
  /\ events' = Tail(events)
  /\ LET e == Head(events)
     IN  \/ /\ e.what = "start"
            /\ item' = [item EXCEPT ![e.of] = "InProgress"]
            /\ on' = e.of /\ Goto(t, "attach")
            /\ UNCHANGED <<message, outcome>>
         \/ /\ e.what = "done" /\ e.of \in Tools
            /\ item' = [item EXCEPT ![e.of] = "Completed"]
            /\ UNCHANGED <<on, pc, message, outcome>>
         \/ /\ e.what = "done" /\ e.of \notin Tools
            /\ item' = [i \in Items |-> IF i = message THEN "Completed" ELSE item[i]]
            /\ message' = None
            /\ UNCHANGED <<on, pc, outcome>>
         \/ /\ e.what = "ask"   \* approval.required is told
            /\ on' = e.of /\ Goto(t, "flags")
            /\ UNCHANGED <<item, message, outcome>>
         \/ /\ e.what \in Ended
            /\ outcome' = Outcome(t)
            /\ item' = LastItems(t) /\ message' = None
            /\ Goto(t, "store") /\ UNCHANGED on
  /\ UNCHANGED <<process, mending, auto, turn, listed, table, read, busy, phase, decisions,
                 canceled, requests, history, bounds>>

Current == IF on \in Tools THEN message ELSE on

(* The item joins its turn's record, and a message becomes the current one. *)
Attach(t) ==
  /\ At(t, "attach")
  /\ listed' = [listed EXCEPT ![t] = @ \cup {on}]
  /\ message' = Current
  /\ on' = None
  /\ Goto(t, "listen")
  /\ UNCHANGED <<process, mending, auto, turn, item, table, read, outcome, engine, requests,
                 history, bounds>>

Verdict(v) == decisions' = Append(decisions, <<IdOf[on], v>>)

(* A turn that is no longer active is denied; one that approves by itself  *)
(* does; else the request is registered, over one with the same id.        *)
Flags(t) ==
  /\ At(t, "flags")
  /\ \/ /\ active # t
        /\ Verdict(FALSE) /\ on' = None /\ Goto(t, "listen")
        /\ UNCHANGED <<pending, reply, allowed>>
     \/ /\ active = t /\ approving
        /\ Verdict(TRUE) /\ on' = None /\ Goto(t, "listen")
        /\ allowed' = allowed \cup {on} /\ UNCHANGED <<pending, reply>>
     \/ /\ active = t /\ ~approving
        /\ Replace(IdOf[on], on, [reply EXCEPT ![on] = "open"])
        /\ Goto(t, "wait") /\ UNCHANGED <<decisions, on, allowed>>
  /\ UNCHANGED <<process, mending, records, table, read, message, outcome, busy, phase, events,
                 canceled, elsewhere, remembered, recovered, torn, bounds>>

(* remember_thread_auto_approve: the answer is written to the thread, and  *)
(* to the active turn; a failed write leaves only the latter.              *)
(* Mutant: only to the active turn. *)
Remember_Turn ==
  /\ approving' = (active # None)
  /\ remembered' = TRUE /\ UNCHANGED <<auto, faults>>

Remember ==
  /\ approving' = (approving \/ (~auto /\ active # None))
  /\ \/ auto' = TRUE /\ remembered' = TRUE /\ UNCHANGED faults
     \/ ~auto /\ faults < MaxFaults /\ faults' = faults + 1 /\ UNCHANGED <<auto, remembered>>

Take(t) ==
  /\ At(t, "wait") /\ reply[on] \in Answers
  /\ \/ reply[on] = "remember" /\ Remember
     \/ reply[on] # "remember" /\ UNCHANGED <<auto, approving, remembered, faults>>
  /\ reply' = [reply EXCEPT ![on] = "none"]
  /\ Verdict(reply[on] # "deny")
  /\ on' = None
  /\ Goto(t, "listen")
  /\ UNCHANGED <<process, mending, turn, listed, item, active, flagged, evicted, read, message,
                 outcome, busy, phase, events, canceled, pending, elsewhere, allowed, recovered,
                 torn, crashes>>

(* The timer has run out and no answer was there.  The receiver is still   *)
(* open: an answer that comes now is accepted and lost.                    *)
Expire(t) ==
  /\ At(t, "wait") /\ reply[on] = "open"
  /\ Goto(t, "expired")
  /\ UNCHANGED <<process, mending, records, table, read, on, message, outcome, engine, requests,
                 history, bounds>>

DropReceiver(t) ==
  /\ At(t, "expired")
  /\ reply' = [reply EXCEPT ![on] = "none"]
  /\ Goto(t, "cancel")
  /\ UNCHANGED <<process, mending, records, table, read, on, message, outcome, engine, pending,
                 elsewhere, history, bounds>>

(* Timed out, or displaced by another request: what is under the id by now *)
(* is taken from the map, and the call is denied.                          *)
(* Mutant: it is not. *)
Refuse_Silent(t) ==
  /\ At(t, "cancel") \/ (At(t, "wait") /\ reply[on] = "dropped")
  /\ Replace(IdOf[on], None, [reply EXCEPT ![on] = "none"])
  /\ on' = None
  /\ Goto(t, "listen")
  /\ UNCHANGED <<process, mending, records, table, read, message, outcome, engine, elsewhere, history,
                 bounds>>

Refuse(t) ==
  /\ At(t, "cancel") \/ (At(t, "wait") /\ reply[on] = "dropped")
  /\ Replace(IdOf[on], None, [reply EXCEPT ![on] = "none"])
  /\ Verdict(FALSE)
  /\ on' = None
  /\ Goto(t, "listen")
  /\ UNCHANGED <<process, mending, records, table, read, message, outcome, busy, phase, events,
                 canceled, elsewhere, history, bounds>>

(* The turn's record, turn.completed, and the thread is free again. *)
Store(t) ==
  /\ At(t, "store")
  /\ turn' = [turn EXCEPT ![t] = outcome]
  /\ outcome' = "Completed"
  /\ IF active = t THEN active' = None /\ approving' = FALSE /\ flagged' = FALSE
     ELSE UNCHANGED <<active, approving, flagged>>
  /\ Goto(t, "gone")
  /\ UNCHANGED <<process, mending, auto, listed, item, evicted, read, on, message, engine,
                 requests, history, bounds>>

(* A write or an event fails: the monitor ends where it stands. *)
MonitorFails(t) ==
  /\ process = "up" /\ pc[t] \in {"listen", "attach", "flags", "store"} /\ Fault
  /\ Goto(t, "gone")
  /\ UNCHANGED <<process, mending, records, table, read, on, message, outcome, engine, requests,
                 history>>

Monitor(t) == \/ Hear(t) \/ Attach(t) \/ Flags(t) \/ Take(t) \/ Expire(t) \/ DropReceiver(t)
              \/ Refuse(t) \/ Store(t)

-----------------------------------------------------------------------------
(* Death and recovery.                                                     *)

(* The files stay. *)
Dies ==
  /\ process' = "down" /\ mending' = None
  /\ torn' = torn \cup ({mending} \ {None})
  /\ active' = None /\ approving' = FALSE /\ flagged' = FALSE /\ evicted' = FALSE
  /\ pc' = [t \in Turns |-> IF pc[t] = "new" THEN "new" ELSE "gone"]
  /\ read' = [t \in Turns |-> FALSE] /\ on' = None /\ message' = None /\ outcome' = "Completed"
  /\ phase' = [i \in Items |-> IF phase[i] \in {"open", "asking"} THEN "dropped" ELSE phase[i]]
  /\ busy' = None /\ events' = <<>> /\ decisions' = <<>> /\ canceled' = FALSE
  /\ pending' = [d \in Ids |-> None] /\ reply' = [i \in Items |-> "none"] /\ elsewhere' = {}
  /\ UNCHANGED <<records, allowed, remembered, recovered>>

Crash ==
  /\ process # "down" /\ crashes < MaxCrashes /\ crashes' = crashes + 1 /\ UNCHANGED faults
  /\ Dies

(* A write of the recovery fails, and with it the boot. *)
BootFails ==
  /\ process = "recovering" /\ Fault
  /\ Dies

(* Recovery looks for turns in progress, of which each is saved as         *)
(* interrupted, and then its items.                                        *)
Boot ==
  /\ process = "down" /\ process' = "recovering"
  /\ UNCHANGED <<mending, records, table, monitor, engine, requests, history, bounds>>

RecoverTurn(t) ==
  /\ process = "recovering" /\ mending = None /\ turn[t] = "InProgress"
  /\ turn' = [turn EXCEPT ![t] = "Interrupted"]
  /\ mending' = t
  /\ UNCHANGED <<process, auto, listed, item, table, monitor, engine, requests, history, bounds>>

ToMend == {i \in listed[mending] : item[i] = "InProgress"}

RecoverItem(i) ==
  /\ process = "recovering" /\ mending # None /\ i \in ToMend
  /\ item' = [item EXCEPT ![i] = "Interrupted"]
  /\ UNCHANGED <<process, mending, auto, turn, listed, table, monitor, engine, requests, history,
                 bounds>>

RecoveredTurn ==
  /\ process = "recovering" /\ mending # None /\ ToMend = {}
  /\ recovered' = recovered \cup {mending} /\ mending' = None
  /\ UNCHANGED <<process, records, table, monitor, engine, requests, allowed, remembered, torn, bounds>>

Serve ==
  /\ process = "recovering" /\ mending = None /\ \A t \in Turns : turn[t] # "InProgress"
  /\ process' = "up"
  /\ UNCHANGED <<mending, records, table, monitor, engine, requests, history, bounds>>

-----------------------------------------------------------------------------
Next ==
  \/ \E t \in Turns : StartRead(t) \/ Start(t) \/ Monitor(t) \/ MonitorFails(t) \/ RecoverTurn(t)
  \/ Interrupt \/ Evict \/ Engine
  \/ \E d \in Ids : RegisterElsewhere(d) \/ CancelElsewhere(d) \/ \E v \in Answers : Answer(d, v)
  \/ \E i \in Items : RecoverItem(i)
  \/ Crash \/ BootFails \/ Boot \/ RecoveredTurn \/ Serve

Spec == Init /\ [][Next]_vars

(* Streams end and tools return, the monitor runs and its timer runs out;  *)
(* no client has to answer.                                                *)
FairSpec == Spec /\ WF_vars(Engine) /\ \A t \in Turns : WF_vars(Monitor(t))

-----------------------------------------------------------------------------
(* Properties.                                                             *)

(* A tool that asked runs only if its own request was allowed, by an       *)
(* answer that reached it or by the turn's auto_approve: no decision on a  *)
(* request that was interrupted, displaced or timed out runs another one.  *)
RanIfAllowed == \A i \in Tools : phase[i] = "ran" => i \in allowed

(* What a turn lists is over when the turn is, except what the engine      *)
(* stopped telling of, and the items of a turn whose recovery died half    *)
(* way; a turn that a boot did recover has nothing in progress at all.     *)
ItemsEndWithTheirTurn ==
  process = "up" =>
    \A t \in Turns : \A i \in listed[t] :
      turn[t] \in Ended /\ item[i] = "InProgress" =>
        t \in torn \/ (phase[i] = "dropped" /\ t \notin recovered)

(* A client that had its answer remembered is not asked again on that      *)
(* thread, in this turn or a later one, nor after a restart.               *)
RememberedIsNotAsked == remembered => \A t \in Turns : pc[t] # "wait"

(* Whatever the clients answer, and if they never do, the monitor of a     *)
(* turn comes to its end.                                                  *)
TurnsSettle == \A t \in Turns : pc[t] = "listen" ~> pc[t] = "gone"

(* What the documentation promises (docs/RUNTIME_API.md:468): whatever was *)
(* in progress when the process ended is interrupted after the restart.    *)
(* The code looks only at the turns that were: an item its engine stopped  *)
(* telling of stays in progress in a turn that ended before.               *)
BootEndsItems ==
  [][process = "recovering" /\ process' = "up" =>
       \A t \in Turns : \A i \in listed[t] : item[i] # "InProgress"]_vars

=============================================================================

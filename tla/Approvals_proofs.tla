---------------------------- MODULE Approvals_proofs ----------------------------
(***************************************************************************)
(* Proofs about Approvals for any turns, items, ids and other threads, any *)
(* capacity, and any number of failures and crashes.  TypeOK rests on a    *)
(* thread having one monitor at a time; that no tool runs unallowed also   *)
(* on ids that differ within the thread; that a remembered answer is not   *)
(* asked for again on clients that wait for a turn to be over; and that    *)
(* items end with their turn on the order of what the engine tells.        *)
(***************************************************************************)
EXTENDS Approvals, TLAPS

Asked == {"flags", "wait", "expired", "cancel"}

(* A turn is monitored while it is the active one, or after the eviction   *)
(* of its engine until the next start; so one turn at most is.             *)
OneMonitor == \A t, u \in Turns : pc[t] \in Monitored /\ pc[u] \in Monitored => t = u

MonitoredIsActive == \A t \in Turns : pc[t] \in Monitored => active = t \/ evicted

(* What the monitor has in hand. *)
OnTheItem ==
  \A t \in Turns : /\ pc[t] = "attach" => on \in Items
                   /\ pc[t] \in Asked => on \in Tools

IInv == TypeOK /\ OneMonitor /\ MonitoredIsActive /\ OnTheItem

LEMMA InitInv == Init => IInv
<1> SUFFICES ASSUME Init PROVE IInv
  OBVIOUS
<1> USE DEF Init
<1>1. RecordsTypeOK /\ MonitorTypeOK
  BY DEF RecordsTypeOK, MonitorTypeOK, Statuses, Monitored, Ended
<1>2. EngineTypeOK /\ RequestsTypeOK
  BY DEF EngineTypeOK, RequestsTypeOK, Phases
<1>3. SwitchesTypeOK
  BY Zenon DEF SwitchesTypeOK
<1>4. HistoryTypeOK
  BY ApprovalBounds DEF HistoryTypeOK
<1>5. OneMonitor /\ MonitoredIsActive /\ OnTheItem
  BY DEF OneMonitor, MonitoredIsActive, OnTheItem, Monitored, Asked
<1> QED BY <1>1, <1>2, <1>3, <1>4, <1>5 DEF IInv, TypeOK

-----------------------------------------------------------------------------
(* What a step leaves alone keeps its type.                                *)

LEMMA RecordsStand ==
  ASSUME RecordsTypeOK, UNCHANGED <<process, mending, turn, listed, item>>
  PROVE  RecordsTypeOK'
BY DEF RecordsTypeOK

LEMMA EngineStands ==
  ASSUME EngineTypeOK, UNCHANGED <<busy, phase, events, decisions>>
  PROVE  EngineTypeOK'
BY DEF EngineTypeOK

LEMMA RequestsStand ==
  ASSUME RequestsTypeOK, UNCHANGED <<pending, elsewhere, reply>>
  PROVE  RequestsTypeOK'
BY DEF RequestsTypeOK

LEMMA SwitchesStand ==
  ASSUME SwitchesTypeOK, UNCHANGED <<auto, approving, flagged, evicted, canceled, remembered>>
  PROVE  SwitchesTypeOK'
BY DEF SwitchesTypeOK

LEMMA HistoryStands ==
  ASSUME HistoryTypeOK, UNCHANGED <<allowed, recovered, torn, faults, crashes>>
  PROVE  HistoryTypeOK'
BY DEF HistoryTypeOK

(* Nothing changes for the monitors. *)
LEMMA MonitorStands ==
  ASSUME IInv, UNCHANGED <<pc, read, active, evicted, on, message, outcome>>
  PROVE  MonitorTypeOK' /\ OneMonitor' /\ MonitoredIsActive' /\ OnTheItem'
BY DEF IInv, TypeOK, MonitorTypeOK, OneMonitor, MonitoredIsActive, OnTheItem

(* A monitor that moves on is still the only one. *)
LEMMA MonitorMoves ==
  ASSUME IInv, NEW t \in Turns, NEW l, Goto(t, l), pc[t] \in Monitored,
         UNCHANGED <<active, evicted>>
  PROVE  OneMonitor' /\ MonitoredIsActive'
BY DEF IInv, TypeOK, MonitorTypeOK, OneMonitor, MonitoredIsActive, Goto

(* It puts the item away when it listens again. *)
LEMMA MonitorListens ==
  ASSUME IInv, NEW t \in Turns, NEW l \in {"listen", "store", "gone"}, Goto(t, l), pc[t] \in Monitored,
         UNCHANGED <<active, evicted>>
  PROVE  OneMonitor' /\ MonitoredIsActive' /\ OnTheItem'
<1>1. OneMonitor' /\ MonitoredIsActive'
  BY MonitorMoves
<1>2. \A u \in Turns : pc'[u] \notin Asked \cup {"attach"}
  BY DEF IInv, TypeOK, MonitorTypeOK, OneMonitor, Goto, Monitored, Asked
<1> QED BY <1>1, <1>2 DEF OnTheItem

LEMMA ReplaceTyped ==
  ASSUME RequestsTypeOK, NEW d \in Ids, NEW new \in Tools \cup {None, Elsewhere}, NEW replies,
         replies \in [Items -> Answers \cup {"none", "open", "dropped"}],
         Replace(d, new, replies), elsewhere' \subseteq Shared
  PROVE  RequestsTypeOK'
BY DEF Replace, RequestsTypeOK

-----------------------------------------------------------------------------
(* Clients and other threads.                                              *)

LEMMA StartReadKeeps ==
  ASSUME IInv, NEW t \in Turns, StartRead(t)
  PROVE  IInv'
<1> USE DEF IInv, TypeOK, StartRead
<1>1. RecordsTypeOK' /\ RequestsTypeOK' /\ HistoryTypeOK'
  BY RecordsStand, RequestsStand, HistoryStands DEF records, requests, history, bounds
<1>2. MonitorTypeOK'
  <2>1. auto \in BOOLEAN
    BY DEF SwitchesTypeOK
  <2> QED BY <2>1 DEF MonitorTypeOK, Goto
<1>3. EngineTypeOK'
  <2>1. <<>> \in Seq(Event) /\ <<>> \in Seq(Ids \X BOOLEAN)
    OBVIOUS
  <2>2. CASE evicted
    BY <2>1, <2>2 DEF EngineTypeOK
  <2>3. CASE ~evicted
    BY <2>3 DEF EngineTypeOK
  <2> QED BY <2>2, <2>3
<1>4. SwitchesTypeOK'
  BY Zenon DEF SwitchesTypeOK, records, history
<1>5. OneMonitor' /\ MonitoredIsActive' /\ OnTheItem'
  BY DEF MonitorTypeOK, OneMonitor, MonitoredIsActive, OnTheItem, At, Goto, Monitored, Asked
<1> QED BY <1>1, <1>2, <1>3, <1>4, <1>5

LEMMA StartKeeps ==
  ASSUME IInv, NEW t \in Turns, Start(t)
  PROVE  IInv'
<1> USE DEF IInv, TypeOK, Start
<1>1. RecordsTypeOK'
  BY DEF RecordsTypeOK, Statuses
<1>2. RequestsTypeOK' /\ HistoryTypeOK'
  BY RequestsStand, HistoryStands DEF requests, history, bounds
<1>3. MonitorTypeOK' /\ EngineTypeOK'
  BY DEF MonitorTypeOK, EngineTypeOK, Goto, Monitored
<1>4. SwitchesTypeOK'
  <2>1. read[t] \in BOOLEAN
    BY DEF MonitorTypeOK
  <2> QED BY <2>1, Zenon DEF SwitchesTypeOK, history
<1>5. OneMonitor' /\ MonitoredIsActive' /\ OnTheItem'
  BY ItemsAssumption
  DEF MonitorTypeOK, OneMonitor, MonitoredIsActive, OnTheItem, At, Goto, Monitored, Asked
<1> QED BY <1>1, <1>2, <1>3, <1>4, <1>5

LEMMA InterruptKeeps ==
  ASSUME IInv, Interrupt
  PROVE  IInv'
<1> USE DEF IInv, TypeOK, Interrupt
<1>1. RecordsTypeOK' /\ EngineTypeOK' /\ RequestsTypeOK' /\ HistoryTypeOK'
  BY RecordsStand, EngineStands, RequestsStand, HistoryStands DEF records, requests, history, bounds
<1>2. SwitchesTypeOK'
  BY Zenon DEF SwitchesTypeOK, records, history
<1> QED BY <1>1, <1>2, MonitorStands DEF monitor

LEMMA EvictKeeps ==
  ASSUME IInv, Evict
  PROVE  IInv'
<1> USE DEF IInv, TypeOK, Evict
<1>1. RecordsTypeOK' /\ EngineTypeOK' /\ RequestsTypeOK'
  BY RecordsStand, EngineStands, RequestsStand DEF records, engine, requests
<1>2. SwitchesTypeOK'
  BY Zenon DEF SwitchesTypeOK, records, engine, history
<1>3. HistoryTypeOK'
  BY ApprovalBounds DEF HistoryTypeOK, Fault, history
<1>4. MonitorTypeOK' /\ OneMonitor' /\ MonitoredIsActive' /\ OnTheItem'
  BY DEF MonitorTypeOK, OneMonitor, MonitoredIsActive, OnTheItem, monitor
<1> QED BY <1>1, <1>2, <1>3, <1>4

LEMMA AnswerKeeps ==
  ASSUME IInv, NEW d \in Ids, NEW v \in Answers, Answer(d, v)
  PROVE  IInv'
<1> USE DEF IInv, TypeOK, Answer
<1>1. RecordsTypeOK' /\ EngineTypeOK' /\ SwitchesTypeOK'
  BY RecordsStand, EngineStands, SwitchesStand DEF records, table, engine
<1>2. RequestsTypeOK' /\ HistoryTypeOK'
  BY ItemsAssumption DEF RequestsTypeOK, HistoryTypeOK, bounds
<1> QED BY <1>1, <1>2, MonitorStands DEF table, monitor

LEMMA ElsewhereKeeps ==
  ASSUME IInv, NEW d \in Ids, RegisterElsewhere(d) \/ CancelElsewhere(d)
  PROVE  IInv'
<1> USE DEF IInv, TypeOK, RegisterElsewhere, CancelElsewhere
<1>1. RecordsTypeOK' /\ EngineTypeOK' /\ SwitchesTypeOK' /\ HistoryTypeOK'
  BY RecordsStand, EngineStands, SwitchesStand, HistoryStands
  DEF records, table, engine, history, bounds
<1>2. RequestsTypeOK'
  <2>1. PICK new \in {None, Elsewhere} : Replace(d, new, reply)
    OBVIOUS
  <2>2. elsewhere' \subseteq Shared
    BY DEF RequestsTypeOK
  <2> QED BY <2>1, <2>2, ReplaceTyped DEF RequestsTypeOK
<1> QED BY <1>1, <1>2, MonitorStands DEF table, monitor

-----------------------------------------------------------------------------
(* The engine.                                                             *)

LEMMA Told ==
  ASSUME EngineTypeOK, NEW what, NEW i, [what |-> what, of |-> i] \in Event, Tell(what, i)
  PROVE  events' \in Seq(Event)
BY DEF EngineTypeOK, Tell

LEMMA EngineKeeps ==
  ASSUME IInv, Engine
  PROVE  IInv'
<1> USE DEF IInv, TypeOK
<1> DEFINE Frame == UNCHANGED outside /\ EngineTypeOK' /\ canceled' = canceled
<1>1. ASSUME Frame PROVE IInv'
  <2>1. RecordsTypeOK' /\ RequestsTypeOK' /\ SwitchesTypeOK' /\ HistoryTypeOK'
    BY <1>1, RecordsStand, RequestsStand, SwitchesStand, HistoryStands
    DEF outside, records, table, requests, history, bounds
  <2> QED BY <1>1, <2>1, MonitorStands DEF outside, table, monitor
<1>2. ASSUME NEW i \in Items, Open(i) PROVE IInv'
  <2>1. events' \in Seq(Event)
    BY <1>2, Told DEF Open, Event
  <2> QED BY <1>1, <1>2, <2>1 DEF Open, EngineTypeOK, Phases
<1>3. ASSUME NEW i \in Items, Finish(i) PROVE IInv'
  <2>1. events' \in Seq(Event)
    BY <1>3, Told DEF Finish, Event
  <2> QED BY <1>1, <1>3, <2>1 DEF Finish, EngineTypeOK, Phases
<1>4. ASSUME NEW i \in Items, Ask(i) PROVE IInv'
  <2>1. events' \in Seq(Event)
    BY <1>4, Told DEF Ask, Event
  <2> QED BY <1>1, <1>4, <2>1 DEF Ask, EngineTypeOK, Phases
<1>5. ASSUME NEW i \in Items, Decide(i) PROVE IInv'
  <2>1. [what |-> "done", of |-> i] \in Event
    BY DEF Event
  <2>2. events' \in Seq(Event)
    BY <1>5, <2>1, Told DEF Decide, EngineTypeOK
  <2>3. decisions' \in Seq(Ids \X BOOLEAN)
    BY <1>5 DEF Decide, EngineTypeOK
  <2>4. phase' \in [Items -> Phases] /\ busy' \in Turns \cup {None}
    BY <1>5 DEF Decide, EngineTypeOK, Phases
  <2> QED BY <1>1, <1>5, <2>2, <2>3, <2>4 DEF Decide, EngineTypeOK
<1>6. ASSUME NEW i \in Items, GiveUp(i) PROVE IInv'
  <2>1. events' \in Seq(Event)
    BY <1>6, Told DEF GiveUp, Event
  <2> QED BY <1>1, <1>6, <2>1 DEF GiveUp, EngineTypeOK, Phases
<1>7. ASSUME Drop PROVE IInv'
  BY <1>1, <1>7 DEF Drop, EngineTypeOK, Phases
<1>8. ASSUME EndTurn PROVE IInv'
  <2>1. events' \in Seq(Event)
    <3>1. PICK status \in Ended : Tell(status, None)
      BY <1>8 DEF EndTurn
    <3> QED BY <3>1, Told DEF Event
  <2> QED BY <1>1, <1>8, <2>1 DEF EndTurn, EngineTypeOK, Phases
<1> QED BY <1>2, <1>3, <1>4, <1>5, <1>6, <1>7, <1>8 DEF Engine

-----------------------------------------------------------------------------
(* The monitor.                                                            *)

LEMMA Spoken ==
  ASSUME EngineTypeOK, NEW v \in BOOLEAN, on \in Items, Verdict(v),
         UNCHANGED <<busy, phase, events>>
  PROVE  EngineTypeOK'
<1>1. <<IdOf[on], v>> \in Ids \X BOOLEAN
  BY MapsAssumption
<1> QED BY <1>1 DEF EngineTypeOK, Verdict

LEMMA HearKeeps ==
  ASSUME IInv, NEW t \in Turns, Hear(t)
  PROVE  IInv'
<1> USE DEF IInv, TypeOK, Hear
<1> DEFINE e == Head(events)
<1>1. e \in Event
  BY DEF EngineTypeOK
<1>2. RequestsTypeOK' /\ SwitchesTypeOK' /\ HistoryTypeOK'
  BY RequestsStand, SwitchesStand, HistoryStands DEF table, requests, history, bounds
<1>3. EngineTypeOK'
  BY DEF EngineTypeOK
<1>4. e.what \in Ended => Outcome(t) \in Ended
  BY DEF Outcome, Ended
<1>5. RecordsTypeOK'
  BY <1>1, <1>4 DEF RecordsTypeOK, Statuses, LastItems, Ended, Event
<1>6. MonitorTypeOK'
  BY <1>1, <1>4, ItemsAssumption DEF MonitorTypeOK, Goto, Monitored, Event, Ended, table
<1>7. OneMonitor' /\ MonitoredIsActive'
  <2>1. pc[t] \in Monitored
    BY DEF At, Monitored
  <2>2. PICK l : Goto(t, l) \/ (l = "listen" /\ pc' = pc)
    OBVIOUS
  <2>3. UNCHANGED <<active, evicted>>
    BY DEF table
  <2> QED BY <2>1, <2>2, <2>3, MonitorMoves DEF OneMonitor, MonitoredIsActive
<1>8. OnTheItem'
  BY <1>1, <1>7 DEF OnTheItem, OneMonitor, MonitorTypeOK, At, Goto, Monitored, Asked, Event, Ended
<1> QED BY <1>2, <1>3, <1>5, <1>6, <1>7, <1>8

LEMMA AttachKeeps ==
  ASSUME IInv, NEW t \in Turns, Attach(t)
  PROVE  IInv'
<1> USE DEF IInv, TypeOK, Attach
<1>1. EngineTypeOK' /\ RequestsTypeOK' /\ SwitchesTypeOK' /\ HistoryTypeOK'
  BY EngineStands, RequestsStand, SwitchesStand, HistoryStands
  DEF table, engine, requests, history, bounds
<1>2. on \in Items /\ pc[t] \in Monitored
  BY DEF OnTheItem, At, Monitored
<1>3. RecordsTypeOK'
  BY <1>2 DEF RecordsTypeOK
<1>4. MonitorTypeOK'
  BY <1>2 DEF MonitorTypeOK, Goto, Monitored, Current, table
<1>5. OneMonitor' /\ MonitoredIsActive' /\ OnTheItem'
  BY <1>2, MonitorListens DEF table
<1> QED BY <1>1, <1>3, <1>4, <1>5

LEMMA FlagsKeeps ==
  ASSUME IInv, NEW t \in Turns, Flags(t)
  PROVE  IInv'
<1> USE DEF IInv, TypeOK, Flags
<1>1. RecordsTypeOK' /\ SwitchesTypeOK'
  BY RecordsStand, SwitchesStand DEF records, table
<1>2. on \in Tools /\ on \in Items /\ pc[t] \in Monitored /\ IdOf[on] \in Ids
  BY ItemsAssumption, MapsAssumption DEF OnTheItem, At, Monitored, Asked
<1>3. HistoryTypeOK'
  BY <1>2 DEF HistoryTypeOK, bounds
<1>4. EngineTypeOK'
  BY <1>2, Spoken, EngineStands
<1>5. RequestsTypeOK'
  <2>1. [reply EXCEPT ![on] = "open"] \in [Items -> Answers \cup {"none", "open", "dropped"}]
    BY DEF RequestsTypeOK
  <2>2. elsewhere' \subseteq Shared
    BY DEF RequestsTypeOK
  <2> QED BY <1>2, <2>1, <2>2, ReplaceTyped, RequestsStand
<1>6. MonitorTypeOK'
  BY <1>2 DEF MonitorTypeOK, Goto, Monitored, table
<1>7. OneMonitor' /\ MonitoredIsActive' /\ OnTheItem'
  <2>1. PICK l \in {"listen", "wait"} : Goto(t, l) /\ (l = "wait" => on' = on)
    OBVIOUS
  <2>2. UNCHANGED <<active, evicted>>
    BY DEF table
  <2>3. OneMonitor' /\ MonitoredIsActive'
    BY <1>2, <2>1, <2>2, MonitorMoves
  <2> QED BY <1>2, <2>1, <2>3 DEF OnTheItem, OneMonitor, MonitorTypeOK, Goto, Monitored, Asked
<1> QED BY <1>1, <1>3, <1>4, <1>5, <1>6, <1>7

LEMMA TakeKeeps ==
  ASSUME IInv, NEW t \in Turns, Take(t)
  PROVE  IInv'
<1> USE DEF IInv, TypeOK, Take
<1>1. RecordsTypeOK'
  BY RecordsStand
<1>2. on \in Items /\ pc[t] \in Monitored
  BY ItemsAssumption DEF OnTheItem, At, Monitored, Asked
<1>3. SwitchesTypeOK'
  BY Zenon DEF SwitchesTypeOK, Remember
<1>4. HistoryTypeOK'
  BY ApprovalBounds DEF HistoryTypeOK, Remember
<1>5. EngineTypeOK'
  BY <1>2, Spoken
<1>6. RequestsTypeOK'
  BY DEF RequestsTypeOK
<1>7. MonitorTypeOK'
  BY DEF MonitorTypeOK, Goto, Monitored
<1>8. OneMonitor' /\ MonitoredIsActive' /\ OnTheItem'
  BY <1>2, MonitorListens
<1> QED BY <1>1, <1>3, <1>4, <1>5, <1>6, <1>7, <1>8

(* The timer's end, with the receiver still there and then without it. *)
LEMMA TimeoutKeeps ==
  ASSUME IInv, NEW t \in Turns, Expire(t) \/ DropReceiver(t)
  PROVE  IInv'
<1> USE DEF IInv, TypeOK, Expire, DropReceiver
<1>1. RecordsTypeOK' /\ EngineTypeOK' /\ SwitchesTypeOK' /\ HistoryTypeOK'
  BY RecordsStand, EngineStands, SwitchesStand, HistoryStands
  DEF records, table, engine, history, bounds
<1>2. RequestsTypeOK'
  BY DEF RequestsTypeOK, requests
<1>3. MonitorTypeOK'
  BY DEF MonitorTypeOK, Goto, Monitored, table
<1>4. PICK l \in {"expired", "cancel"} : Goto(t, l)
  OBVIOUS
<1>5. pc[t] \in Monitored /\ pc[t] \in Asked /\ UNCHANGED <<active, evicted, on>>
  BY DEF At, Monitored, Asked, table
<1>6. OneMonitor' /\ MonitoredIsActive'
  BY <1>4, <1>5, MonitorMoves
<1>7. OnTheItem'
  BY <1>4, <1>5 DEF OnTheItem, MonitorTypeOK, Goto, Asked
<1> QED BY <1>1, <1>2, <1>3, <1>6, <1>7

LEMMA RefuseKeeps ==
  ASSUME IInv, NEW t \in Turns, Refuse(t)
  PROVE  IInv'
<1> USE DEF IInv, TypeOK, Refuse
<1>1. RecordsTypeOK' /\ SwitchesTypeOK' /\ HistoryTypeOK'
  BY RecordsStand, SwitchesStand, HistoryStands DEF records, table, history, bounds
<1>2. on \in Items /\ IdOf[on] \in Ids /\ pc[t] \in Monitored
  BY ItemsAssumption, MapsAssumption DEF OnTheItem, At, Monitored, Asked
<1>3. EngineTypeOK'
  BY <1>2, Spoken
<1>4. RequestsTypeOK'
  <2>1. [reply EXCEPT ![on] = "none"] \in [Items -> Answers \cup {"none", "open", "dropped"}]
    BY DEF RequestsTypeOK
  <2>2. elsewhere' \subseteq Shared
    BY DEF RequestsTypeOK
  <2> QED BY <1>2, <2>1, <2>2, ReplaceTyped
<1>5. MonitorTypeOK'
  BY DEF MonitorTypeOK, Goto, Monitored, table
<1>6. OneMonitor' /\ MonitoredIsActive' /\ OnTheItem'
  BY <1>2, MonitorListens DEF table
<1> QED BY <1>1, <1>3, <1>4, <1>5, <1>6

LEMMA StoreKeeps ==
  ASSUME IInv, NEW t \in Turns, Store(t)
  PROVE  IInv'
<1> USE DEF IInv, TypeOK, Store
<1>1. EngineTypeOK' /\ RequestsTypeOK' /\ HistoryTypeOK'
  BY EngineStands, RequestsStand, HistoryStands DEF engine, requests, history, bounds
<1>2. RecordsTypeOK'
  BY DEF RecordsTypeOK, MonitorTypeOK, Statuses
<1>3. SwitchesTypeOK'
  BY Zenon DEF SwitchesTypeOK, engine, history
<1>4. MonitorTypeOK'
  BY DEF MonitorTypeOK, Goto, Ended
<1>5. \A u \in Turns : pc'[u] \notin Monitored
  BY DEF OneMonitor, MonitorTypeOK, At, Goto, Monitored
<1>6. OneMonitor' /\ MonitoredIsActive' /\ OnTheItem'
  BY <1>5 DEF OneMonitor, MonitoredIsActive, OnTheItem, Monitored, Asked
<1> QED BY <1>1, <1>2, <1>3, <1>4, <1>6

LEMMA MonitorFailsKeeps ==
  ASSUME IInv, NEW t \in Turns, MonitorFails(t)
  PROVE  IInv'
<1> USE DEF IInv, TypeOK, MonitorFails
<1>1. RecordsTypeOK' /\ EngineTypeOK' /\ RequestsTypeOK' /\ SwitchesTypeOK'
  BY RecordsStand, EngineStands, RequestsStand, SwitchesStand
  DEF records, table, engine, requests, history
<1>2. HistoryTypeOK'
  BY ApprovalBounds DEF HistoryTypeOK, Fault, history
<1>3. MonitorTypeOK'
  BY DEF MonitorTypeOK, Goto, table
<1>4. pc[t] \in Monitored
  BY DEF Monitored
<1>5. OneMonitor' /\ MonitoredIsActive' /\ OnTheItem'
  BY <1>4, MonitorListens DEF table
<1> QED BY <1>1, <1>2, <1>3, <1>5

-----------------------------------------------------------------------------
(* Death and recovery.                                                     *)

LEMMA DiesKeeps ==
  ASSUME IInv, Dies, faults' \in 0..MaxFaults, crashes' \in 0..MaxCrashes
  PROVE  IInv'
<1> USE DEF IInv, TypeOK, Dies
<1>1. RecordsTypeOK'
  BY DEF RecordsTypeOK, records
<1>2. MonitorTypeOK'
  BY DEF MonitorTypeOK, Ended
<1>3. EngineTypeOK'
  BY DEF EngineTypeOK, Phases
<1>4. RequestsTypeOK'
  BY DEF RequestsTypeOK
<1>5. SwitchesTypeOK'
  BY Zenon DEF SwitchesTypeOK, records
<1>6. HistoryTypeOK'
  BY DEF HistoryTypeOK, RecordsTypeOK
<1>7. \A u \in Turns : pc'[u] \in {"new", "gone"}
  OBVIOUS
<1>8. OneMonitor' /\ MonitoredIsActive' /\ OnTheItem'
  BY <1>7 DEF OneMonitor, MonitoredIsActive, OnTheItem, Monitored, Asked
<1> QED BY <1>1, <1>2, <1>3, <1>4, <1>5, <1>6, <1>8

LEMMA DeathKeeps ==
  ASSUME IInv, Crash \/ BootFails
  PROVE  IInv'
<1>1. Dies
  BY DEF Crash, BootFails
<1>2. faults' \in 0..MaxFaults /\ crashes' \in 0..MaxCrashes
  BY ApprovalBounds DEF IInv, TypeOK, HistoryTypeOK, Crash, BootFails, Fault
<1> QED BY <1>1, <1>2, DiesKeeps

Recovery == \/ Boot \/ RecoveredTurn \/ Serve
            \/ \E t \in Turns : RecoverTurn(t)
            \/ \E i \in Items : RecoverItem(i)

LEMMA RecoveryKeeps ==
  ASSUME IInv, Recovery
  PROVE  IInv'
<1> USE DEF IInv, TypeOK, Recovery, Boot, RecoveredTurn, Serve, RecoverTurn, RecoverItem
<1>1. EngineTypeOK' /\ RequestsTypeOK'
  BY EngineStands, RequestsStand DEF engine, requests
<1>2. SwitchesTypeOK'
  BY SwitchesStand DEF records, table, engine, history
<1>3. RecordsTypeOK'
  BY DEF RecordsTypeOK, Statuses, Ended, records
<1>4. HistoryTypeOK'
  BY DEF RecordsTypeOK, HistoryTypeOK, history, bounds
<1> QED BY <1>1, <1>2, <1>3, <1>4, MonitorStands DEF table, monitor

-----------------------------------------------------------------------------

LEMMA StepKeeps == IInv /\ [Next]_vars => IInv'
<1> SUFFICES ASSUME IInv, [Next]_vars PROVE IInv'
  OBVIOUS
<1>1. ASSUME NEW t \in Turns, StartRead(t) \/ Start(t) PROVE IInv'
  BY <1>1, StartReadKeeps, StartKeeps
<1>2. ASSUME NEW t \in Turns, Monitor(t) \/ MonitorFails(t) PROVE IInv'
  BY <1>2, HearKeeps, AttachKeeps, FlagsKeeps, TakeKeeps, TimeoutKeeps, RefuseKeeps, StoreKeeps,
     MonitorFailsKeeps
  DEF Monitor
<1>3. ASSUME NEW d \in Ids,
             \/ RegisterElsewhere(d) \/ CancelElsewhere(d)
             \/ \E v \in Answers : Answer(d, v)
      PROVE IInv'
  BY <1>3, ElsewhereKeeps, AnswerKeeps
<1>4. ASSUME Interrupt \/ Evict \/ Engine PROVE IInv'
  BY <1>4, InterruptKeeps, EvictKeeps, EngineKeeps
<1>5. ASSUME Crash \/ BootFails \/ Recovery PROVE IInv'
  BY <1>5, DeathKeeps, RecoveryKeeps
<1>6. ASSUME UNCHANGED vars PROVE IInv'
  <2>1. TypeOK'
    BY <1>6, RecordsStand, EngineStands, RequestsStand, SwitchesStand, HistoryStands, MonitorStands
    DEF IInv, TypeOK, vars, records, table, monitor, engine, requests, history, bounds
  <2> QED BY <1>6, <2>1, MonitorStands DEF IInv, vars, table, monitor
<1> QED BY <1>1, <1>2, <1>3, <1>4, <1>5, <1>6 DEF Next, Recovery

LEMMA InductiveInvariant == Spec => []IInv
BY InitInv, StepKeeps, PTL DEF Spec

(* Whatever the clients, the other threads and the engine do, and whatever *)
(* fails, each variable keeps its type: no decision, event or item of an   *)
(* earlier turn's monitor is in the hands of another (monitor_turn).       *)
THEOREM TypeCorrect == Spec => []TypeOK
BY InductiveInvariant, PTL DEF IInv

-----------------------------------------------------------------------------
(* RanIfAllowed: the permission is there before its answer, the answer     *)
(* before the decision, and the decision before the tool runs.             *)

Granted(d) == \E i \in allowed : IdOf[i] = d

AnswersGranted   == \A i \in Items : reply[i] \in {"allow", "remember"} => i \in allowed
DecisionsGranted == \A k \in 1..Len(decisions) : decisions[k][2] = TRUE => Granted(decisions[k][1])

GInv == AnswersGranted /\ DecisionsGranted /\ RanIfAllowed

(* No two tool calls of the thread have the same id. *)
OwnIds == \A i, j \in Tools : IdOf[i] = IdOf[j] => i = j

(* Where no answer, decision or tool is added, nothing can go wrong. *)
LEMMA GrantsStand ==
  ASSUME GInv, allowed \subseteq allowed', decisions' = decisions,
         \A i \in Items : reply'[i] \in {"allow", "remember"} => reply'[i] = reply[i],
         \A i \in Tools : phase'[i] = "ran" => phase[i] = "ran"
  PROVE  GInv'
BY DEF GInv, AnswersGranted, DecisionsGranted, Granted, RanIfAllowed

LEMMA Grants ==
  ASSUME IInv, GInv, allowed \subseteq allowed', NEW v \in BOOLEAN, on \in Items, Verdict(v),
         v = TRUE => on \in allowed',
         \A i \in Items : reply'[i] \in {"allow", "remember"} => reply'[i] = reply[i],
         phase' = phase
  PROVE  GInv'
<1>1. Len(decisions') = Len(decisions) + 1 /\ Len(decisions) \in Nat
  BY DEF IInv, TypeOK, EngineTypeOK, Verdict
<1>2. \A k \in 1..Len(decisions) : decisions'[k] = decisions[k]
  BY DEF IInv, TypeOK, EngineTypeOK, Verdict
<1>3. decisions'[Len(decisions) + 1] = <<IdOf[on], v>>
  BY DEF IInv, TypeOK, EngineTypeOK, Verdict
<1>4. \A k \in 1..Len(decisions') : k \in 1..Len(decisions) \/ k = Len(decisions) + 1
  BY <1>1
<1>5. DecisionsGranted'
  <2> SUFFICES ASSUME NEW k \in 1..Len(decisions'), decisions'[k][2] = TRUE
               PROVE  \E i \in allowed' : IdOf[i] = decisions'[k][1]
    BY DEF DecisionsGranted, Granted
  <2>1. CASE k \in 1..Len(decisions)
    BY <1>2, <2>1 DEF GInv, DecisionsGranted, Granted
  <2>2. CASE k = Len(decisions) + 1
    <3>1. v = TRUE /\ decisions'[k][1] = IdOf[on]
      BY <1>3, <2>2
    <3> QED BY <3>1
  <2> QED BY <1>4, <2>1, <2>2
<1>6. AnswersGranted' /\ RanIfAllowed'
  BY DEF GInv, AnswersGranted, RanIfAllowed
<1> QED BY <1>5, <1>6 DEF GInv

LEMMA DecideGrants ==
  ASSUME OwnIds, IInv, GInv, NEW i \in Items, Decide(i)
  PROVE  GInv'
<1> USE DEF IInv, TypeOK, Decide
<1> DEFINE d == Head(decisions)
<1>1. /\ Len(decisions) \in Nat \ {0} /\ Len(decisions') = Len(decisions) - 1
      /\ \A k \in 1..Len(decisions') : decisions'[k] = decisions[k + 1]
      /\ d = decisions[1] /\ d \in Ids \X BOOLEAN
  BY DEF EngineTypeOK
<1>2. UNCHANGED <<allowed, reply>>
  BY DEF outside, requests, history
<1>3. DecisionsGranted'
  <2> SUFFICES ASSUME NEW k \in 1..Len(decisions'), decisions'[k][2] = TRUE
               PROVE  \E j \in allowed : IdOf[j] = decisions'[k][1]
    BY <1>2 DEF DecisionsGranted, Granted
  <2>1. k + 1 \in 1..Len(decisions) /\ decisions'[k] = decisions[k + 1]
    BY <1>1
  <2> QED BY <2>1 DEF GInv, DecisionsGranted, Granted
<1>4. RanIfAllowed'
  <2> SUFFICES ASSUME NEW j \in Tools, phase'[j] = "ran" PROVE j \in allowed
    BY <1>2 DEF RanIfAllowed
  <2>1. CASE phase[j] = "ran"
    BY <2>1 DEF GInv, RanIfAllowed
  <2>2. CASE phase[j] # "ran"
    <3>1. j = i /\ IsAbout(d, i) /\ d[2] = TRUE
      BY <1>1, <2>2, ItemsAssumption DEF EngineTypeOK
    <3>2. PICK g \in allowed : IdOf[g] = decisions[1][1]
      BY <1>1, <3>1 DEF GInv, DecisionsGranted, Granted
    <3> QED BY <1>1, <3>1, <3>2 DEF IsAbout, OwnIds, HistoryTypeOK
  <2> QED BY <2>1, <2>2
<1> QED BY <1>2, <1>3, <1>4 DEF GInv, AnswersGranted

LEMMA ReplaceGrants ==
  ASSUME RequestsTypeOK, NEW d \in Ids, NEW new, NEW replies,
         replies \in [Items -> Answers \cup {"none", "open", "dropped"}],
         Replace(d, new, replies)
  PROVE  \A i \in Items : reply'[i] = replies[i] \/ reply'[i] = "dropped"
BY DEF Replace

LEMMA MonitorGrants ==
  ASSUME IInv, GInv, NEW t \in Turns, Monitor(t)
  PROVE  GInv'
<1> USE DEF IInv, TypeOK
<1>1. ASSUME Hear(t) \/ Attach(t) \/ Expire(t) \/ Store(t) PROVE GInv'
  BY <1>1, GrantsStand DEF Hear, Attach, Expire, Store, engine, requests, history
<1>2. ASSUME DropReceiver(t) PROVE GInv'
  BY <1>2, GrantsStand DEF DropReceiver, engine, history, RequestsTypeOK
<1>3. pc[t] \in Asked => on \in Items /\ on \in Tools /\ IdOf[on] \in Ids
  BY ItemsAssumption, MapsAssumption DEF OnTheItem
<1>4. ASSUME Flags(t) PROVE GInv'
  <2>1. on \in Items /\ IdOf[on] \in Ids
    BY <1>3, <1>4 DEF Flags, At, Asked
  <2>2. phase' = phase
    BY <1>4 DEF Flags
  <2>3. CASE active # t \/ approving
    BY <1>4, <2>1, <2>2, <2>3, Grants DEF Flags
  <2>4. CASE active = t /\ ~approving
    <3> DEFINE replies == [reply EXCEPT ![on] = "open"]
    <3>1. replies \in [Items -> Answers \cup {"none", "open", "dropped"}]
      BY DEF RequestsTypeOK
    <3>2. Replace(IdOf[on], on, replies)
      BY <1>4, <2>4 DEF Flags
    <3>3. \A i \in Items : replies[i] = IF i = on THEN "open" ELSE reply[i]
      BY DEF RequestsTypeOK
    <3> HIDE DEF replies
    <3>4. \A i \in Items : reply'[i] = replies[i] \/ reply'[i] = "dropped"
      BY <2>1, <3>1, <3>2, ReplaceGrants
    <3>5. \A i \in Items : reply'[i] \in {"allow", "remember"} => reply'[i] = reply[i]
      BY <3>3, <3>4
    <3> QED BY <1>4, <2>2, <2>4, <3>5, GrantsStand DEF Flags
  <2> QED BY <2>3, <2>4
<1>5. ASSUME Take(t) PROVE GInv'
  <2>1. on \in Items
    BY <1>3, <1>5 DEF Take, At, Asked
  <2>2. (reply[on] # "deny") = TRUE => on \in allowed
    BY <1>5, <2>1 DEF Take, Answers, GInv, AnswersGranted
  <2>3. \A i \in Items : reply'[i] \in {"allow", "remember"} => reply'[i] = reply[i]
    BY <1>5 DEF Take, RequestsTypeOK
  <2>4. phase' = phase /\ allowed' = allowed
    BY <1>5 DEF Take
  <2> QED BY <1>5, <2>1, <2>2, <2>3, <2>4, Grants DEF Take
<1>6. ASSUME Refuse(t) PROVE GInv'
  <2>1. on \in Items /\ IdOf[on] \in Ids
    BY <1>3, <1>6 DEF Refuse, At, Asked
  <2>2. \A i \in Items : reply'[i] \in {"allow", "remember"} => reply'[i] = reply[i]
    <3> DEFINE replies == [reply EXCEPT ![on] = "none"]
    <3>1. replies \in [Items -> Answers \cup {"none", "open", "dropped"}]
      BY DEF RequestsTypeOK
    <3>2. Replace(IdOf[on], None, replies)
      BY <1>6 DEF Refuse
    <3>3. \A i \in Items : replies[i] = IF i = on THEN "none" ELSE reply[i]
      BY DEF RequestsTypeOK
    <3> HIDE DEF replies
    <3>4. \A i \in Items : reply'[i] = replies[i] \/ reply'[i] = "dropped"
      BY <2>1, <3>1, <3>2, ReplaceGrants
    <3> QED BY <3>3, <3>4
  <2>3. phase' = phase /\ allowed' = allowed
    BY <1>6 DEF Refuse, history
  <2> QED BY <1>6, <2>1, <2>2, <2>3, Grants DEF Refuse
<1> QED BY <1>1, <1>2, <1>4, <1>5, <1>6 DEF Monitor

LEMMA EngineGrants ==
  ASSUME OwnIds, IInv, GInv, Engine
  PROVE  GInv'
<1> USE DEF IInv, TypeOK
<1>1. ASSUME NEW i \in Items, Open(i) \/ Finish(i) \/ Ask(i) \/ GiveUp(i) PROVE GInv'
  BY <1>1, GrantsStand, ItemsAssumption
  DEF Open, Finish, Ask, GiveUp, EngineTypeOK, outside, requests, history
<1>2. ASSUME Drop \/ EndTurn PROVE GInv'
  BY <1>2, GrantsStand, ItemsAssumption DEF Drop, EndTurn, outside, requests, history
<1> QED BY <1>1, <1>2, DecideGrants DEF Engine

LEMMA OthersGrant ==
  ASSUME IInv, GInv, NEW d \in Ids,
         RegisterElsewhere(d) \/ CancelElsewhere(d) \/ \E v \in Answers : Answer(d, v)
  PROVE  GInv'
<1> USE DEF IInv, TypeOK
<1>1. ASSUME RegisterElsewhere(d) \/ CancelElsewhere(d) PROVE GInv'
  <2>1. \A i \in Items : reply'[i] = reply[i] \/ reply'[i] = "dropped"
    BY <1>1, ReplaceGrants DEF RegisterElsewhere, CancelElsewhere, RequestsTypeOK
  <2> QED BY <1>1, <2>1, GrantsStand DEF RegisterElsewhere, CancelElsewhere, engine, history
<1>2. ASSUME NEW v \in Answers, Answer(d, v) PROVE GInv'
  BY <1>2, ItemsAssumption
  DEF GInv, AnswersGranted, DecisionsGranted, Granted, RanIfAllowed, Answer, Answers,
      RequestsTypeOK, engine
<1> QED BY <1>1, <1>2

LEMMA OutsideGrants ==
  ASSUME IInv, GInv,
         \/ \E t \in Turns : StartRead(t) \/ Start(t) \/ MonitorFails(t)
         \/ Interrupt \/ Evict \/ Crash \/ BootFails \/ Recovery \/ UNCHANGED vars
  PROVE  GInv'
<1> USE DEF IInv, TypeOK
<1>1. ASSUME NEW t \in Turns, Start(t) \/ MonitorFails(t) PROVE GInv'
  BY <1>1, GrantsStand DEF Start, MonitorFails, engine, requests, history
<1>2. ASSUME Interrupt \/ Evict \/ UNCHANGED vars PROVE GInv'
  BY <1>2, GrantsStand DEF Interrupt, Evict, vars, engine, requests, history
<1>3. ASSUME Recovery PROVE GInv'
  BY <1>3, GrantsStand
  DEF Recovery, Boot, RecoveredTurn, Serve, RecoverTurn, RecoverItem, engine, requests, history
<1>4. ASSUME NEW t \in Turns, StartRead(t) PROVE GInv'
  BY <1>4 DEF StartRead, GInv, AnswersGranted, DecisionsGranted, Granted, RanIfAllowed, requests, history
<1>5. ASSUME Crash \/ BootFails PROVE GInv'
  <2>1. Dies
    BY <1>5 DEF Crash, BootFails
  <2> QED BY <2>1, ItemsAssumption
      DEF Dies, GInv, AnswersGranted, DecisionsGranted, Granted, RanIfAllowed
<1> QED BY <1>1, <1>2, <1>3, <1>4, <1>5

(* A tool that asked runs only if its own request was allowed: whatever is *)
(* left in the channel of decisions, no other call is taken for it, as     *)
(* long as ids do not repeat within the thread (await_tool_approval).      *)
THEOREM AllowedCorrect == ASSUME OwnIds PROVE Spec => []RanIfAllowed
<1>1. Init => GInv
  BY ItemsAssumption DEF Init, GInv, AnswersGranted, DecisionsGranted, RanIfAllowed
<1>2. IInv /\ GInv /\ [Next]_vars => GInv'
  <2> SUFFICES ASSUME IInv, GInv, [Next]_vars PROVE GInv'
    OBVIOUS
  <2> QED BY MonitorGrants, EngineGrants, OthersGrant, OutsideGrants DEF Next, Recovery
<1>3. GInv => RanIfAllowed
  BY DEF GInv
<1> QED BY InductiveInvariant, <1>1, <1>2, <1>3, PTL DEF Spec

-----------------------------------------------------------------------------
(* RememberedIsNotAsked, where a client starts a turn when the last one's  *)
(* monitor is done: no start saves a thread it read before the answer.     *)

OneCall == \A t, u \in Turns : pc[t] \notin {"new", "gone"} /\ pc[u] \notin {"new", "gone"} => t = u

SavedIsRemembered == auto <=> remembered

ReadIsSaved == \A t \in Turns : pc[t] = "start" => (read[t] <=> auto)

ActiveKnows == remembered /\ active # None => approving

MInv == OneCall /\ SavedIsRemembered /\ ReadIsSaved /\ ActiveKnows /\ RememberedIsNotAsked

(* Where no answer is remembered, a call only moves on, and not to wait.   *)
LEMMA MemoryStands ==
  ASSUME IInv, MInv, UNCHANGED <<auto, remembered, approving, read>>,
         active' \in {active, None},
         \A t \in Turns : \/ pc'[t] = pc[t]
                          \/ pc'[t] \notin {"start", "wait"} /\ (pc[t] \notin {"new", "gone"} \/ pc'[t] = "gone")
  PROVE  MInv'
<1>1. OneCall'
  BY DEF MInv, OneCall
<1>2. SavedIsRemembered' /\ ActiveKnows'
  BY DEF MInv, SavedIsRemembered, ActiveKnows
<1>3. ReadIsSaved'
  BY DEF MInv, ReadIsSaved
<1>4. RememberedIsNotAsked'
  BY DEF MInv, RememberedIsNotAsked
<1> QED BY <1>1, <1>2, <1>3, <1>4 DEF MInv

LEMMA StartMemory ==
  ASSUME Polite, IInv, MInv, NEW t \in Turns, StartRead(t) \/ Start(t)
  PROVE  MInv'
<1> USE DEF IInv, TypeOK
<1>1. ASSUME StartRead(t) PROVE MInv'
  <2>1. OneCall' /\ RememberedIsNotAsked'
    BY <1>1 DEF StartRead, MInv, OneCall, RememberedIsNotAsked, MonitorTypeOK, At, Goto, history
  <2>2. SavedIsRemembered' /\ ActiveKnows'
    BY <1>1 DEF StartRead, MInv, SavedIsRemembered, ActiveKnows, records, history
  <2>3. ReadIsSaved'
    BY <1>1 DEF StartRead, MInv, ReadIsSaved, MonitorTypeOK, At, Goto, records
  <2> QED BY <2>1, <2>2, <2>3 DEF MInv
<1>2. ASSUME Start(t) PROVE MInv'
  <2>1. /\ remembered' = remembered /\ read' = read /\ (read[t] <=> auto)
        /\ (auto' <=> auto) /\ pc' \in [Turns -> {"new", "start", "gone"} \cup Monitored]
        /\ (active' = active /\ approving' = approving) \/ approving' = read[t]
    BY <1>2 DEF Start, MInv, ReadIsSaved, MonitorTypeOK, At, Goto, history, Monitored
  <2>2. OneCall' /\ RememberedIsNotAsked' /\ \A u \in Turns : pc'[u] = "start" => pc[u] = "start"
    BY <1>2 DEF Start, MInv, OneCall, RememberedIsNotAsked, MonitorTypeOK, At, Goto, history
  <2>3. SavedIsRemembered' /\ ActiveKnows'
    BY <2>1 DEF MInv, SavedIsRemembered, ActiveKnows
  <2>4. ReadIsSaved'
    BY <2>1, <2>2 DEF MInv, ReadIsSaved
  <2> QED BY <2>2, <2>3, <2>4 DEF MInv
<1> QED BY <1>1, <1>2

LEMMA FlagsMemory ==
  ASSUME IInv, MInv, NEW t \in Turns, Flags(t)
  PROVE  MInv'
<1> USE DEF IInv, TypeOK, Flags
<1>1. UNCHANGED <<auto, remembered, approving, read, active>>
  BY DEF records, table
<1>2. ~remembered \/ Goto(t, "listen")
  BY ItemsAssumption DEF MInv, ActiveKnows
<1>3. Goto(t, "listen") \/ Goto(t, "wait")
  OBVIOUS
<1>4. OneCall' /\ RememberedIsNotAsked' /\ \A u \in Turns : pc'[u] = "start" => pc[u] = "start"
  BY <1>1, <1>2, <1>3 DEF MInv, OneCall, RememberedIsNotAsked, MonitorTypeOK, At, Goto
<1>5. SavedIsRemembered' /\ ActiveKnows'
  BY <1>1 DEF MInv, SavedIsRemembered, ActiveKnows
<1>6. ReadIsSaved'
  BY <1>1, <1>4 DEF MInv, ReadIsSaved
<1> QED BY <1>4, <1>5, <1>6 DEF MInv

LEMMA TakeMemory ==
  ASSUME IInv, MInv, NEW t \in Turns, Take(t)
  PROVE  MInv'
<1> USE DEF IInv, TypeOK, Take
<1>1. ~remembered /\ ~auto
  BY DEF MInv, RememberedIsNotAsked, SavedIsRemembered, At
<1>2. \A u \in Turns : pc'[u] \notin {"start", "wait"}
  BY DEF MInv, OneCall, MonitorTypeOK, At, Goto
<1>3. OneCall'
  BY DEF MInv, OneCall, MonitorTypeOK, At, Goto
<1>4. SavedIsRemembered' /\ ActiveKnows'
  <2>1. CASE Remember /\ auto' = TRUE
    BY <1>1, <2>1 DEF Remember, SavedIsRemembered, ActiveKnows
  <2>2. CASE UNCHANGED <<auto, remembered>>
    BY <1>1, <2>2 DEF SavedIsRemembered, ActiveKnows
  <2> QED BY <2>1, <2>2 DEF Remember
<1> QED BY <1>2, <1>3, <1>4 DEF MInv, ReadIsSaved, RememberedIsNotAsked

LEMMA MonitorMemory ==
  ASSUME IInv, MInv, NEW t \in Turns, Monitor(t) \/ MonitorFails(t)
  PROVE  MInv'
<1> USE DEF IInv, TypeOK
<1> DEFINE Onward == \A u \in Turns :
             \/ pc'[u] = pc[u]
             \/ pc'[u] \notin {"start", "wait"} /\ (pc[u] \notin {"new", "gone"} \/ pc'[u] = "gone")
<1>1. ASSUME Hear(t) \/ Attach(t) \/ Expire(t) \/ DropReceiver(t) \/ Refuse(t) \/ MonitorFails(t)
      PROVE  MInv'
  <2>1. UNCHANGED <<auto, remembered, approving, read, active>>
    BY <1>1 DEF Hear, Attach, Expire, DropReceiver, Refuse, MonitorFails, records, table, history
  <2>2. Onward
    BY <1>1
    DEF Hear, Attach, Expire, DropReceiver, Refuse, MonitorFails, MonitorTypeOK, At, Goto
  <2> QED BY <2>1, <2>2, MemoryStands
<1>2. ASSUME Store(t) PROVE MInv'
  <2>1. OneCall' /\ RememberedIsNotAsked' /\ \A u \in Turns : pc'[u] # "start"
    BY <1>2 DEF Store, MInv, OneCall, RememberedIsNotAsked, MonitorTypeOK, At, Goto, history
  <2>2. UNCHANGED <<auto, remembered>> /\ (active' = None \/ UNCHANGED <<active, approving>>)
    BY <1>2 DEF Store, history
  <2> QED BY <2>1, <2>2 DEF MInv, SavedIsRemembered, ActiveKnows, ReadIsSaved
<1> QED BY <1>1, <1>2, FlagsMemory, TakeMemory DEF Monitor

LEMMA OtherMemory ==
  ASSUME IInv, MInv,
         \/ Interrupt \/ Engine \/ Recovery \/ Evict \/ Crash \/ BootFails \/ UNCHANGED vars
         \/ \E d \in Ids : RegisterElsewhere(d) \/ CancelElsewhere(d) \/ \E v \in Answers : Answer(d, v)
  PROVE  MInv'
<1>1. ASSUME UNCHANGED <<auto, remembered, approving, read, active, pc>> PROVE MInv'
  BY <1>1, MemoryStands
<1>2. ASSUME Engine PROVE MInv'
  <2>1. UNCHANGED outside
    BY <1>2 DEF Engine, Open, Finish, Ask, Decide, GiveUp, Drop, EndTurn
  <2> QED BY <1>1, <2>1 DEF outside, records, table, monitor, history
<1>3. ASSUME Recovery PROVE MInv'
  BY <1>1, <1>3
  DEF Recovery, Boot, RecoveredTurn, Serve, RecoverTurn, RecoverItem, records, table, monitor, history
<1>4. ASSUME Interrupt \/ UNCHANGED vars PROVE MInv'
  BY <1>1, <1>4 DEF Interrupt, vars, records, table, monitor, history
<1>5. ASSUME NEW d \in Ids, NEW v \in Answers,
             RegisterElsewhere(d) \/ CancelElsewhere(d) \/ Answer(d, v)
      PROVE  MInv'
  BY <1>1, <1>5 DEF RegisterElsewhere, CancelElsewhere, Answer, records, table, monitor, history
<1>6. ASSUME Evict PROVE MInv'
  BY <1>6 DEF Evict, MInv, OneCall, SavedIsRemembered, ReadIsSaved, ActiveKnows,
     RememberedIsNotAsked, records, monitor, history
<1>7. ASSUME Crash \/ BootFails PROVE MInv'
  <2>1. Dies
    BY <1>7 DEF Crash, BootFails
  <2>2. \A u \in Turns : pc'[u] \in {"new", "gone"}
    BY <2>1 DEF Dies
  <2> QED BY <2>1, <2>2 DEF Dies, MInv, OneCall, SavedIsRemembered, ReadIsSaved, ActiveKnows,
      RememberedIsNotAsked, records
<1>8. "deny" \in Answers
  BY DEF Answers
<1> QED BY <1>2, <1>3, <1>4, <1>5, <1>6, <1>7, <1>8

(* A client that had its answer remembered is not asked again, neither in  *)
(* this turn nor in a later one nor after a restart, provided it starts a  *)
(* turn when the last one is over (remember_thread_auto_approve against    *)
(* the thread that start_turn saves).                                      *)
THEOREM RememberedCorrect == ASSUME Polite PROVE Spec => []RememberedIsNotAsked
<1>1. Init => MInv
  BY DEF Init, MInv, OneCall, SavedIsRemembered, ReadIsSaved, ActiveKnows, RememberedIsNotAsked
<1>2. IInv /\ MInv /\ [Next]_vars => MInv'
  <2> SUFFICES ASSUME IInv, MInv, [Next]_vars PROVE MInv'
    OBVIOUS
  <2> QED BY StartMemory, MonitorMemory, OtherMemory DEF Next, Recovery
<1>3. MInv => RememberedIsNotAsked
  BY DEF MInv
<1> QED BY InductiveInvariant, <1>1, <1>2, <1>3, PTL DEF Spec

-----------------------------------------------------------------------------
(* ItemsEndWithTheirTurn, whoever starts turns and whatever the ids.       *)

(* What stands at a place of a channel of events. *)
Stands(q, k, what, i) == k \in 1..Len(q) /\ q[k].what = what /\ q[k].of = i

Says(k, what, i) == Stands(events, k, what, i)
Followed(i) == pc[TurnOf[i]] \in Monitored
InHand(i) == item[i] = "InProgress" /\ phase[i] # "dropped"

(* Where no turn is active and no engine was evicted, nothing is under way,*)
(* nor is it while the process is not up.                                  *)
QuietWhenIdle ==
  (active = None /\ ~evicted) \/ process # "up" =>
    busy = None /\ events = <<>> /\ \A t \in Turns : pc[t] \notin Monitored

(* The engine works for the monitored turn, which is in progress; a turn   *)
(* that was not started has nothing.                                       *)
TurnsInOrder ==
  /\ process # "up" => \A t \in Turns : pc[t] \in {"new", "gone"}
  /\ \A t \in Turns :
       /\ pc[t] \in Monitored => turn[t] = "InProgress" /\ busy \in {t, None}
       /\ pc[t] \in {"new", "start"} => turn[t] = "absent" /\ busy # t
       /\ turn[t] = "absent" => listed[t] = {}
       /\ pc[t] = "store" => busy = None /\ events = <<>>

ItemsInOrder ==
  \A i \in Items :
    /\ pc[TurnOf[i]] \in {"new", "start"} => phase[i] = "new"
    /\ phase[i] = "new" => item[i] = "absent"
    /\ phase[i] \in {"open", "asking"} => busy = TurnOf[i]
    /\ phase[i] = "asking" => i \in Tools

MonitorInOrder ==
  /\ \A t \in Turns : /\ pc[t] = "attach" => TurnOf[on] = t /\ item[on] # "absent"
                      /\ pc[t] = "store" => message = None
  /\ message # None => item[message] # "absent"

(* The end of the turn is the last event; an item is started in the        *)
(* monitored turn, once, and before it is done.                            *)
EndComesLast ==
  \A k \in Nat : \A status \in Ended : Says(k, status, None) => busy = None /\ k = Len(events)

StartsInTurn ==
  \A i \in Items : \A k \in Nat : Says(k, "start", i) =>
    \A t \in Turns : pc[t] \in Monitored => TurnOf[i] = t

StartsOnce ==
  \A i \in Items : \A k \in Nat : Says(k, "start", i) =>
    /\ item[i] = "absent" /\ phase[i] # "new"
    /\ \A j \in Nat : Says(j, "start", i) => j = k

DoneLater ==
  \A i \in Items : \A k \in Nat : Says(k, "done", i) =>
    /\ phase[i] \in {"ran", "done"}
    /\ \A j \in Nat : Says(j, "start", i) => j < k

(* An item that is over for the engine is over in its record, or will be.  *)
DoneIsTold ==
  \A i \in Items : Followed(i) =>
    /\ phase[i] # "new" => item[i] # "absent" \/ \E k \in Nat : Says(k, "start", i)
    /\ phase[i] \in {"ran", "done"} =>
         item[i] \in Ended \/ (i \notin Tools /\ busy = None) \/ \E k \in Nat : Says(k, "done", i)

(* The message in progress is the current one, or about to be.             *)
OneMessage ==
  \A g \in Items \ Tools : Followed(g) /\ InHand(g) =>
    g = IF pc[TurnOf[g]] = "attach" THEN Current ELSE message

(* A message is done or dropped when another one starts.                   *)
MessagesInTurn ==
  \A g, n \in Items \ Tools : \A k \in Nat :
    /\ Followed(g) /\ Says(k, "start", n) /\ phase[g] # "dropped"
    /\ item[g] = "InProgress" \/ \E j \in Nat : j < k /\ Says(j, "start", g)
    => \E l \in Nat : l < k /\ Says(l, "done", g)

(* What an ended turn lists.                                               *)
ListedIsOver ==
  /\ mending # None => process = "recovering" /\ mending \in Turns /\ turn[mending] \in Ended
  /\ \A t \in recovered : turn[t] \in Ended
  /\ \A t \in Turns : \A i \in listed[t] :
       /\ TurnOf[i] = t
       /\ turn[t] \in Ended /\ item[i] = "InProgress" =>
            t \in torn \/ t = mending \/ (phase[i] = "dropped" /\ t \notin recovered)

Channel == EndComesLast /\ StartsInTurn /\ StartsOnce /\ DoneLater
LInv == /\ QuietWhenIdle /\ TurnsInOrder /\ ItemsInOrder /\ MonitorInOrder
        /\ Channel /\ DoneIsTold /\ OneMessage /\ MessagesInTurn /\ ListedIsOver

(* A place is taken by one event. *)
LEMMA StandsAlone ==
  ASSUME NEW q \in Seq(Event), NEW k, NEW w, NEW i, Stands(q, k, w, i)
  PROVE  /\ Len(q) \in Nat /\ k \in Nat /\ 1 <= k /\ k <= Len(q) /\ q # <<>>
         /\ \A v, j : Stands(q, k, v, j) => v = w /\ j = i
BY DEF Stands

(* What is told stands behind what was told before. *)
LEMMA StandsTold ==
  ASSUME NEW q \in Seq(Event), NEW what, NEW of, [what |-> what, of |-> of] \in Event
  PROVE  /\ Len(Append(q, [what |-> what, of |-> of])) = Len(q) + 1
         /\ \A k, w, i : Stands(Append(q, [what |-> what, of |-> of]), k, w, i) <=>
                Stands(q, k, w, i) \/ (k = Len(q) + 1 /\ w = what /\ i = of)
<1> DEFINE e == [what |-> what, of |-> of]
           r == Append(q, e)
<1>1. Len(q) \in Nat /\ Len(r) = Len(q) + 1 /\ r[Len(q) + 1] = e
  OBVIOUS
<1>2. \A k \in 1..Len(q) : r[k] = q[k]
  OBVIOUS
<1>3. \A k : k \in 1..Len(r) <=> k \in 1..Len(q) \/ k = Len(q) + 1
  BY <1>1
<1>4. Len(q) + 1 \notin 1..Len(q) /\ e.what = what /\ e.of = of
  BY <1>1
<1> HIDE DEF r, e
<1>5. \A k, w, i : Stands(r, k, w, i) <=> Stands(q, k, w, i) \/ (k = Len(q) + 1 /\ w = what /\ i = of)
  BY <1>1, <1>2, <1>3, <1>4 DEF Stands
<1> QED BY <1>1, <1>5 DEF r, e

(* What is heard was the first; the others move up. *)
LEMMA StandsHeard ==
  ASSUME NEW q \in Seq(Event), q # <<>>
  PROVE  /\ \A k \in Nat : \A w, i : Stands(Tail(q), k, w, i) <=> k # 0 /\ Stands(q, k + 1, w, i)
         /\ \A w, i : Stands(q, 1, w, i) <=> w = Head(q).what /\ i = Head(q).of
         /\ Len(Tail(q)) = Len(q) - 1
         /\ Head(q) \in Event
<1>1. Len(q) \in Nat \ {0} /\ Len(Tail(q)) = Len(q) - 1 /\ Head(q) = q[1] /\ Head(q) \in Event
  OBVIOUS
<1>2. \A k \in 1..Len(Tail(q)) : Tail(q)[k] = q[k + 1]
  OBVIOUS
<1>3. \A k \in Nat : k \in 1..Len(Tail(q)) <=> k # 0 /\ k + 1 \in 1..Len(q)
  BY <1>1
<1>4. \A k \in Nat : \A w, i : Stands(Tail(q), k, w, i) <=> k # 0 /\ Stands(q, k + 1, w, i)
  BY <1>2, <1>3 DEF Stands
<1>5. \A w, i : Stands(q, 1, w, i) <=> w = Head(q).what /\ i = Head(q).of
  BY <1>1 DEF Stands
<1> QED BY <1>1, <1>4, <1>5

(* In an empty channel everything is in order. *)
LEMMA EmptyChannel ==
  ASSUME events' = <<>>
  PROVE  Channel' /\ MessagesInTurn' /\ \A k, w, i : ~Says(k, w, i)'
<1>1. \A k, w, i : ~Stands(<<>>, k, w, i)
  BY DEF Stands
<1>2. \A k, w, i : ~Says(k, w, i)'
  BY <1>1 DEF Says
<1> QED BY <1>1, <1>2
  DEF Channel, EndComesLast, StartsInTurn, StartsOnce, DoneLater, MessagesInTurn, Says

-----------------------------------------------------------------------------
(* A step that only moves a monitor on, or ends it, and changes neither a  *)
(* record nor what is said.                                                *)
Aside == <<process, mending, turn, listed, item, message, busy, phase, events, recovered, torn>>

MovesOn(t) ==
  \/ pc'[t] = pc[t]
  \/ pc'[t] = "gone" /\ pc[t] # "new"
  \/ {pc[t], pc'[t]} \subseteq Monitored \ {"attach", "store"}

LEMMA AsideInOrder ==
  ASSUME IInv, LInv, UNCHANGED Aside, \A t \in Turns : MovesOn(t),
         \A t \in Turns : pc'[t] = "attach" => on' = on,
         active' = None /\ ~evicted' => active = None /\ ~evicted
  PROVE  LInv'
<1> USE DEF LInv, Aside
<1>1. \A t \in Turns : /\ pc'[t] \in Monitored => pc[t] \in Monitored
                       /\ pc'[t] \in {"new", "start"} => pc[t] = pc'[t]
                       /\ pc'[t] \in {"attach", "store"} => pc[t] = pc'[t]
                       /\ pc[t] = "attach" => pc'[t] \in {"attach", "gone"}
                       /\ pc[t] \in {"new", "gone"} => pc'[t] = pc[t]
  BY DEF MovesOn, Monitored
<1>2. \A i \in Items : TurnOf[i] \in Turns
  BY MapsAssumption
<1>3. QuietWhenIdle'
  BY <1>1 DEF QuietWhenIdle
<1>4. TurnsInOrder'
  BY <1>1 DEF TurnsInOrder
<1>5. ItemsInOrder'
  BY <1>1, <1>2 DEF ItemsInOrder
<1>6. MonitorInOrder'
  BY <1>1 DEF MonitorInOrder
<1>7. EndComesLast' /\ StartsOnce' /\ DoneLater'
  BY DEF Channel, EndComesLast, StartsOnce, DoneLater, Says
<1>8. StartsInTurn'
  BY <1>1 DEF Channel, StartsInTurn, Says
<1>9. DoneIsTold'
  BY <1>1, <1>2 DEF DoneIsTold, Followed, Says
<1>10. OneMessage'
  <2> SUFFICES ASSUME NEW g \in Items \ Tools, Followed(g)', InHand(g)'
               PROVE  g = IF pc'[TurnOf[g]] = "attach" THEN Current' ELSE message'
    BY DEF OneMessage
  <2>1. Followed(g) /\ InHand(g)
    BY <1>1, <1>2 DEF Followed, InHand
  <2>2. (pc[TurnOf[g]] = "attach") = (pc'[TurnOf[g]] = "attach")
    BY <1>1, <1>2 DEF Followed, Monitored
  <2>3. CASE pc'[TurnOf[g]] = "attach"
    <3>1. Current' = Current
      BY <1>2, <2>3 DEF Current
    <3> QED BY <2>1, <2>2, <2>3, <3>1 DEF OneMessage
  <2> QED BY <2>1, <2>2, <2>3 DEF OneMessage
<1>11. MessagesInTurn'
  BY <1>1, <1>2 DEF MessagesInTurn, Followed, Says
<1>12. ListedIsOver'
  BY DEF ListedIsOver
<1> QED BY <1>3, <1>4, <1>5, <1>6, <1>7, <1>8, <1>9, <1>10, <1>11, <1>12 DEF Channel

(* The steps of that kind. *)
LEMMA OthersInOrder ==
  ASSUME IInv, LInv,
         \/ Interrupt \/ Evict \/ UNCHANGED vars
         \/ \E d \in Ids : RegisterElsewhere(d) \/ CancelElsewhere(d) \/ \E v \in Answers : Answer(d, v)
  PROVE  LInv'
<1>1. ASSUME UNCHANGED <<Aside, pc, on>>, active' = None /\ ~evicted' => active = None /\ ~evicted
      PROVE  LInv'
  BY <1>1, AsideInOrder DEF MovesOn
<1>2. ASSUME Interrupt \/ Evict \/ UNCHANGED vars PROVE LInv'
  BY <1>1, <1>2
  DEF Interrupt, Evict, vars, Aside, records, table, monitor, engine, history
<1>3. ASSUME NEW d \in Ids, NEW v \in Answers,
             RegisterElsewhere(d) \/ CancelElsewhere(d) \/ Answer(d, v)
      PROVE  LInv'
  BY <1>1, <1>3
  DEF RegisterElsewhere, CancelElsewhere, Answer, Aside, records, table, monitor, engine, history
<1>4. "deny" \in Answers
  BY DEF Answers
<1> QED BY <1>2, <1>3, <1>4

LEMMA WaitingInOrder ==
  ASSUME IInv, LInv, NEW t \in Turns,
         Flags(t) \/ Take(t) \/ Expire(t) \/ DropReceiver(t) \/ Refuse(t) \/ MonitorFails(t)
  PROVE  LInv'
<1>1. pc \in [Turns -> {"new", "start", "gone"} \cup Monitored]
  BY DEF IInv, TypeOK, MonitorTypeOK
<1>2. UNCHANGED <<Aside, active, evicted>>
  BY DEF Flags, Take, Expire, DropReceiver, Refuse, MonitorFails, Aside, records, table, monitor,
     engine, history
<1>3. /\ \A u \in Turns \ {t} : pc'[u] = pc[u]
      /\ pc[t] \in Monitored
      /\ MovesOn(t)
  BY <1>1 DEF Flags, Take, Expire, DropReceiver, Refuse, MonitorFails, At, Goto, MovesOn, Monitored
<1>4. \A u \in Turns : pc'[u] = "attach" => u # t
  BY <1>1 DEF Flags, Take, Expire, DropReceiver, Refuse, MonitorFails, At, Goto
<1>5. \A u \in Turns : pc'[u] # "attach"
  BY <1>3, <1>4 DEF IInv, OneMonitor, Monitored
<1>6. \A u \in Turns : MovesOn(u)
  BY <1>3 DEF MovesOn
<1> QED BY <1>2, <1>5, <1>6, AsideInOrder

-----------------------------------------------------------------------------
(* The engine: an item that is done or dropped stays so, and none goes     *)
(* back to new.                                                            *)

Advances ==
  \A i \in Items : \/ phase'[i] = phase[i]
                   \/ /\ phase[i] \in {"new", "open", "asking"} /\ busy = TurnOf[i]
                      /\ phase'[i] # "new" /\ (phase'[i] \in {"open", "asking"} => busy' = busy)
                      /\ (phase'[i] = "asking" => i \in Tools)

LEMMA EngineInOrder ==
  ASSUME IInv, LInv, UNCHANGED outside, process = "up", busy # None, busy' \in {busy, None}, Advances,
         busy' = None => \A i \in Items : phase'[i] \notin {"open", "asking"}
  PROVE  /\ QuietWhenIdle' /\ TurnsInOrder' /\ ItemsInOrder' /\ MonitorInOrder'
         /\ OneMessage' /\ ListedIsOver'
<1> USE DEF LInv, outside, records, table, monitor, history
<1>1. \A i \in Items : TurnOf[i] \in Turns
  BY MapsAssumption
<1>2. QuietWhenIdle'
  BY DEF QuietWhenIdle
<1>3. TurnsInOrder'
  BY ItemsAssumption DEF TurnsInOrder
<1>4. ItemsInOrder'
  BY <1>1 DEF ItemsInOrder, TurnsInOrder, Advances
<1>5. MonitorInOrder'
  BY DEF MonitorInOrder
<1>6. \A i \in Items : phase[i] = "dropped" => phase'[i] = "dropped"
  BY DEF Advances
<1>7. OneMessage'
  BY <1>6 DEF OneMessage, Followed, InHand, Current
<1>8. listed \in [Turns -> SUBSET Items]
  BY DEF IInv, TypeOK, RecordsTypeOK
<1>9. ListedIsOver'
  BY <1>6, <1>8 DEF ListedIsOver
<1> QED BY <1>2, <1>3, <1>4, <1>5, <1>7, <1>9

(* Told that an item is done, or that a tool asks. *)
LEMMA TellsOfOne ==
  ASSUME IInv, LInv, UNCHANGED <<outside, busy>>, process = "up", NEW i \in Items,
         phase[i] \in {"open", "asking"}, NEW what \in {"done", "ask"}, Tell(what, i),
         what = "ask" => i \in Tools,
         NEW p \in {"asking", "ran", "done"}, phase' = [phase EXCEPT ![i] = p],
         p = "asking" <=> what = "ask"
  PROVE  LInv'
<1> USE DEF LInv
<1>1. phase \in [Items -> Phases] /\ events \in Seq(Event) /\ [what |-> what, of |-> i] \in Event
  BY DEF IInv, TypeOK, EngineTypeOK, Event
<1>2. busy = TurnOf[i] /\ busy # None
  BY ItemsAssumption, MapsAssumption DEF ItemsInOrder
<1>3. Advances
  BY <1>1, <1>2 DEF Advances
<1>4. /\ QuietWhenIdle' /\ TurnsInOrder' /\ ItemsInOrder' /\ MonitorInOrder'
      /\ OneMessage' /\ ListedIsOver'
  BY <1>2, <1>3, EngineInOrder
<1>5. \A k, w, j : Stands(events', k, w, j) <=>
        Stands(events, k, w, j) \/ (k = Len(events) + 1 /\ w = what /\ j = i)
  BY <1>1, StandsTold DEF Tell
<1>6. \A j \in Items : /\ phase[j] = "new" <=> phase'[j] = "new"
                       /\ phase[j] \in {"ran", "done"} => phase'[j] = phase[j]
                       /\ phase[j] = "dropped" <=> phase'[j] = "dropped"
                       /\ phase'[j] \in {"ran", "done"} => phase[j] = phase'[j] \/ (j = i /\ what = "done")
  BY <1>1
<1>7. \A k \in Nat : \A w, j : Stands(events, k, w, j) => k < Len(events) + 1
  BY <1>1, StandsAlone
<1>8. Len(events) + 1 \in Nat /\ what \notin Ended \cup {"start"}
  BY <1>1 DEF Ended
<1>9. EndComesLast' /\ StartsInTurn' /\ StartsOnce'
  <2>1. EndComesLast'
    BY <1>2, <1>5, <1>8 DEF Channel, EndComesLast, Says
  <2>2. StartsInTurn'
    BY <1>5, <1>8 DEF Channel, StartsInTurn, Says, outside, monitor
  <2>3. StartsOnce'
    BY <1>5, <1>6, <1>8 DEF Channel, StartsOnce, Says, outside, records
  <2> QED BY <2>1, <2>2, <2>3
<1>10. DoneLater'
  <2> SUFFICES ASSUME NEW j \in Items, NEW k \in Nat, Stands(events', k, "done", j)
               PROVE  /\ phase'[j] \in {"ran", "done"}
                      /\ \A l \in Nat : Stands(events', l, "start", j) => l < k
    BY DEF DoneLater, Says
  <2>1. \A l \in Nat : Stands(events', l, "start", j) => Stands(events, l, "start", j)
    BY <1>5, <1>8
  <2>2. CASE Stands(events, k, "done", j)
    BY <1>6, <2>1, <2>2 DEF Channel, DoneLater, Says
  <2>3. CASE k = Len(events) + 1 /\ what = "done" /\ j = i
    BY <1>1, <1>7, <2>1, <2>3
  <2> QED BY <1>5, <2>2, <2>3
<1>11. DoneIsTold'
  <2> SUFFICES ASSUME NEW j \in Items, Followed(j)
               PROVE  /\ phase'[j] # "new" => item[j] # "absent" \/ \E k \in Nat : Stands(events', k, "start", j)
                      /\ phase'[j] \in {"ran", "done"} =>
                           \/ item[j] \in Ended \/ (j \notin Tools /\ busy = None)
                           \/ \E k \in Nat : Stands(events', k, "done", j)
    BY DEF DoneIsTold, Followed, Says, outside, records, monitor
  <2> QED BY <1>5, <1>6, <1>8 DEF DoneIsTold, Says
<1>12. MessagesInTurn'
  <2> SUFFICES ASSUME NEW g \in Items \ Tools, NEW n \in Items \ Tools, NEW k \in Nat,
                      Followed(g), Stands(events', k, "start", n), phase'[g] # "dropped",
                      item[g] = "InProgress" \/ \E j \in Nat : j < k /\ Stands(events', j, "start", g)
               PROVE  \E l \in Nat : l < k /\ Stands(events', l, "done", g)
    BY DEF MessagesInTurn, Followed, Says, outside, records, monitor
  <2>1. Stands(events, k, "start", n) /\ phase[g] # "dropped"
    BY <1>5, <1>6, <1>8
  <2>2. item[g] = "InProgress" \/ \E j \in Nat : j < k /\ Stands(events, j, "start", g)
    BY <1>5, <1>8
  <2>3. PICK l \in Nat : l < k /\ Stands(events, l, "done", g)
    BY <2>1, <2>2 DEF MessagesInTurn, Says
  <2> QED BY <1>5, <2>3
<1> QED BY <1>4, <1>9, <1>10, <1>11, <1>12 DEF Channel

LEMMA OpenInOrder ==
  ASSUME IInv, LInv, NEW i \in Items, Open(i)
  PROVE  LInv'
<1> USE DEF LInv, Open, Working
<1>1. phase \in [Items -> Phases] /\ events \in Seq(Event) /\ [what |-> "start", of |-> i] \in Event
  BY DEF IInv, TypeOK, EngineTypeOK, Event
<1>2. \A j \in Items : \/ phase'[j] = phase[j]
                       \/ j = i /\ phase'[j] = "open"
                       \/ phase[j] = "open" /\ phase'[j] = "dropped"
  BY DEF OpenAmong
<1>3. phase[i] = "new" /\ phase'[i] = "open" /\ item[i] = "absent"
  BY DEF ItemsInOrder
<1>4. i \notin Tools => \A j \in Items \ Tools : phase'[j] = "open" => j = i
  BY DEF OpenAmong
<1>5. Advances
  BY <1>2, <1>3 DEF Advances, ItemsInOrder
<1>6. /\ QuietWhenIdle' /\ TurnsInOrder' /\ ItemsInOrder' /\ MonitorInOrder'
      /\ OneMessage' /\ ListedIsOver'
  BY <1>5, EngineInOrder
<1>7. \A k, w, j : Stands(events', k, w, j) <=>
        Stands(events, k, w, j) \/ (k = Len(events) + 1 /\ w = "start" /\ j = i)
  BY <1>1, StandsTold DEF Tell
<1>8. \A k \in Nat : \A w, j : Stands(events, k, w, j) => k < Len(events) + 1
  BY <1>1, StandsAlone
<1>9. Len(events) + 1 \in Nat /\ "start" \notin Ended
  BY <1>1 DEF Ended
<1>10. \A k \in Nat : ~Stands(events, k, "start", i) /\ ~Stands(events, k, "done", i)
  BY <1>3 DEF Channel, StartsOnce, DoneLater, Says
<1>11. EndComesLast'
  BY <1>7, <1>9 DEF Channel, EndComesLast, Says
<1>12. StartsInTurn'
  <2>1. \A t \in Turns : pc[t] \in Monitored => TurnOf[i] = t
    BY DEF TurnsInOrder
  <2> QED BY <1>7, <2>1 DEF Channel, StartsInTurn, Says, outside, monitor
<1>13. StartsOnce'
  <2> SUFFICES ASSUME NEW j \in Items, NEW k \in Nat, Stands(events', k, "start", j)
               PROVE  /\ item[j] = "absent" /\ phase'[j] # "new"
                      /\ \A l \in Nat : Stands(events', l, "start", j) => l = k
    BY DEF StartsOnce, Says, outside, records
  <2>1. CASE j = i
    BY <1>3, <1>7, <1>10, <2>1
  <2>2. CASE j # i
    BY <1>2, <1>7, <2>2 DEF Channel, StartsOnce, Says
  <2> QED BY <2>1, <2>2
<1>14. DoneLater'
  <2> SUFFICES ASSUME NEW j \in Items, NEW k \in Nat, Stands(events', k, "done", j)
               PROVE  /\ phase'[j] \in {"ran", "done"}
                      /\ \A l \in Nat : Stands(events', l, "start", j) => l < k
    BY DEF DoneLater, Says
  <2>1. Stands(events, k, "done", j) /\ j # i
    BY <1>7, <1>10
  <2> QED BY <1>2, <1>7, <2>1 DEF Channel, DoneLater, Says
<1>15. DoneIsTold'
  <2> SUFFICES ASSUME NEW j \in Items, Followed(j)
               PROVE  /\ phase'[j] # "new" => item[j] # "absent" \/ \E k \in Nat : Stands(events', k, "start", j)
                      /\ phase'[j] \in {"ran", "done"} =>
                           \/ item[j] \in Ended \/ (j \notin Tools /\ busy = None)
                           \/ \E k \in Nat : Stands(events', k, "done", j)
    BY DEF DoneIsTold, Followed, Says, outside, records, monitor
  <2> QED BY <1>2, <1>7, <1>9 DEF DoneIsTold, Says
<1>16. MessagesInTurn'
  <2> SUFFICES ASSUME NEW g \in Items \ Tools, NEW n \in Items \ Tools, NEW k \in Nat,
                      Followed(g), Stands(events', k, "start", n), phase'[g] # "dropped",
                      item[g] = "InProgress" \/ \E j \in Nat : j < k /\ Stands(events', j, "start", g)
               PROVE  \E l \in Nat : l < k /\ Stands(events', l, "done", g)
    BY DEF MessagesInTurn, Followed, Says, outside, records, monitor
  <2>1. CASE Stands(events, k, "start", n)
    <3>1. k < Len(events) + 1 /\ phase[g] # "dropped"
      BY <1>2, <1>3, <1>8, <2>1
    <3>2. item[g] = "InProgress" \/ \E j \in Nat : j < k /\ Stands(events, j, "start", g)
      BY <1>1, <1>7, <3>1
    <3>3. PICK l \in Nat : l < k /\ Stands(events, l, "done", g)
      BY <2>1, <3>1, <3>2 DEF MessagesInTurn, Says
    <3> QED BY <1>7, <3>3
  <2>2. CASE k = Len(events) + 1 /\ n = i
    <3>1. item[g] = "InProgress" \/ \E j \in Nat : Stands(events, j, "start", g)
      BY <1>1, <1>7, <2>2
    <3>2. g # i /\ phase[g] # "new"
      BY <1>3, <1>10, <3>1 DEF Channel, StartsOnce, ItemsInOrder, Says
    <3>3. phase[g] \in {"ran", "done"}
      BY <1>1, <1>2, <1>4, <2>2, <3>2 DEF ItemsInOrder, Phases
    <3>4. item[g] \notin Ended
      BY <3>1 DEF Channel, StartsOnce, Says, Ended
    <3>5. PICK l \in Nat : Stands(events, l, "done", g)
      BY <3>3, <3>4 DEF DoneIsTold, Says
    <3> QED BY <1>7, <1>8, <2>2, <3>5
  <2> QED BY <1>7, <2>1, <2>2
<1> QED BY <1>6, <1>11, <1>12, <1>13, <1>14, <1>15, <1>16 DEF Channel

LEMMA DropInOrder ==
  ASSUME IInv, LInv, Drop
  PROVE  LInv'
<1> USE DEF LInv, Drop, Working
<1>1. phase \in [Items -> Phases]
  BY DEF IInv, TypeOK, EngineTypeOK
<1>2. \A i \in Items : \/ phase'[i] = phase[i]
                       \/ i \in Tools /\ phase[i] = "open" /\ phase'[i] = "dropped"
  BY DEF OpenAmong
<1>3. Advances
  BY <1>2 DEF Advances, ItemsInOrder
<1>4. /\ QuietWhenIdle' /\ TurnsInOrder' /\ ItemsInOrder' /\ MonitorInOrder'
      /\ OneMessage' /\ ListedIsOver'
  BY <1>3, EngineInOrder
<1>5. EndComesLast' /\ StartsInTurn'
  BY DEF Channel, EndComesLast, StartsInTurn, Says, outside, monitor
<1>6. StartsOnce' /\ DoneLater'
  BY <1>2 DEF Channel, StartsOnce, DoneLater, Says, outside, records
<1>7. DoneIsTold'
  BY <1>2 DEF DoneIsTold, Followed, Says, outside, records, monitor
<1>8. MessagesInTurn'
  BY <1>2 DEF MessagesInTurn, Followed, Says, outside, records, monitor
<1> QED BY <1>4, <1>5, <1>6, <1>7, <1>8 DEF Channel

LEMMA EndTurnInOrder ==
  ASSUME IInv, LInv, EndTurn
  PROVE  LInv'
<1> USE DEF LInv, EndTurn, Working
<1>1. PICK status \in Ended : Tell(status, None)
  OBVIOUS
<1>2. phase \in [Items -> Phases] /\ events \in Seq(Event) /\ [what |-> status, of |-> None] \in Event
  BY DEF IInv, TypeOK, EngineTypeOK, Event
<1>3. \A i \in Items : /\ \/ phase'[i] = phase[i]
                          \/ i \notin Tools /\ phase[i] = "open" /\ phase'[i] = "done"
                       /\ phase'[i] \notin {"open", "asking"}
  BY <1>2 DEF OpenAmong, ItemsInOrder
<1>4. Advances
  BY <1>3 DEF Advances, ItemsInOrder
<1>5. /\ QuietWhenIdle' /\ TurnsInOrder' /\ ItemsInOrder' /\ MonitorInOrder'
      /\ OneMessage' /\ ListedIsOver'
  BY <1>3, <1>4, EngineInOrder
<1>6. /\ Len(events') = Len(events) + 1
      /\ \A k, w, j : Stands(events', k, w, j) <=>
           Stands(events, k, w, j) \/ (k = Len(events) + 1 /\ w = status /\ j = None)
  BY <1>1, <1>2, StandsTold DEF Tell
<1>7. status \notin {"start", "done"}
  BY DEF Ended
<1>8. EndComesLast'
  BY <1>6 DEF Channel, EndComesLast, Says
<1>9. \A k, j : /\ Stands(events', k, "start", j) <=> Stands(events, k, "start", j)
                /\ Stands(events', k, "done", j) <=> Stands(events, k, "done", j)
  BY <1>6, <1>7
<1>10. StartsInTurn'
  BY <1>9 DEF Channel, StartsInTurn, Says, outside, monitor
<1>11. StartsOnce' /\ DoneLater'
  BY <1>3, <1>9 DEF Channel, StartsOnce, DoneLater, Says, outside, records
<1>12. DoneIsTold'
  BY <1>3, <1>9 DEF DoneIsTold, Followed, Says, outside, records, monitor
<1>13. MessagesInTurn'
  BY <1>3, <1>9 DEF MessagesInTurn, Followed, Says, outside, records, monitor
<1> QED BY <1>5, <1>8, <1>10, <1>11, <1>12, <1>13 DEF Channel

LEMMA EngineKeepsOrder ==
  ASSUME IInv, LInv, Engine
  PROVE  LInv'
<1>1. ASSUME NEW i \in Items, Finish(i) PROVE LInv'
  BY <1>1, TellsOfOne DEF Finish, Working
<1>2. ASSUME NEW i \in Items, Ask(i) PROVE LInv'
  BY <1>2, TellsOfOne DEF Ask, Working
<1>3. ASSUME NEW i \in Items, GiveUp(i) PROVE LInv'
  BY <1>3, TellsOfOne DEF GiveUp
<1>4. ASSUME NEW i \in Items, Decide(i) PROVE LInv'
  <2>1. CASE IsAbout(Head(decisions), i)
    <3>1. PICK p \in {"ran", "done"} : phase' = [phase EXCEPT ![i] = p]
      BY <1>4, <2>1 DEF Decide
    <3> QED BY <1>4, <2>1, <3>1, TellsOfOne DEF Decide
  <2>2. CASE ~IsAbout(Head(decisions), i)
    <3>1. UNCHANGED <<Aside, active, evicted, on, pc>>
      BY <1>4, <2>2 DEF Decide, Aside, outside, records, table, monitor, history
    <3> QED BY <3>1, AsideInOrder DEF MovesOn
  <2> QED BY <2>1, <2>2
<1> QED BY <1>1, <1>2, <1>3, <1>4, OpenInOrder, DropInOrder, EndTurnInOrder DEF Engine

-----------------------------------------------------------------------------
(* The monitor.                                                            *)

(* An event is taken from the channel: a started item gets in progress,    *)
(* what was done or is the message gets over.                              *)
LEMMA Heard ==
  ASSUME IInv, LInv, NEW t \in Turns, Hear(t)
  PROVE  /\ \A k \in Nat : \A w, i : Stands(events', k, w, i) <=> k # 0 /\ Stands(events, k + 1, w, i)
         /\ \A w, i : Stands(events, 1, w, i) <=> w = Head(events).what /\ i = Head(events).of
         /\ Len(events') = Len(events) - 1 /\ Len(events) \in Nat /\ Head(events) \in Event
         /\ process = "up" /\ pc[t] = "listen" /\ turn[t] = "InProgress"
         /\ UNCHANGED <<process, mending, turn, listed, active, evicted, busy, phase, recovered, torn>>
         /\ \A u \in Turns \ {t} : pc'[u] = pc[u] /\ pc[u] \notin Monitored
         /\ pc'[t] \in Monitored /\ pc[t] \in Monitored
         /\ \A i \in Items :
              \/ item'[i] = item[i]
              \/ item'[i] = "InProgress" /\ Stands(events, 1, "start", i)
              \/ item'[i] \in Ended /\ (i = message \/ Stands(events, 1, "done", i))
<1> USE DEF LInv, Hear
<1> DEFINE e == Head(events)
<1>1. /\ events \in Seq(Event) /\ item \in [Items -> Statuses]
      /\ pc \in [Turns -> {"new", "start", "gone"} \cup Monitored]
  BY DEF IInv, TypeOK, EngineTypeOK, RecordsTypeOK, MonitorTypeOK
<1>2. /\ \A k \in Nat : \A w, i : Stands(events', k, w, i) <=> k # 0 /\ Stands(events, k + 1, w, i)
      /\ \A w, i : Stands(events, 1, w, i) <=> w = e.what /\ i = e.of
      /\ Len(events') = Len(events) - 1 /\ Len(events) \in Nat
      /\ e \in Event
  BY <1>1, StandsHeard
<1>3. /\ process = "up" /\ pc[t] = "listen" /\ turn[t] = "InProgress"
      /\ UNCHANGED <<process, mending, turn, listed, active, evicted, busy, phase, recovered, torn>>
  BY DEF At, TurnsInOrder, Monitored, table, history
<1>4. pc'[t] \in Monitored /\ pc[t] \in Monitored
  BY <1>1, <1>3 DEF Goto, Monitored
<1>5. \A u \in Turns \ {t} : pc'[u] = pc[u] /\ pc[u] \notin Monitored
  BY <1>1, <1>4 DEF Goto, IInv, OneMonitor
<1>6. \A i \in Items : \/ item'[i] = item[i]
                       \/ item'[i] = "InProgress" /\ e.what = "start" /\ e.of = i
                       \/ item'[i] \in Ended /\ (i = message \/ (e.what = "done" /\ e.of = i))
  <2>1. ASSUME e.what \in Ended
        PROVE  \A i \in Items : item'[i] = item[i] \/ (item'[i] \in Ended /\ i = message)
    <3>1. Outcome(t) \in Ended
      BY <2>1 DEF Outcome, Ended
    <3>2. item' = LastItems(t)
      BY <2>1 DEF Ended
    <3> QED BY <3>1, <3>2 DEF LastItems
  <2> QED BY <1>1, <1>2, <2>1 DEF Event, Ended
<1> HIDE DEF e
<1> QED BY <1>2, <1>3, <1>4, <1>5, <1>6 DEF e

LEMMA HeardInOrder ==
  ASSUME IInv, LInv, NEW t \in Turns, Hear(t)
  PROVE  QuietWhenIdle' /\ ItemsInOrder' /\ Channel' /\ ListedIsOver'
<1> USE DEF LInv
<1>1. listed \in [Turns -> SUBSET Items]
  BY DEF IInv, TypeOK, RecordsTypeOK
<1>2. /\ \A k \in Nat : \A w, i : Stands(events', k, w, i) <=> k # 0 /\ Stands(events, k + 1, w, i)
      /\ Len(events') = Len(events) - 1 /\ Len(events) \in Nat
  BY Heard
<1>3. /\ process = "up" /\ turn[t] = "InProgress"
      /\ UNCHANGED <<process, mending, turn, listed, active, evicted, busy, phase, recovered, torn>>
  BY Heard
<1>4. \A u \in Turns \ {t} : pc'[u] = pc[u]
  BY Heard
<1>5. pc'[t] \in Monitored /\ pc[t] \in Monitored
  BY Heard
<1>6. \A i \in Items : \/ item'[i] = item[i]
                       \/ item'[i] = "InProgress" /\ Stands(events, 1, "start", i)
                       \/ item'[i] \in Ended /\ (i = message \/ Stands(events, 1, "done", i))
  BY Heard
<1>7. QuietWhenIdle'
  BY <1>3, <1>5 DEF QuietWhenIdle
<1>8. \A i \in Items : phase[i] = "new" =>
        ~Stands(events, 1, "start", i) /\ ~Stands(events, 1, "done", i) /\ i # message
  <2>1. 1 \in Nat
    OBVIOUS
  <2> QED BY <2>1, ItemsAssumption
      DEF Channel, StartsOnce, DoneLater, Says, ItemsInOrder, MonitorInOrder
<1>9. ItemsInOrder'
  <2> SUFFICES ASSUME NEW i \in Items
               PROVE  /\ pc'[TurnOf[i]] \in {"new", "start"} => phase[i] = "new"
                      /\ phase[i] = "new" => item'[i] = "absent"
                      /\ phase[i] \in {"open", "asking"} => busy = TurnOf[i]
                      /\ phase[i] = "asking" => i \in Tools
    BY <1>3 DEF ItemsInOrder
  <2>1. pc'[TurnOf[i]] \in {"new", "start"} => pc'[TurnOf[i]] = pc[TurnOf[i]]
    BY <1>4, <1>5, MapsAssumption DEF Monitored
  <2>2. phase[i] = "new" => item'[i] = item[i]
    BY <1>6, <1>8
  <2> QED BY <2>1, <2>2 DEF ItemsInOrder
<1>10. EndComesLast'
  <2> SUFFICES ASSUME NEW k \in Nat, NEW status \in Ended, Stands(events', k, status, None)
               PROVE  busy = None /\ k = Len(events')
    BY <1>3 DEF EndComesLast, Says
  <2>1. k + 1 \in Nat /\ Stands(events, k + 1, status, None)
    BY <1>2
  <2>2. busy = None /\ k + 1 = Len(events)
    BY <2>1 DEF Channel, EndComesLast, Says
  <2> QED BY <1>2, <2>2
<1>11. StartsInTurn'
  <2> SUFFICES ASSUME NEW i \in Items, NEW k \in Nat, Stands(events', k, "start", i),
                      NEW u \in Turns, pc'[u] \in Monitored
               PROVE  TurnOf[i] = u
    BY DEF StartsInTurn, Says
  <2>1. k + 1 \in Nat /\ Stands(events, k + 1, "start", i)
    BY <1>2
  <2> QED BY <1>4, <1>5, <2>1 DEF Channel, StartsInTurn, Says
<1>12. StartsOnce'
  <2> SUFFICES ASSUME NEW i \in Items, NEW k \in Nat, Stands(events', k, "start", i)
               PROVE  /\ item'[i] = "absent" /\ phase[i] # "new"
                      /\ \A j \in Nat : Stands(events', j, "start", i) => j = k
    BY <1>3 DEF StartsOnce, Says
  <2>1. k + 1 \in Nat /\ k # 0 /\ Stands(events, k + 1, "start", i) /\ 1 \in Nat
    BY <1>2
  <2>2. /\ item[i] = "absent" /\ phase[i] # "new"
        /\ \A j \in Nat : Stands(events, j, "start", i) => j = k + 1
    BY <2>1 DEF Channel, StartsOnce, Says
  <2>3. item'[i] = item[i]
    <3>1. ~Stands(events, 1, "start", i)
      BY <2>1, <2>2
    <3>2. ~Stands(events, 1, "done", i)
      <4>1. Stands(events, 1, "done", i) => k + 1 < 1
        BY <2>1 DEF Channel, DoneLater, Says
      <4> QED BY <4>1
    <3>3. i # message
      BY <2>2, ItemsAssumption DEF MonitorInOrder
    <3> QED BY <1>6, <3>1, <3>2, <3>3
  <2>4. \A j \in Nat : Stands(events', j, "start", i) => j = k
    <3> SUFFICES ASSUME NEW j \in Nat, Stands(events', j, "start", i) PROVE j = k
      OBVIOUS
    <3>1. j + 1 \in Nat /\ Stands(events, j + 1, "start", i)
      BY <1>2
    <3>2. j + 1 = k + 1
      BY <2>2, <3>1
    <3> QED BY <3>2
  <2> QED BY <2>2, <2>3, <2>4
<1>13. DoneLater'
  <2> SUFFICES ASSUME NEW i \in Items, NEW k \in Nat, Stands(events', k, "done", i)
               PROVE  /\ phase[i] \in {"ran", "done"}
                      /\ \A j \in Nat : Stands(events', j, "start", i) => j < k
    BY <1>3 DEF DoneLater, Says
  <2>1. k + 1 \in Nat /\ Stands(events, k + 1, "done", i)
    BY <1>2
  <2>2. \A j \in Nat : Stands(events', j, "start", i) => j + 1 \in Nat /\ Stands(events, j + 1, "start", i)
    BY <1>2
  <2>3. \A j \in Nat : j + 1 < k + 1 => j < k
    OBVIOUS
  <2> QED BY <2>1, <2>2, <2>3 DEF Channel, DoneLater, Says
<1>14. ListedIsOver'
  <2>1. \A u \in Turns : \A i \in listed[u] : i \in Items /\ TurnOf[i] = u
    BY <1>1 DEF ListedIsOver
  <2> SUFFICES ASSUME NEW u \in Turns, NEW i \in listed[u], turn[u] \in Ended, item'[i] = "InProgress"
               PROVE  u \in torn \/ u = mending \/ (phase[i] = "dropped" /\ u \notin recovered)
    BY <1>3, <2>1 DEF ListedIsOver
  <2>2. CASE item[i] = "InProgress"
    BY <2>2 DEF ListedIsOver
  <2>3. CASE item[i] # "InProgress"
    <3>1. Stands(events, 1, "start", i) /\ 1 \in Nat
      BY <1>6, <2>1, <2>3 DEF Ended
    <3>2. u = t
      BY <1>5, <2>1, <3>1 DEF Channel, StartsInTurn, Says
    <3> QED BY <1>3, <3>2 DEF Ended
  <2> QED BY <2>2, <2>3
<1> QED BY <1>7, <1>9, <1>10, <1>11, <1>12, <1>13, <1>14 DEF Channel

LEMMA HearInOrder ==
  ASSUME IInv, LInv, NEW t \in Turns, Hear(t)
  PROVE  LInv'
<1> USE DEF LInv
<1> DEFINE e == Head(events)
           first(w, i) == Stands(events, 1, w, i)
<1>1. /\ \A k \in Nat : \A w, i : Stands(events', k, w, i) <=> k # 0 /\ Stands(events, k + 1, w, i)
      /\ \A w, i : first(w, i) <=> w = e.what /\ i = e.of
      /\ events' = Tail(events) /\ Len(events') = Len(events) - 1 /\ e \in Event
  BY Heard DEF Hear
<1>2. /\ pc[t] = "listen" /\ turn[t] = "InProgress" /\ pc'[t] \in Monitored /\ pc[t] \in Monitored
      /\ UNCHANGED <<process, turn, listed, busy, phase>>
      /\ \A u \in Turns \ {t} : pc'[u] = pc[u] /\ pc[u] \notin Monitored
  BY Heard
<1>3. \A i \in Items : \/ item'[i] = item[i]
                       \/ item'[i] = "InProgress" /\ first("start", i)
                       \/ item'[i] \in Ended /\ (i = message \/ first("done", i))
  BY Heard
<1>4. /\ pc \in [Turns -> {"new", "start", "gone"} \cup Monitored] /\ events \in Seq(Event)
      /\ message \in (Items \ Tools) \cup {None} /\ item \in [Items -> Statuses]
  BY DEF IInv, TypeOK, MonitorTypeOK, EngineTypeOK, RecordsTypeOK
<1>5. 1 \in Nat /\ \A i \in Items : TurnOf[i] \in Turns
  BY MapsAssumption
<1>6. \A i \in Items : Followed(i)' => Followed(i) /\ TurnOf[i] = t
  BY <1>2, <1>5 DEF Followed
<1>7. e.what \in Ended =>
        busy = None /\ events' = <<>> /\ message' = None /\ LastItems(t) = item' /\ pc'[t] = "store"
  <2> SUFFICES ASSUME e.what \in Ended
               PROVE  busy = None /\ events' = <<>> /\ message' = None /\ LastItems(t) = item' /\ pc'[t] = "store"
    OBVIOUS
  <2>1. first(e.what, None)
    BY <1>1 DEF Event, Ended
  <2>2. busy = None /\ Len(events) = 1
    BY <1>5, <2>1 DEF Channel, EndComesLast, Says
  <2>3. events' = <<>>
    BY <1>1, <1>4, <2>2
  <2> QED BY <1>4, <2>2, <2>3 DEF Hear, Ended, Goto
<1>8. e.what \notin Ended => pc'[t] \in {"listen", "attach", "flags"} /\ (message' = message \/ message' = None)
  BY <1>2, <1>4 DEF Hear, Goto
<1>9. TurnsInOrder'
  <2>1. \A u \in Turns : pc'[u] = "store" => busy = None /\ events' = <<>>
    <3> SUFFICES ASSUME NEW u \in Turns, pc'[u] = "store" PROVE busy = None /\ events' = <<>>
      OBVIOUS
    <3>1. u = t
      BY <1>2 DEF Monitored
    <3> QED BY <1>7, <1>8, <3>1
  <2>2. \A u \in Turns : /\ pc'[u] \in Monitored => pc[u] \in Monitored
                         /\ pc'[u] \in {"new", "start"} => pc[u] = pc'[u]
    BY <1>2 DEF Monitored
  <2>3. process = "up"
    BY Heard
  <2> QED BY <1>2, <2>1, <2>2, <2>3 DEF TurnsInOrder
<1>10. MonitorInOrder'
  <2>1. \A u \in Turns : pc'[u] = "store" => message' = None
    BY <1>2, <1>7, <1>8 DEF Monitored
  <2>2. message' # None => item'[message'] # "absent"
    <3> SUFFICES ASSUME message' # None PROVE item'[message'] # "absent"
      OBVIOUS
    <3>1. message' = message
      BY <1>7, <1>8
    <3>2. item[message] # "absent" /\ message \in Items
      BY <1>4, <3>1 DEF MonitorInOrder
    <3> QED BY <1>3, <3>1, <3>2 DEF Ended
  <2>3. \A u \in Turns : pc'[u] = "attach" => TurnOf[on'] = u /\ item'[on'] # "absent"
    <3> SUFFICES ASSUME NEW u \in Turns, pc'[u] = "attach" PROVE TurnOf[on'] = u /\ item'[on'] # "absent"
      OBVIOUS
    <3>1. u = t
      BY <1>2 DEF Monitored
    <3>2. e.what = "start" /\ on' = e.of /\ item' = [item EXCEPT ![e.of] = "InProgress"]
      BY <1>2, <1>4, <3>1 DEF Hear, Goto
    <3>3. first("start", on') /\ on' \in Items
      BY <1>1, <3>2 DEF Event, Ended
    <3>4. TurnOf[on'] = t
      BY <1>2, <1>5, <3>3 DEF Channel, StartsInTurn, Says
    <3> QED BY <1>4, <3>1, <3>2, <3>3, <3>4
  <2> QED BY <2>1, <2>2, <2>3 DEF MonitorInOrder
<1>11. DoneIsTold'
  <2> SUFFICES ASSUME NEW i \in Items, Followed(i), TurnOf[i] = t
               PROVE  /\ phase[i] # "new" => item'[i] # "absent" \/ \E k \in Nat : Stands(events', k, "start", i)
                      /\ phase[i] \in {"ran", "done"} =>
                           \/ item'[i] \in Ended \/ (i \notin Tools /\ busy = None)
                           \/ \E k \in Nat : Stands(events', k, "done", i)
    BY <1>2, <1>6 DEF DoneIsTold, Says
  <2>1. \A w : \A k \in Nat : Stands(events, k, w, i) => first(w, i) \/ \E l \in Nat : Stands(events', l, w, i)
    <3> SUFFICES ASSUME NEW w, NEW k \in Nat, Stands(events, k, w, i), k # 1
                 PROVE  \E l \in Nat : Stands(events', l, w, i)
      OBVIOUS
    <3>1. 1 <= k
      BY <1>4, StandsAlone
    <3>2. k - 1 \in Nat /\ k - 1 # 0 /\ (k - 1) + 1 = k
      BY <3>1
    <3> QED BY <1>1, <3>2
  <2>2. first("start", i) => item'[i] # "absent"
    <3> SUFFICES ASSUME first("start", i) PROVE item'[i] # "absent"
      OBVIOUS
    <3>1. e.what = "start" /\ e.of = i
      BY <1>1
    <3> QED BY <1>4, <3>1 DEF Hear, Ended
  <2>3. item[i] # "absent" => item'[i] # "absent"
    BY <1>3 DEF Ended
  <2>4. phase[i] # "new" => item'[i] # "absent" \/ \E k \in Nat : Stands(events', k, "start", i)
    BY <2>1, <2>2, <2>3 DEF DoneIsTold, Says
  <2>5. item[i] \in Ended => item'[i] \in Ended
    <3>1. first("start", i) => item[i] = "absent"
      BY <1>5 DEF Channel, StartsOnce, Says
    <3> QED BY <1>3, <3>1 DEF Ended
  <2>6. first("done", i) => item'[i] \in Ended
    <3> SUFFICES ASSUME first("done", i) PROVE item'[i] \in Ended
      OBVIOUS
    <3>1. e.what = "done" /\ e.of = i
      BY <1>1
    <3>2. CASE i \in Tools
      BY <1>4, <3>1, <3>2 DEF Hear, Ended
    <3>3. CASE i \notin Tools
      <4>1. phase[i] \in {"ran", "done"} /\ \A j \in Nat : Stands(events, j, "start", i) => j < 1
        BY <1>5 DEF Channel, DoneLater, Says
      <4>2. \A j \in Nat : ~Stands(events, j, "start", i)
        BY <1>4, <4>1, StandsAlone
      <4>3. item[i] # "absent"
        BY <4>1, <4>2 DEF DoneIsTold, Says
      <4>4. item[i] = "InProgress" => i = message
        BY <1>2, <3>3, <4>1 DEF OneMessage, InHand
      <4>5. item' = [j \in Items |-> IF j = message THEN "Completed" ELSE item[j]]
        BY <3>1, <3>3 DEF Hear, Ended
      <4> QED BY <1>4, <4>3, <4>4, <4>5 DEF Statuses, Ended
    <3> QED BY <3>2, <3>3
  <2>7. phase[i] \in {"ran", "done"} =>
          \/ item'[i] \in Ended \/ (i \notin Tools /\ busy = None)
          \/ \E k \in Nat : Stands(events', k, "done", i)
    BY <2>1, <2>5, <2>6 DEF DoneIsTold, Says
  <2> QED BY <2>4, <2>7
<1>12. OneMessage'
  <2> SUFFICES ASSUME NEW g \in Items \ Tools, Followed(g), TurnOf[g] = t,
                      item'[g] = "InProgress", phase[g] # "dropped"
               PROVE  g = IF pc'[t] = "attach" THEN Current' ELSE message'
    BY <1>2, <1>6 DEF OneMessage, InHand
  <2>1. item[g] = "InProgress" => g = message
    BY <1>2 DEF OneMessage, InHand
  <2>2. item[g] # "InProgress" => first("start", g)
    BY <1>3 DEF Ended
  <2>3. CASE e.what = "start"
    <3>1. e.of \in Items /\ on' = e.of /\ message' = message /\ pc'[t] = "attach"
      BY <1>1, <1>4, <2>3 DEF Hear, Goto, Event, Ended
    <3>2. CASE e.of \in Tools
      BY <1>1, <2>1, <2>2, <3>1, <3>2 DEF Current
    <3>3. CASE e.of \notin Tools
      <4>1. item[g] # "InProgress"
        <5> SUFFICES ASSUME item[g] = "InProgress" PROVE FALSE
          OBVIOUS
        <5>1. first("start", e.of)
          BY <1>1, <2>3
        <5>2. PICK l \in Nat : l < 1 /\ Stands(events, l, "done", g)
          BY <1>5, <3>1, <3>3, <5>1 DEF MessagesInTurn, Says
        <5> QED BY <1>4, <5>2, StandsAlone
      <4> QED BY <1>1, <2>2, <3>1, <3>3, <4>1 DEF Current
    <3> QED BY <3>2, <3>3
  <2>4. CASE e.what \in Ended \/ (e.what = "done" /\ e.of \notin Tools)
    <3>1. item'[message] \in Ended
      BY <1>1, <1>4, <1>7, <2>1, <2>2, <2>4 DEF Hear, Ended, LastItems, Outcome
    <3> QED BY <1>1, <2>1, <2>2, <2>4, <3>1 DEF Ended
  <2>5. CASE e.what = "ask" \/ (e.what = "done" /\ e.of \in Tools)
    <3>1. message' = message /\ pc'[t] # "attach"
      BY <1>2, <1>4, <2>5 DEF Hear, Goto, Ended
    <3> QED BY <1>1, <2>1, <2>2, <2>5, <3>1
  <2> QED BY <1>1, <2>3, <2>4, <2>5 DEF Event
<1>13. MessagesInTurn'
  <2> SUFFICES ASSUME NEW g \in Items \ Tools, NEW n \in Items \ Tools, NEW k \in Nat,
                      Followed(g), Stands(events', k, "start", n), phase[g] # "dropped",
                      item'[g] = "InProgress" \/ \E j \in Nat : j < k /\ Stands(events', j, "start", g)
               PROVE  \E l \in Nat : l < k /\ Stands(events', l, "done", g)
    BY <1>2, <1>6 DEF MessagesInTurn, Says
  <2>1. k + 1 \in Nat /\ k # 0 /\ 1 < k + 1 /\ Stands(events, k + 1, "start", n)
    BY <1>1
  <2>2. item[g] = "InProgress" \/ \E j \in Nat : j < k + 1 /\ Stands(events, j, "start", g)
    <3>1. CASE item'[g] = "InProgress"
      BY <1>3, <1>5, <2>1, <3>1 DEF Ended
    <3>2. CASE \E j \in Nat : j < k /\ Stands(events', j, "start", g)
      <4>1. PICK j \in Nat : j < k /\ Stands(events', j, "start", g)
        BY <3>2
      <4>2. j + 1 \in Nat /\ j + 1 < k + 1 /\ Stands(events, j + 1, "start", g)
        BY <1>1, <4>1
      <4> QED BY <4>2
    <3> QED BY <3>1, <3>2
  <2>3. PICK l \in Nat : l < k + 1 /\ Stands(events, l, "done", g)
    BY <2>1, <2>2 DEF MessagesInTurn, Says
  <2>4. l # 1
    <3> SUFFICES ASSUME l = 1 PROVE FALSE
      OBVIOUS
    <3>1. e.what = "done" /\ e.of = g
      BY <1>1, <2>3
    <3>2. \A j \in Nat : Stands(events, j, "start", g) => j < 1
      BY <2>3 DEF Channel, DoneLater, Says
    <3>3. \A j \in Nat : ~Stands(events, j, "start", g)
      BY <1>4, <3>2, StandsAlone
    <3>4. item[g] = "InProgress" /\ item'[g] = "InProgress"
      <4>1. \A j \in Nat : ~Stands(events', j, "start", g)
        <5> SUFFICES ASSUME NEW j \in Nat, Stands(events', j, "start", g) PROVE FALSE
          OBVIOUS
        <5>1. j + 1 \in Nat /\ Stands(events, j + 1, "start", g)
          BY <1>1
        <5> QED BY <3>3, <5>1
      <4> QED BY <1>3, <1>5, <3>3, <4>1 DEF Ended
    <3>5. g = message
      <4>1. TurnOf[g] = t
        BY <1>2, <1>5 DEF Followed
      <4> QED BY <1>2, <3>4, <4>1 DEF OneMessage, InHand
    <3>6. item' = [j \in Items |-> IF j = message THEN "Completed" ELSE item[j]]
      BY <3>1 DEF Hear, Ended
    <3> QED BY <3>4, <3>5, <3>6
  <2>5. l - 1 \in Nat /\ l - 1 # 0 /\ (l - 1) + 1 = l /\ l - 1 < k
    BY <1>4, <2>3, <2>4, StandsAlone
  <2>6. Stands(events', l - 1, "done", g)
    BY <1>1, <2>3, <2>5
  <2> QED BY <2>5, <2>6
<1> QED BY <1>9, <1>10, <1>11, <1>12, <1>13, HeardInOrder

LEMMA AttachInOrder ==
  ASSUME IInv, LInv, NEW t \in Turns, Attach(t)
  PROVE  LInv'
<1> USE DEF LInv, Attach
<1>1. /\ pc \in [Turns -> {"new", "start", "gone"} \cup Monitored] /\ listed \in [Turns -> SUBSET Items]
      /\ message \in (Items \ Tools) \cup {None} /\ on \in Items
  BY DEF IInv, TypeOK, MonitorTypeOK, RecordsTypeOK, OnTheItem, At
<1>2. /\ process = "up" /\ pc[t] = "attach" /\ pc'[t] = "listen" /\ turn[t] = "InProgress"
      /\ UNCHANGED <<process, mending, turn, item, active, evicted, busy, phase, events, recovered, torn>>
      /\ TurnOf[on] = t /\ item[on] # "absent"
  BY <1>1 DEF At, Goto, TurnsInOrder, MonitorInOrder, Monitored, table, engine, history
<1>3. \A u \in Turns \ {t} : pc'[u] = pc[u] /\ pc[u] \notin Monitored
  BY <1>1, <1>2 DEF Goto, IInv, OneMonitor, Monitored
<1>4. pc[t] \in Monitored /\ pc'[t] \in Monitored
  BY <1>2 DEF Monitored
<1>5. \A i \in Items : /\ TurnOf[i] \in Turns
                       /\ Followed(i)' <=> Followed(i)
                       /\ Followed(i) => TurnOf[i] = t
  BY <1>3, <1>4, MapsAssumption DEF Followed
<1>6. \A u \in Turns : listed'[u] = IF u = t THEN listed[t] \cup {on} ELSE listed[u]
  BY <1>1
<1>7. message' = Current
  OBVIOUS
<1> HIDE DEF Attach
<1>8. QuietWhenIdle'
  BY <1>2, <1>4 DEF QuietWhenIdle
<1>9. TurnsInOrder'
  BY <1>2, <1>3, <1>4, <1>6 DEF TurnsInOrder
<1>10. ItemsInOrder'
  BY <1>2, <1>3, <1>5 DEF ItemsInOrder
<1>11. MonitorInOrder'
  <2>1. message' # None => item[message'] # "absent"
    BY <1>2, <1>7 DEF MonitorInOrder, Current
  <2>2. \A u \in Turns : pc'[u] \notin {"attach", "store"}
    BY <1>2, <1>3 DEF Monitored
  <2> QED BY <1>2, <2>1, <2>2 DEF MonitorInOrder
<1>12. Channel'
  <2>1. EndComesLast' /\ StartsOnce' /\ DoneLater'
    BY <1>2 DEF Channel, EndComesLast, StartsOnce, DoneLater, Says
  <2>2. StartsInTurn'
    BY <1>2, <1>3, <1>4 DEF Channel, StartsInTurn, Says
  <2> QED BY <2>1, <2>2 DEF Channel
<1>13. DoneIsTold'
  BY <1>2, <1>5 DEF DoneIsTold, Says
<1>14. OneMessage'
  <2> SUFFICES ASSUME NEW g \in Items \ Tools, Followed(g), InHand(g)
               PROVE  g = message' /\ TurnOf[g] = t
    BY <1>2, <1>5 DEF OneMessage, InHand
  <2> QED BY <1>2, <1>5, <1>7 DEF OneMessage
<1>15. MessagesInTurn'
  BY <1>2, <1>5 DEF MessagesInTurn, Says
<1>16. ListedIsOver'
  BY <1>2, <1>6 DEF ListedIsOver, Ended
<1> QED BY <1>8, <1>9, <1>10, <1>11, <1>12, <1>13, <1>14, <1>15, <1>16

(* The turn ends, and with it what it lists, unless the engine dropped it. *)
LEMMA StoreInOrder ==
  ASSUME IInv, LInv, NEW t \in Turns, Store(t)
  PROVE  LInv'
<1> USE DEF LInv, Store
<1>1. /\ pc \in [Turns -> {"new", "start", "gone"} \cup Monitored] /\ listed \in [Turns -> SUBSET Items]
      /\ turn \in [Turns -> Statuses] /\ item \in [Items -> Statuses] /\ phase \in [Items -> Phases]
      /\ events \in Seq(Event) /\ outcome \in Ended
  BY DEF IInv, TypeOK, MonitorTypeOK, RecordsTypeOK, EngineTypeOK
<1>2. /\ process = "up" /\ pc[t] = "store" /\ pc'[t] = "gone" /\ turn[t] = "InProgress"
      /\ busy = None /\ events = <<>> /\ message = None
      /\ UNCHANGED <<process, mending, listed, item, evicted, message, busy, phase, events, recovered, torn>>
  BY <1>1 DEF At, Goto, TurnsInOrder, MonitorInOrder, Monitored, engine, history
<1>3. \A u \in Turns \ {t} : pc'[u] = pc[u] /\ pc[u] \notin Monitored /\ turn'[u] = turn[u]
  BY <1>1, <1>2 DEF Goto, IInv, OneMonitor, Monitored
<1>4. turn'[t] = outcome /\ pc[t] \in Monitored
  BY <1>1, <1>2 DEF Monitored
<1> HIDE DEF Store
<1>5. \A u \in Turns : pc'[u] \notin Monitored
  BY <1>2, <1>3 DEF Monitored
<1>6. \A i \in Items : TurnOf[i] \in Turns /\ ~Followed(i)'
  BY <1>5, MapsAssumption DEF Followed
<1>7. QuietWhenIdle' /\ OneMessage' /\ DoneIsTold'
  BY <1>2, <1>5, <1>6 DEF QuietWhenIdle, OneMessage, DoneIsTold
<1>8. Channel' /\ MessagesInTurn'
  BY <1>2, EmptyChannel
<1>9. TurnsInOrder'
  BY <1>1, <1>2, <1>3, <1>4, <1>5 DEF TurnsInOrder, Ended
<1>10. ItemsInOrder'
  BY <1>2, <1>3, <1>6 DEF ItemsInOrder
<1>11. MonitorInOrder'
  BY <1>2, <1>5 DEF MonitorInOrder, Monitored
<1>12. ListedIsOver'
  <2>1. \A k, w, i : ~Stands(events, k, w, i)
    BY <1>2, EmptyChannel DEF Says
  <2>2. ASSUME NEW i \in listed[t], item[i] = "InProgress"
        PROVE  phase[i] = "dropped" /\ t \notin recovered
    <3>1. i \in Items /\ TurnOf[i] = t /\ Followed(i)
      BY <1>1, <1>4 DEF ListedIsOver, Followed
    <3>2. phase[i] \notin {"new", "open", "asking"}
      BY <1>2, <2>2, <3>1, ItemsAssumption DEF ItemsInOrder
    <3>3. phase[i] \notin {"ran", "done"}
      <4> SUFFICES ASSUME phase[i] \in {"ran", "done"} PROVE FALSE
        OBVIOUS
      <4>1. i \in Items \ Tools
        BY <2>1, <2>2, <3>1 DEF DoneIsTold, Says, Ended
      <4>2. i = message
        BY <1>2, <2>2, <3>1, <4>1 DEF OneMessage, InHand
      <4> QED BY <1>2, <3>1, <4>2, ItemsAssumption
    <3>4. t \notin recovered
      BY <1>2 DEF ListedIsOver, Ended
    <3> QED BY <1>1, <3>1, <3>2, <3>3, <3>4 DEF Phases
  <2>3. \A u \in Turns : \A i \in listed[u] :
          /\ TurnOf[i] = u
          /\ turn'[u] \in Ended /\ item[i] = "InProgress" =>
               u \in torn \/ u = mending \/ (phase[i] = "dropped" /\ u \notin recovered)
    BY <1>3, <2>2 DEF ListedIsOver
  <2>4. \A u \in Turns : turn[u] \in Ended => turn'[u] = turn[u]
    BY <1>2, <1>3 DEF Ended
  <2>5. recovered \subseteq Turns
    BY DEF IInv, TypeOK, HistoryTypeOK
  <2> QED BY <1>2, <2>3, <2>4, <2>5 DEF ListedIsOver
<1> QED BY <1>7, <1>8, <1>9, <1>10, <1>11, <1>12

-----------------------------------------------------------------------------
(* A turn is started; the process dies and recovers.                       *)

LEMMA StartReadInOrder ==
  ASSUME IInv, LInv, NEW t \in Turns, StartRead(t)
  PROVE  LInv'
<1> USE DEF LInv, StartRead
<1>1. pc \in [Turns -> {"new", "start", "gone"} \cup Monitored] /\ \A i \in Items : TurnOf[i] \in Turns
  BY MapsAssumption DEF IInv, TypeOK, MonitorTypeOK
<1>2. /\ process = "up" /\ pc[t] = "new" /\ pc'[t] = "start" /\ \A u \in Turns \ {t} : pc'[u] = pc[u]
      /\ UNCHANGED <<process, mending, turn, listed, item, active, on, message, busy, phase, recovered, torn>>
      /\ (~evicted /\ ~evicted' /\ events' = events) \/ (evicted /\ busy = None /\ events' = <<>>)
      /\ (evicted => \A u \in Turns : pc[u] \in {"new", "gone"})
  BY <1>1 DEF At, Goto, records, history
<1> HIDE DEF StartRead
<1>3. \A u \in Turns : /\ pc'[u] \in Monitored \cup {"gone"} => pc'[u] = pc[u]
                       /\ pc'[u] \in {"new", "start"} => pc[u] \in {"new", "start"}
                       /\ pc[u] \in Monitored => pc'[u] = pc[u]
  BY <1>2 DEF Monitored
<1>4. TurnsInOrder' /\ ItemsInOrder' /\ MonitorInOrder' /\ ListedIsOver'
  <2>1. TurnsInOrder'
    BY <1>2, <1>3 DEF TurnsInOrder, Monitored
  <2>2. ItemsInOrder' /\ MonitorInOrder'
    BY <1>1, <1>2, <1>3 DEF ItemsInOrder, MonitorInOrder, Monitored
  <2>3. ListedIsOver'
    BY <1>2 DEF ListedIsOver
  <2> QED BY <2>1, <2>2, <2>3
<1>5. \A i \in Items : (Followed(i)' <=> Followed(i)) /\ (Followed(i) => pc'[TurnOf[i]] = pc[TurnOf[i]])
  BY <1>1, <1>3 DEF Followed
<1>6. OneMessage'
  BY <1>2, <1>5 DEF OneMessage, InHand, Current
<1>7. CASE ~evicted /\ ~evicted' /\ events' = events
  <2>1. QuietWhenIdle'
    BY <1>2, <1>3, <1>7 DEF QuietWhenIdle
  <2>2. EndComesLast' /\ StartsOnce' /\ DoneLater' /\ StartsInTurn'
    BY <1>2, <1>3, <1>7 DEF Channel, EndComesLast, StartsOnce, DoneLater, StartsInTurn, Says
  <2>3. DoneIsTold' /\ MessagesInTurn'
    BY <1>2, <1>5, <1>7 DEF DoneIsTold, MessagesInTurn, Says
  <2> QED BY <1>4, <1>6, <2>1, <2>2, <2>3 DEF Channel
<1>8. CASE evicted /\ busy = None /\ events' = <<>>
  <2>1. \A u \in Turns : pc'[u] \notin Monitored
    BY <1>2, <1>3, <1>8 DEF Monitored
  <2>2. QuietWhenIdle' /\ DoneIsTold'
    BY <1>1, <1>2, <1>8, <2>1 DEF QuietWhenIdle, DoneIsTold, Followed
  <2> QED BY <1>4, <1>6, <1>8, <2>2, EmptyChannel
<1> QED BY <1>2, <1>7, <1>8

LEMMA StartInOrder ==
  ASSUME IInv, LInv, NEW t \in Turns, Start(t)
  PROVE  LInv'
<1> USE DEF LInv
<1>1. /\ pc \in [Turns -> {"new", "start", "gone"} \cup Monitored] /\ turn \in [Turns -> Statuses]
      /\ listed \in [Turns -> SUBSET Items] /\ \A i \in Items : TurnOf[i] \in Turns
  BY MapsAssumption DEF IInv, TypeOK, MonitorTypeOK, RecordsTypeOK
<1>2. CASE active # None
  <2>1. UNCHANGED <<Aside, active, evicted, on>>
    BY <1>2 DEF Start, Aside, history
  <2>2. \A u \in Turns : MovesOn(u) /\ (pc'[u] = "attach" => on' = on)
    BY <1>1, <1>2, <2>1 DEF Start, At, Goto, MovesOn
  <2> QED BY <2>1, <2>2, AsideInOrder
<1>3. CASE active = None
  <2>1. /\ process = "up" /\ pc[t] = "start" /\ pc'[t] = "listen" /\ turn'[t] = "InProgress"
        /\ \A u \in Turns \ {t} : pc'[u] = pc[u] /\ turn'[u] = turn[u]
        /\ busy = None /\ busy' = t /\ active' = t /\ ~evicted
        /\ UNCHANGED <<process, mending, listed, item, evicted, on, message, phase, events, recovered, torn>>
    BY <1>1, <1>3, ItemsAssumption DEF Start, At, Goto, history
  <2>2. events = <<>> /\ \A u \in Turns : pc[u] \notin Monitored
    BY <1>3, <2>1 DEF QuietWhenIdle
  <2>3. turn[t] = "absent" /\ listed[t] = {} /\ "listen" \in Monitored
        /\ \A u \in Turns \ {t} : pc'[u] \notin Monitored
    BY <2>1, <2>2 DEF TurnsInOrder, Monitored
  <2>4. \A i \in Items : /\ Followed(i)' => TurnOf[i] = t
                         /\ TurnOf[i] = t => phase[i] = "new" /\ item[i] = "absent"
    BY <1>1, <2>1, <2>3 DEF Followed, ItemsInOrder
  <2>5. QuietWhenIdle'
    BY <2>1, ItemsAssumption DEF QuietWhenIdle
  <2>6. TurnsInOrder'
    BY <2>1, <2>3 DEF TurnsInOrder, Monitored
  <2>7. ItemsInOrder'
    BY <1>1, <2>1, ItemsAssumption DEF ItemsInOrder
  <2>8. MonitorInOrder'
    BY <2>1, <2>3 DEF MonitorInOrder, Monitored
  <2>9. Channel' /\ MessagesInTurn'
    BY <2>1, <2>2, EmptyChannel
  <2>10. DoneIsTold' /\ OneMessage'
    BY <2>1, <2>4 DEF DoneIsTold, OneMessage, InHand
  <2>11. ListedIsOver'
    <3>1. \A u \in Turns : turn[u] \in Ended => turn'[u] = turn[u]
      BY <2>1, <2>3 DEF Ended
    <3>2. recovered \subseteq Turns
      BY DEF IInv, TypeOK, HistoryTypeOK
    <3>3. \A u \in Turns : turn'[u] \in Ended => turn[u] \in Ended
      BY <2>1 DEF Ended
    <3> QED BY <2>1, <3>1, <3>2, <3>3 DEF ListedIsOver
  <2> QED BY <2>5, <2>6, <2>7, <2>8, <2>9, <2>10, <2>11
<1> QED BY <1>2, <1>3

LEMMA DiesInOrder ==
  ASSUME IInv, LInv, Dies
  PROVE  LInv'
<1> USE DEF LInv, Dies, records
<1>1. /\ pc \in [Turns -> {"new", "start", "gone"} \cup Monitored] /\ \A i \in Items : TurnOf[i] \in Turns
      /\ listed \in [Turns -> SUBSET Items] /\ mending \in Turns \cup {None}
  BY MapsAssumption DEF IInv, TypeOK, MonitorTypeOK, RecordsTypeOK
<1>2. \A u \in Turns : pc'[u] \in {"new", "gone"} /\ pc'[u] \notin Monitored /\ (pc'[u] = "new" => pc[u] = "new")
  BY DEF Monitored
<1>3. \A i \in Items : /\ ~Followed(i)' /\ phase'[i] \notin {"open", "asking"}
                       /\ phase'[i] = phase[i] \/ (phase'[i] = "dropped" /\ phase[i] # "new")
  BY <1>1, <1>2 DEF Followed
<1>4. QuietWhenIdle' /\ DoneIsTold' /\ OneMessage'
  BY <1>2, <1>3 DEF QuietWhenIdle, DoneIsTold, OneMessage
<1>5. TurnsInOrder'
  BY <1>2, ItemsAssumption DEF TurnsInOrder
<1>6. ItemsInOrder' /\ MonitorInOrder'
  BY <1>1, <1>2, <1>3 DEF ItemsInOrder, MonitorInOrder
<1>7. Channel' /\ MessagesInTurn'
  BY EmptyChannel
<1>8. ListedIsOver'
  <2>1. \A u \in Turns : u \in torn \/ u = mending => u \in torn'
    BY ItemsAssumption
  <2>2. \A i \in Items : phase[i] = "dropped" => phase'[i] = "dropped"
    BY <1>3
  <2> QED BY <1>1, <2>1, <2>2 DEF ListedIsOver
<1> QED BY <1>4, <1>5, <1>6, <1>7, <1>8

(* What a recovery writes, the process being down or recovering. *)
LEMMA RecoveryInOrder ==
  ASSUME IInv, LInv, Recovery
  PROVE  LInv'
<1> USE DEF LInv
<1>1. /\ turn \in [Turns -> Statuses] /\ item \in [Items -> Statuses]
      /\ listed \in [Turns -> SUBSET Items] /\ \A i \in Items : TurnOf[i] \in Turns
      /\ recovered \subseteq Turns /\ mending \in Turns \cup {None}
  BY MapsAssumption DEF IInv, TypeOK, RecordsTypeOK, HistoryTypeOK
<1>2. /\ process # "up"
      /\ UNCHANGED <<listed, active, evicted, pc, on, message, busy, phase, events, torn>>
  BY DEF Recovery, Boot, RecoveredTurn, Serve, RecoverTurn, RecoverItem, records, table, monitor,
     engine, history
<1>3. busy = None /\ events = <<>> /\ \A u \in Turns : pc[u] \notin Monitored /\ pc[u] \in {"new", "gone"}
  BY <1>2 DEF QuietWhenIdle, TurnsInOrder
<1>4. \A i \in Items : ~Followed(i)'
  BY <1>1, <1>2, <1>3 DEF Followed
<1>5. QuietWhenIdle' /\ DoneIsTold' /\ OneMessage'
  BY <1>2, <1>3, <1>4 DEF QuietWhenIdle, DoneIsTold, OneMessage
<1>6. Channel' /\ MessagesInTurn'
  BY <1>2, <1>3, EmptyChannel
<1>7. ASSUME NEW t \in Turns, RecoverTurn(t)
      PROVE  TurnsInOrder' /\ ItemsInOrder' /\ MonitorInOrder' /\ ListedIsOver'
  <2>1. /\ process = "recovering" /\ process' = process /\ mending = None /\ mending' = t
        /\ turn[t] = "InProgress" /\ turn'[t] = "Interrupted" /\ \A u \in Turns \ {t} : turn'[u] = turn[u]
        /\ UNCHANGED <<item, recovered>>
    BY <1>1, <1>7 DEF RecoverTurn, history
  <2>2. TurnsInOrder'
    BY <1>2, <1>3, <2>1 DEF TurnsInOrder
  <2>3. ItemsInOrder' /\ MonitorInOrder'
    BY <1>2, <2>1 DEF ItemsInOrder, MonitorInOrder
  <2>4. ListedIsOver'
    BY <1>1, <1>2, <2>1, ItemsAssumption DEF ListedIsOver, Ended
  <2> QED BY <2>2, <2>3, <2>4
<1>8. ASSUME NEW i \in Items, RecoverItem(i)
      PROVE  TurnsInOrder' /\ ItemsInOrder' /\ MonitorInOrder' /\ ListedIsOver'
  <2>1. /\ item[i] = "InProgress" /\ item'[i] = "Interrupted" /\ \A j \in Items \ {i} : item'[j] = item[j]
        /\ UNCHANGED <<process, mending, turn, recovered>>
    BY <1>1, <1>8 DEF RecoverItem, ToMend, history
  <2>2. TurnsInOrder'
    BY <1>2, <2>1 DEF TurnsInOrder
  <2>3. ItemsInOrder'
    BY <1>2, <2>1 DEF ItemsInOrder
  <2>4. MonitorInOrder'
    <3>1. message \in Items \cup {None}
      BY DEF IInv, TypeOK, MonitorTypeOK
    <3> QED BY <1>2, <1>3, <2>1, <3>1 DEF MonitorInOrder
  <2>5. ListedIsOver'
    BY <1>1, <1>2, <2>1 DEF ListedIsOver
  <2> QED BY <2>2, <2>3, <2>4, <2>5
<1>9. ASSUME Boot \/ Serve \/ RecoveredTurn
      PROVE  TurnsInOrder' /\ ItemsInOrder' /\ MonitorInOrder' /\ ListedIsOver'
  <2>1. UNCHANGED <<turn, item>>
    BY <1>9 DEF Boot, Serve, RecoveredTurn, records
  <2>2. TurnsInOrder' /\ ItemsInOrder' /\ MonitorInOrder'
    BY <1>2, <1>3, <2>1 DEF TurnsInOrder, ItemsInOrder, MonitorInOrder
  <2>3. CASE Boot \/ Serve
    <3>1. /\ mending = None /\ UNCHANGED <<mending, recovered>>
      BY <2>3 DEF Boot, Serve, ListedIsOver, history
    <3> QED BY <1>2, <2>1, <2>2, <3>1 DEF ListedIsOver
  <2>4. CASE RecoveredTurn
    <3>1. /\ mending \in Turns /\ turn[mending] \in Ended /\ mending' = None
          /\ recovered' = recovered \cup {mending} /\ \A i \in listed[mending] : item[i] # "InProgress"
      BY <1>1, <2>4 DEF RecoveredTurn, ToMend, ListedIsOver
    <3>2. \A t \in recovered' : turn[t] \in Ended
      BY <3>1 DEF ListedIsOver
    <3>3. \A t \in Turns : \A i \in listed[t] :
            /\ TurnOf[i] = t
            /\ turn[t] \in Ended /\ item[i] = "InProgress" =>
                 t \in torn \/ (phase[i] = "dropped" /\ t \notin recovered')
      BY <3>1 DEF ListedIsOver
    <3> QED BY <1>2, <2>1, <2>2, <3>1, <3>2, <3>3 DEF ListedIsOver
  <2> QED BY <1>9, <2>3, <2>4
<1> QED BY <1>5, <1>6, <1>7, <1>8, <1>9 DEF Recovery

(* What a turn lists is over when the turn is, except what the engine      *)
(* stopped telling of, and what a recovery that died left; a turn a boot   *)
(* did recover lists nothing in progress (monitor_turn's last writes       *)
(* against the channel of events, and recover_interrupted_state).          *)
THEOREM ItemsCorrect == Spec => []ItemsEndWithTheirTurn
<1>1. Init => LInv
  <2> SUFFICES ASSUME Init PROVE LInv
    OBVIOUS
  <2>1. \A k, w, i : ~Stands(events, k, w, i)
    BY DEF Init, Stands
  <2>2. EndComesLast /\ StartsInTurn /\ StartsOnce /\ DoneLater /\ MessagesInTurn
    BY <2>1 DEF EndComesLast, StartsInTurn, StartsOnce, DoneLater, MessagesInTurn, Says
  <2>3. \A i \in Items : TurnOf[i] \in Turns
    BY MapsAssumption
  <2>4. QuietWhenIdle /\ TurnsInOrder /\ ItemsInOrder /\ MonitorInOrder /\ DoneIsTold /\ OneMessage
    BY <2>3, ItemsAssumption
    DEF Init, QuietWhenIdle, TurnsInOrder, ItemsInOrder, MonitorInOrder, DoneIsTold, OneMessage,
        InHand, Monitored
  <2> QED BY <2>2, <2>4 DEF Init, LInv, Channel, ListedIsOver
<1>2. IInv /\ LInv /\ [Next]_vars => LInv'
  <2> SUFFICES ASSUME IInv, LInv, [Next]_vars PROVE LInv'
    OBVIOUS
  <2>1. ASSUME Crash \/ BootFails PROVE LInv'
    BY <2>1, DiesInOrder DEF Crash, BootFails
  <2>2. ASSUME NEW t \in Turns, Monitor(t) \/ MonitorFails(t) PROVE LInv'
    BY <2>2, HearInOrder, AttachInOrder, StoreInOrder, WaitingInOrder DEF Monitor
  <2> QED BY <2>1, <2>2, StartReadInOrder, StartInOrder, EngineKeepsOrder, OthersInOrder, RecoveryInOrder
      DEF Next, Recovery
<1>3. LInv => ItemsEndWithTheirTurn
  <2> SUFFICES ASSUME LInv, process = "up", NEW t \in Turns, NEW i \in listed[t],
                      turn[t] \in Ended, item[i] = "InProgress"
               PROVE  t \in torn \/ (phase[i] = "dropped" /\ t \notin recovered)
    BY DEF ItemsEndWithTheirTurn
  <2>1. t # mending
    BY ItemsAssumption DEF LInv, ListedIsOver
  <2> QED BY <2>1 DEF LInv, ListedIsOver
<1> QED BY InductiveInvariant, <1>1, <1>2, <1>3, PTL DEF Spec
=============================================================================

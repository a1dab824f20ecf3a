------------------------ MODULE TaskExecution_proofs ------------------------
(***************************************************************************)
(* Proofs about TaskExecution for any tasks, workers, notes, faults and    *)
(* deaths.                                                                 *)
(*                                                                         *)
(* Nothing here depends on how far the executor has read: what it answers  *)
(* it takes from a turn.completed in the file, and such an event is there  *)
(* only once the turn has its last status (Monitoring).  What is left are  *)
(* the executors that answer without having seen one (Answered).           *)
(* Only the types need to know how far it has read (LatestIsLast).         *)
(***************************************************************************)
EXTENDS TaskExecution, FiniteSetTheorems, WellFoundedInduction, TLAPS

Types ==
  /\ up \in BOOLEAN
  /\ status \in [Tasks -> {"Queued", "Running"} \cup Final]
  /\ pc \in [Tasks -> {"none", "poll", "read", "done"} \cup Starting \cup Telling]
  /\ answer \in [Tasks -> Final]
  /\ turn \in [Tasks -> {"absent", "InProgress"} \cup Outcomes]
  /\ engine \in [Tasks -> {"none", "works", "Completed", "Failed"}]
  /\ monitor \in [Tasks -> {"none", "listen", "noteText", "noteLine", "store", "announce",
                            "endText", "endLine", "clear"}]
  /\ heard \in [Tasks -> Outcomes]
  /\ log \in [Tasks -> SUBSET [seq : Nat, what : {"note", "end"}]]
  /\ drawn \in [Tasks -> Nat] /\ hand \in [Tasks -> [Writers -> Nat]]
  /\ crashes \in Nat

Ended(t) == \E e \in log[t] : e.what = "end"
Quiet(t) == engine[t] = "none" /\ monitor[t] = "none"

(* How far the turn is, by where the executor stands. *)
Phases(t) ==
  /\ pc[t] # "none" => up /\ status[t] = "Running"
  /\ up /\ status[t] = "Running" => pc[t] # "none"
  /\ status[t] = "Queued" \/ pc[t] \in {"load", "save"} => turn[t] = "absent"
  /\ pc[t] \in {"register", "send"} => turn[t] = "InProgress" /\ Quiet(t)
  /\ turn[t] = "absent" => Quiet(t) /\ ~Ended(t)
  /\ ~up => Quiet(t) /\ crashes > 0

(* What is told of the turn is what is stored of it, and told after it. *)
Monitoring(t) ==
  /\ monitor[t] \in {"listen", "noteText", "noteLine", "store"} => turn[t] = "InProgress"
  /\ monitor[t] \in {"announce", "endText"} => turn[t] = heard[t]
  /\ turn[t] = "InProgress" => ~Ended(t)
  /\ Ended(t) => turn[t] = heard[t]
  /\ turn[t] # "InProgress" \/ monitor[t] = "store" => engine[t] # "works"

(* A failure that is not the turn's: of its start, or of a read. *)
Gone(t) == turn[t] \in {"absent", "InProgress"} /\ Quiet(t)

(* What the executor is about to report. *)
Answered(t) ==
  pc[t] = "done" =>
    /\ answer[t] = "Completed" => turn[t] = "Completed"
    /\ answer[t] = "Canceled" => turn[t] = "Interrupted"
    /\ answer[t] = "Failed" => t \in garbled \/ turn[t] = "Failed" \/ Gone(t)

(* What was reported. *)
Stored(t) ==
  /\ status[t] = "Completed" => turn[t] = "Completed" /\ t \notin canceled
  /\ status[t] = "Canceled" =>
       turn[t] \in {"absent", "Interrupted"} \/ (turn[t] = "Completed" /\ t \in canceled)
  /\ status[t] = "Failed" =>
       t \in garbled \/ turn[t] = "Failed" \/ Gone(t) \/ (crashes > 0 /\ engine[t] # "works")

Sound(t) == Phases(t) /\ Monitoring(t) /\ Answered(t) /\ Stored(t)

IInv == Types /\ \A t \in Tasks : Sound(t)

(* What Sound says of a task, left alone. *)
Same(t) ==
  /\ <<up, crashes>>' = <<up, crashes>>
  /\ status'[t] = status[t] /\ (t \in canceled' <=> t \in canceled)
  /\ pc'[t] = pc[t] /\ answer'[t] = answer[t]
  /\ turn'[t] = turn[t] /\ engine'[t] = engine[t]
  /\ monitor'[t] = monitor[t] /\ heard'[t] = heard[t]
  /\ log'[t] = log[t] /\ (t \in garbled' <=> t \in garbled)

Others(t) == \A u \in Tasks \ {t} : Same(u)

-----------------------------------------------------------------------------
LEMMA InitInv == Init => IInv
BY DEF Init, IInv, Types, Sound, Phases, Monitoring, Answered, Stored, Ended, Quiet, Final, Gone,
       Outcomes, Writers

LEMMA SameSound ==
  ASSUME NEW t, Sound(t), Same(t)
  PROVE  Sound(t)'
BY DEF Same, Sound, Phases, Monitoring, Answered, Stored, Gone, Ended, Quiet

LEMMA OneTask ==
  ASSUME IInv, NEW t \in Tasks, Types', Sound(t)', Others(t)
  PROVE  IInv'
<1>1. ASSUME NEW u \in Tasks, u # t PROVE Sound(u)'
  BY <1>1, SameSound DEF IInv, Others
<1> QED BY <1>1 DEF IInv

-----------------------------------------------------------------------------
(* The log. *)
LEMMA DrawTypes ==
  ASSUME Types, NEW t \in Tasks, NEW w \in Writers, Draw(t, w)
  PROVE  drawn' \in [Tasks -> Nat] /\ hand' \in [Tasks -> [Writers -> Nat]] /\ log' = log
BY DEF Types, Draw

LEMMA TextTypes ==
  ASSUME Types, NEW t \in Tasks, NEW w \in Writers, NEW what \in {"note", "end"},
         WriteText(t, w, what)
  PROVE  /\ log' \in [Tasks -> SUBSET [seq : Nat, what : {"note", "end"}]]
         /\ drawn' = drawn /\ hand' = hand
<1>1. hand[t][w] \in Nat
  BY DEF Types
<1>2. [seq |-> hand[t][w], what |-> what] \in [seq : Nat, what : {"note", "end"}]
  BY <1>1
<1> QED BY <1>2 DEF Types, WriteText

-----------------------------------------------------------------------------
(* The manager. *)
LEMMA ManagerKeeps ==
  ASSUME IInv, NEW t \in Tasks, StartTask(t) \/ CancelTask(t) \/ FinishTask(t)
  PROVE  IInv'
<1>1. Types'
  BY DEF IInv, Types, StartTask, CancelTask, FinishTask, Result, Goto, At, Final, Starting,
         executor, table, turns, files, bounds
<1>2. Others(t)
  BY DEF IInv, Types, Others, Same, StartTask, CancelTask, FinishTask, Goto, executor, table,
         turns, files, bounds
<1>3. Sound(t)'
  <2>1. CASE StartTask(t)
    BY <2>1 DEF IInv, Types, Sound, Phases, Monitoring, Answered, Stored, Gone, Ended, Quiet,
                StartTask, Goto, table, turns, files, bounds
  <2>2. CASE CancelTask(t)
    BY <2>2 DEF IInv, Types, Sound, Phases, Monitoring, Answered, Stored, Gone, Ended, Quiet,
                CancelTask, executor, table, turns, files, bounds
  <2>3. CASE FinishTask(t)
    BY <2>3 DEF IInv, Types, Sound, Phases, Monitoring, Answered, Stored, Gone, Ended, Quiet,
                FinishTask, At, Goto, Result, Final, table, turns, files, bounds
  <2> QED BY <2>1, <2>2, <2>3
<1> QED BY <1>1, <1>2, <1>3, OneTask

(* create_thread and start_turn. *)
LEMMA StartKeeps ==
  ASSUME IInv, NEW t \in Tasks,
         Load(t) \/ Evict(t) \/ Save(t) \/ Register(t) \/ Send(t) \/ StartFails(t)
  PROVE  IInv'
<1> SUFFICES Types' /\ Sound(t)' /\ Others(t)
  BY OneTask
<1>1. CASE Load(t)
  <2>1. Types' /\ Others(t)
    BY <1>1 DEF IInv, Types, Others, Same, Load, At, Goto, Starting, tasks, turns, files, bounds
  <2>2. Sound(t)'
    BY <1>1 DEF IInv, Types, Sound, Phases, Monitoring, Answered, Stored, Gone, Ended, Quiet,
                Load, At, Goto, Starting, tasks, turns, files, bounds
  <2> QED BY <2>1, <2>2
<1>2. CASE Evict(t)
  <2>1. Types' /\ Others(t)
    BY <1>2 DEF IInv, Types, Others, Same, Evict, tasks, executor, turns, files, bounds
  <2>2. Sound(t)'
    BY <1>2 DEF IInv, Types, Sound, Phases, Monitoring, Answered, Stored, Gone, Ended, Quiet,
                Evict, tasks, executor, turns, files, bounds
  <2> QED BY <2>1, <2>2
<1>3. CASE Save(t)
  <2>1. Types' /\ Others(t)
    BY <1>3 DEF IInv, Types, Others, Same, Save, At, Goto, Starting, Outcomes, tasks, table,
                files, bounds
  <2>2. Sound(t)'
    BY <1>3 DEF IInv, Types, Sound, Phases, Monitoring, Answered, Stored, Gone, Ended, Quiet,
                Save, At, Goto, Starting, Outcomes, tasks, table, files, bounds
  <2> QED BY <2>1, <2>2
<1>4. CASE Register(t)
  <2>1. Types'
    BY <1>4 DEF IInv, Types, Register, Answers, At, Goto, Starting, Final, tasks, turns, files,
                bounds
  <2>2. Others(t)
    <3>1. UNCHANGED <<up, crashes, status, canceled, turn, engine, monitor, heard, log, garbled>>
      BY <1>4 DEF Register, tasks, turns, files, bounds
    <3>2. \A u \in Tasks \ {t} : pc'[u] = pc[u] /\ answer'[u] = answer[u]
      BY <1>4 DEF IInv, Types, Register, Answers, Goto
    <3> QED BY <3>1, <3>2 DEF Others, Same
  <2>3. Sound(t)'
    BY <1>4 DEF IInv, Types, Sound, Phases, Monitoring, Answered, Stored, Gone, Ended, Quiet,
                Register, Answers, At, Goto, Starting, Final, tasks, turns, files, bounds
  <2> QED BY <2>1, <2>2, <2>3
<1>5. CASE Send(t)
  <2>1. Types' /\ Others(t)
    BY <1>5 DEF IInv, Types, Others, Same, Send, At, Goto, Starting, tasks, table, files, bounds
  <2>2. Sound(t)'
    BY <1>5 DEF IInv, Types, Sound, Phases, Monitoring, Answered, Stored, Gone, Ended, Quiet,
                Send, At, Goto, Starting, tasks, table, files, bounds
  <2> QED BY <2>1, <2>2
<1>6. CASE StartFails(t)
  <2>1. Types' /\ Others(t)
    BY <1>6 DEF IInv, Types, Others, Same, StartFails, Answers, Goto, Fault, Starting, Final,
                tasks, table, turns, files
  <2>2. Sound(t)'
    BY <1>6 DEF IInv, Types, Sound, Phases, Monitoring, Answered, Stored, Gone, Ended, Quiet,
                StartFails, Answers, Goto, Fault, Starting, Final, tasks, table, turns, files
  <2> QED BY <2>1, <2>2
<1> QED BY <1>1, <1>2, <1>3, <1>4, <1>5, <1>6

(* The loop of the executor. *)
LEMMA LoopKeeps ==
  ASSUME IInv, NEW t \in Tasks,
         RequestInterrupt(t) \/ TellInterrupt(t) \/ TellingFails(t) \/ Read(t)
  PROVE  IInv'
<1> SUFFICES Types' /\ Sound(t)' /\ Others(t)
  BY OneTask
<1>1. CASE RequestInterrupt(t)
  <2>1. Types' /\ Others(t)
    BY <1>1 DEF IInv, Types, Others, Same, RequestInterrupt, At, Goto, Starting, Telling, tasks,
                turns, files, bounds
  <2>2. Sound(t)'
    BY <1>1 DEF IInv, Types, Sound, Phases, Monitoring, Answered, Stored, Gone, Ended, Quiet,
                RequestInterrupt, At, Goto, Starting, Telling, tasks, turns, files, bounds
  <2> QED BY <2>1, <2>2
<1>2. CASE TellInterrupt(t)
  <2> DEFINE Logs == /\ log' \in [Tasks -> SUBSET [seq : Nat, what : {"note", "end"}]]
                     /\ drawn' \in [Tasks -> Nat] /\ hand' \in [Tasks -> [Writers -> Nat]]
  <2>1. Logs
    BY <1>2, DrawTypes, TextTypes DEF IInv, Types, TellInterrupt, EndLine, Writers
  <2>2. Types'
    BY <1>2, <2>1 DEF IInv, Types, TellInterrupt, Goto, Telling, tasks, table, turns, bounds
  <2>3. Others(t)
    BY <1>2 DEF IInv, Types, Others, Same, TellInterrupt, Goto, Draw, WriteText, EndLine, tasks,
                table, turns, bounds
  <2>4. Types' /\ Others(t)
    BY <2>2, <2>3
  <2>5. Sound(t)'
    BY <1>2 DEF IInv, Types, Sound, Phases, Monitoring, Answered, Stored, Gone, Ended, Quiet,
                TellInterrupt, At, Goto, Draw, WriteText, EndLine, Writers, Starting, Telling,
                tasks, table, turns, bounds
  <2> QED BY <2>4, <2>5
<1>3. CASE TellingFails(t)
  <2>1. Types' /\ Others(t)
    BY <1>3 DEF IInv, Types, Others, Same, TellingFails, Goto, Fault, Torn, Starting, Telling,
                tasks, table, turns
  <2>2. Sound(t)'
    BY <1>3 DEF IInv, Types, Sound, Phases, Monitoring, Answered, Stored, Gone, Ended, Quiet,
                TellingFails, Goto, Fault, Torn, Starting, Telling, tasks, table, turns
  <2> QED BY <2>1, <2>2
<1>4. CASE Read(t)
  <2>1. Types' /\ Others(t)
    BY <1>4 DEF IInv, Types, Others, Same, Read, Answers, AnswerOf, Heard, Batch, At, Goto,
                Starting, Final, Outcomes, tasks, table, turns, files, bounds
  <2>2. Sound(t)'
    BY <1>4 DEF IInv, Types, Sound, Phases, Monitoring, Answered, Stored, Gone, Ended, Quiet,
                Read, Answers, AnswerOf, Heard, Batch, At, Goto, Starting, Final, Outcomes, tasks,
                table, turns, files, bounds
  <2> QED BY <2>1, <2>2
<1> QED BY <1>1, <1>2, <1>3, <1>4

(* The engine and the monitor. *)
LEMMA TurnKeeps ==
  ASSUME IInv, NEW t \in Tasks,
         \/ \E r \in {"Completed", "Failed"} : EngineEnds(t, r)
         \/ Note(t) \/ HearEnd(t) \/ Store(t) \/ Announce(t)
  PROVE  IInv'
<1> SUFFICES Types' /\ Sound(t)' /\ Others(t)
  BY OneTask
<1>1. CASE \E r \in {"Completed", "Failed"} : EngineEnds(t, r)
  <2>1. Types' /\ Others(t)
    BY <1>1 DEF IInv, Types, Others, Same, EngineEnds, tasks, executor, table, files, bounds
  <2>2. Sound(t)'
    BY <1>1 DEF IInv, Types, Sound, Phases, Monitoring, Answered, Stored, Gone, Ended, Quiet,
                EngineEnds, tasks, executor, table, files, bounds
  <2> QED BY <2>1, <2>2
<1>2. CASE Note(t)
  <2>1. Types' /\ Others(t)
    BY <1>2 DEF IInv, Types, Others, Same, Note, MonitorAt, MonitorGoto, Draw, Writers, tasks,
                executor, table, bounds
  <2>2. Sound(t)'
    BY <1>2 DEF IInv, Types, Sound, Phases, Monitoring, Answered, Stored, Gone, Ended, Quiet,
                Note, MonitorAt, MonitorGoto, Draw, Writers, tasks, executor, table, bounds
  <2> QED BY <2>1, <2>2
<1>3. CASE HearEnd(t)
  <2>1. Types' /\ Others(t)
    BY <1>3 DEF IInv, Types, Others, Same, HearEnd, MonitorAt, MonitorGoto, Outcomes, tasks,
                executor, table, files, bounds
  <2>2. Sound(t)'
    BY <1>3 DEF IInv, Types, Sound, Phases, Monitoring, Answered, Stored, Gone, Ended, Quiet,
                HearEnd, MonitorAt, MonitorGoto, Outcomes, tasks, executor, table, files, bounds
  <2> QED BY <2>1, <2>2
<1>4. CASE Store(t)
  <2>1. Types' /\ Others(t)
    BY <1>4 DEF IInv, Types, Others, Same, Store, MonitorAt, MonitorGoto, Outcomes, Starting,
                tasks, executor, table, files, bounds
  <2>2. Sound(t)'
    BY <1>4 DEF IInv, Types, Sound, Phases, Monitoring, Answered, Stored, Gone, Ended, Quiet,
                Store, MonitorAt, MonitorGoto, Outcomes, Starting, tasks, executor, table, files,
                bounds
  <2> QED BY <2>1, <2>2
<1>5. CASE Announce(t)
  <2>1. Types' /\ Others(t)
    BY <1>5 DEF IInv, Types, Others, Same, Announce, MonitorAt, MonitorGoto, Draw, Writers,
                tasks, executor, table, bounds
  <2>2. Sound(t)'
    BY <1>5 DEF IInv, Types, Sound, Phases, Monitoring, Answered, Stored, Gone, Ended, Quiet,
                Announce, MonitorAt, MonitorGoto, Draw, Writers, tasks, executor, table, bounds
  <2> QED BY <2>1, <2>2
<1> QED BY <1>1, <1>2, <1>3, <1>4, <1>5

(* The line of an event, and the last step. *)
LEMMA TellingKeeps ==
  ASSUME IInv, NEW t \in Tasks,
         WriteEvent(t) \/ Clear(t) \/ MonitorFails(t)
  PROVE  IInv'
<1> SUFFICES Types' /\ Sound(t)' /\ Others(t)
  BY OneTask
<1>1. CASE WriteEvent(t)
  <2> DEFINE Logs == /\ log' \in [Tasks -> SUBSET [seq : Nat, what : {"note", "end"}]]
                     /\ drawn' \in [Tasks -> Nat] /\ hand' \in [Tasks -> [Writers -> Nat]]
  <2>1. Logs
    BY <1>1, TextTypes DEF IInv, Types, WriteEvent, EndLine, Writers
  <2>2. Types'
    BY <1>1, <2>1 DEF IInv, Types, WriteEvent, MonitorGoto, tasks, executor, table, bounds
  <2>3. Others(t)
    BY <1>1 DEF IInv, Types, Others, Same, WriteEvent, MonitorGoto, WriteText, EndLine, tasks,
                executor, table, bounds
  <2>4. Types' /\ Others(t)
    BY <2>2, <2>3
  <2>5. Sound(t)'
    BY <1>1 DEF IInv, Types, Sound, Phases, Monitoring, Answered, Stored, Gone, Ended, Quiet,
                WriteEvent, MonitorAt, MonitorGoto, WriteText, EndLine, Writers, Outcomes, tasks,
                executor, table, bounds
  <2> QED BY <2>4, <2>5
<1>2. CASE Clear(t)
  <2>1. Types' /\ Others(t)
    BY <1>2 DEF IInv, Types, Others, Same, Clear, MonitorAt, MonitorGoto, tasks, executor, files,
                bounds
  <2>2. Sound(t)'
    BY <1>2 DEF IInv, Types, Sound, Phases, Monitoring, Answered, Stored, Gone, Ended, Quiet,
                Clear, MonitorAt, MonitorGoto, tasks, executor, files, bounds
  <2> QED BY <2>1, <2>2
<1>3. CASE MonitorFails(t)
  <2>1. Types' /\ Others(t)
    BY <1>3 DEF IInv, Types, Others, Same, MonitorFails, MonitorGoto, Fault, Torn, tasks,
                executor, table
  <2>2. Sound(t)'
    BY <1>3 DEF IInv, Types, Sound, Phases, Monitoring, Answered, Stored, Gone, Ended, Quiet,
                MonitorFails, MonitorGoto, Fault, Torn, tasks, executor, table
  <2> QED BY <2>1, <2>2
<1> QED BY <1>1, <1>2, <1>3

-----------------------------------------------------------------------------
(* A death and a boot reach every task. *)
LEMMA CrashKeeps == ASSUME IInv, Crash PROVE IInv'
<1>1. crashes' \in Nat
  BY DEF IInv, Types, Crash
<1>2. /\ pc' \in [Tasks -> {"none"}] /\ engine' \in [Tasks -> {"none"}]
      /\ monitor' \in [Tasks -> {"none"}]
  BY DEF Crash
<1>3. Types'
  BY <1>1, <1>2 DEF IInv, Types, Crash, tasks, files
<1>4. ASSUME NEW t \in Tasks PROVE Sound(t)'
  BY DEF IInv, Types, Sound, Phases, Monitoring, Answered, Stored, Gone, Ended, Quiet, Crash,
         tasks, files
<1> QED BY <1>3, <1>4 DEF IInv

LEMMA BootKeeps == ASSUME IInv, Boot PROVE IInv'
<1>1. Types'
  BY DEF IInv, Types, Boot, Final, Outcomes, executor, files, bounds
<1>2. ASSUME NEW t \in Tasks PROVE Sound(t)'
  BY DEF IInv, Types, Sound, Phases, Monitoring, Answered, Stored, Gone, Ended, Quiet, Boot,
         Final, Outcomes, executor, files, bounds
<1> QED BY <1>1, <1>2 DEF IInv

LEMMA StutterKeeps == ASSUME IInv, UNCHANGED vars PROVE IInv'
<1>1. Types'
  BY DEF IInv, Types, vars, tasks, executor, turns, files, bounds
<1>2. ASSUME NEW t \in Tasks PROVE Same(t)
  BY DEF Same, vars, tasks, executor, turns, files, bounds
<1> QED BY <1>1, <1>2, SameSound DEF IInv

LEMMA StepInv == IInv /\ [Next]_vars => IInv'
<1> SUFFICES ASSUME IInv, [Next]_vars PROVE IInv'
  OBVIOUS
<1>1. CASE Crash \/ Boot \/ UNCHANGED vars
  BY <1>1, CrashKeeps, BootKeeps, StutterKeeps
<1>2. ASSUME NEW t \in Tasks,
             \/ StartTask(t) \/ CancelTask(t) \/ Executor(t) \/ Monitor(t) \/ Work(t)
             \/ Evict(t) \/ StartFails(t) \/ TellingFails(t) \/ MonitorFails(t)
      PROVE  IInv'
  BY <1>2, ManagerKeeps, StartKeeps, LoopKeeps, TurnKeeps, TellingKeeps
     DEF Executor, Monitor, Work
<1> QED BY <1>1, <1>2 DEF Next

LEMMA Invariance == Spec => []IInv
BY InitInv, StepInv, PTL DEF Spec

-----------------------------------------------------------------------------
(* A durable task ends as its turn did, for any tasks, faults and deaths:  *)
(* finish_task reports what the executor took from the file, which only    *)
(* ever tells what save_turn had stored.                                   *)
THEOREM FollowsCorrect == Spec => []TaskFollowsTurn
<1>1. IInv => TaskFollowsTurn
  BY DEF IInv, Sound, Stored, Gone, TaskFollowsTurn
<1> QED BY <1>1, Invariance, PTL

(* No engine works for a task that is over, unless its log cannot be read: *)
(* the executor's other ways out leave before the engine was asked or      *)
(* after it had answered.                                                  *)
THEOREM AttendedCorrect == Spec => []NoneUnattended
<1>1. IInv => NoneUnattended
  BY DEF IInv, Types, Sound, Phases, Monitoring, Stored, Gone, Quiet, Final, NoneUnattended
<1> QED BY <1>1, Invariance, PTL

-----------------------------------------------------------------------------
(* The executor's place in the file, and TypeOK.                           *)

(* A nonempty set of naturals has a least element. *)
LEMMA LeastNatural ==
  ASSUME NEW S \in SUBSET Nat, S # {}
  PROVE  \E i \in S : \A j \in S : i <= j
<1> DEFINE Below == {0..n : n \in S}
<1>1. Below \subseteq FiniteSubsetsOf(Nat)
  <2>1. ASSUME NEW n \in S PROVE 0..n \in SUBSET Nat /\ IsFiniteSet(0..n)
    BY FS_Interval
  <2> QED BY <2>1 DEF FiniteSubsetsOf
<1>2. Below # {}
  OBVIOUS
<1>3. IsWellFoundedOn(StrictSubsetOrdering(Nat), FiniteSubsetsOf(Nat))
  BY FS_StrictSubsetOrderingWellFounded
<1>4. PICK b \in Below : \A c \in Below : <<c, b>> \notin StrictSubsetOrdering(Nat)
  <2> HIDE DEF Below
  <2> QED BY <1>1, <1>2, <1>3, WFMin
<1>5. PICK n \in S : b = 0..n
  OBVIOUS
<1>6. ASSUME NEW m \in S, m < n PROVE FALSE
  <2>1. 0..m \in Below
    OBVIOUS
  <2>2. <<0..m, 0..n>> \in StrictSubsetOrdering(Nat)
    BY <1>6 DEF StrictSubsetOrdering
  <2> QED BY <1>4, <1>5, <2>1, <2>2
<1> QED BY <1>6

(* So a bounded one has a greatest. *)
LEMMA GreatestNatural ==
  ASSUME NEW S \in SUBSET Nat, S # {}, NEW b \in Nat, \A x \in S : x <= b
  PROVE  \E i \in S : \A j \in S : j <= i
<1> DEFINE U == {u \in Nat : \A x \in S : x <= u}
<1>1. U \in SUBSET Nat /\ U # {}
  OBVIOUS
<1>2. PICK u \in U : \A v \in U : u <= v
  <2> HIDE DEF U
  <2> QED BY <1>1, LeastNatural
<1>3. u \in S
  <2> SUFFICES ASSUME u \notin S PROVE FALSE
    OBVIOUS
  <2>1. \A x \in S : x <= u - 1
    OBVIOUS
  <2>2. u - 1 \in U
    <3>1. PICK x \in S : TRUE
      OBVIOUS
    <3>2. u - 1 \in Nat
      BY <2>1, <3>1
    <3> QED BY <2>1, <3>2
  <2> QED BY <1>2, <2>2
<1> QED BY <1>3

(* The numbers of a file, and those in hand, were drawn. *)
Bounded ==
  \A t \in Tasks : /\ \A w \in Writers : hand[t][w] <= drawn[t]
                   /\ \A e \in log[t] : e.seq <= drawn[t]

Rest ==
  /\ canceled \subseteq Tasks /\ cancel_requested \subseteq Tasks
  /\ seen_seq \in [Tasks -> Nat] /\ notes \in [Tasks -> 0..MaxNotes]
  /\ loaded \subseteq Tasks /\ active \subseteq Tasks /\ flagged \subseteq Tasks
  /\ open \subseteq Tasks /\ garbled \subseteq Tasks
  /\ faults \in 0..MaxFaults /\ crashes \in 0..MaxCrashes

(* So a read has a last event, which the next one goes on from. *)
LEMMA LatestIsLast ==
  ASSUME Types, Rest, Bounded, NEW t \in Tasks
  PROVE  /\ Latest(t) \in Nat /\ seen_seq[t] <= Latest(t)
         /\ \A e \in Batch(t) : e.seq <= Latest(t)
<1> DEFINE S == {seen_seq[t]} \cup {e.seq : e \in Batch(t)}
           b == seen_seq[t] + drawn[t]
<1>1. seen_seq[t] \in Nat /\ drawn[t] \in Nat
      /\ \A e \in Batch(t) : e.seq \in Nat /\ e.seq <= drawn[t] /\ seen_seq[t] < e.seq
  BY DEF Types, Rest, Bounded, Batch
<1>2. S \in SUBSET Nat /\ S # {} /\ b \in Nat /\ \A x \in S : x <= b
  BY <1>1
<1>3. PICK n \in S : \A x \in S : x <= n
  <2> HIDE DEF S, b
  <2> QED BY <1>2, GreatestNatural
<1>4. \E m \in S : \A e \in Batch(t) : e.seq <= m
  BY <1>3
<1>5. Latest(t) \in S /\ \A e \in Batch(t) : e.seq <= Latest(t)
  BY <1>4 DEF Latest
<1> HIDE DEF b
<1>6. seen_seq[t] <= Latest(t)
  BY <1>1, <1>5
<1> QED BY <1>2, <1>5, <1>6

LEMMA FilesBounded ==
  ASSUME Types, Bounded, NEW t \in Tasks,
         \/ UNCHANGED files
         \/ \E w \in Writers : Draw(t, w)
         \/ \E w \in Writers, what \in {"note", "end"} : WriteText(t, w, what)
         \/ EndLine(t) \/ Torn(t, TRUE) \/ Torn(t, FALSE)
  PROVE  Bounded'
<1>1. CASE UNCHANGED <<drawn, hand, log>>
  BY <1>1 DEF Bounded
<1>2. ASSUME NEW w \in Writers, Draw(t, w) PROVE Bounded'
  <2>1. \A u \in Tasks : /\ drawn[u] \in Nat /\ drawn'[u] = IF u = t THEN drawn[t] + 1 ELSE drawn[u]
                         /\ \A v \in Writers : hand[u][v] \in Nat
                         /\ \A e \in log[u] : e.seq \in Nat
    BY <1>2 DEF Draw, Types
  <2>2. \A u \in Tasks : \A v \in Writers :
          hand'[u][v] = IF u = t /\ v = w THEN drawn[t] + 1 ELSE hand[u][v]
    BY <1>2 DEF Draw, Types
  <2>3. log' = log
    BY <1>2 DEF Draw
  <2> QED BY <2>1, <2>2, <2>3 DEF Bounded
<1>3. ASSUME NEW w \in Writers, NEW what \in {"note", "end"}, WriteText(t, w, what) PROVE Bounded'
  BY <1>3 DEF Bounded, WriteText, Types
<1> QED BY <1>1, <1>2, <1>3 DEF EndLine, Torn, files

LEMMA RestKeeps ==
  ASSUME Types, Rest, Bounded, [Next]_vars
  PROVE  Rest' /\ Bounded'
<1> USE DEF Rest, ExecutionBounds
<1>1. ASSUME NEW t \in Tasks, StartTask(t) \/ CancelTask(t) \/ FinishTask(t) PROVE Rest' /\ UNCHANGED files
  BY <1>1 DEF StartTask, CancelTask, FinishTask, executor, table, turns, files, bounds
<1>2. ASSUME NEW t \in Tasks, Load(t) \/ Evict(t) \/ Save(t) \/ Register(t) \/ Send(t)
      PROVE  Rest' /\ UNCHANGED files
  BY <1>2 DEF Load, Evict, Save, Register, Send, tasks, executor, table, turns, files, bounds
<1>3. ASSUME NEW t \in Tasks, StartFails(t) PROVE Rest' /\ UNCHANGED files
  BY <1>3, ExecutionBounds DEF StartFails, Fault, tasks, table, turns, files
<1>4. ASSUME NEW t \in Tasks, RequestInterrupt(t) PROVE Rest' /\ UNCHANGED files
  BY <1>4 DEF RequestInterrupt, tasks, turns, files, bounds
<1>5. ASSUME NEW t \in Tasks, TellInterrupt(t)
      PROVE  /\ Rest' /\ (Draw(t, "executor") \/ WriteText(t, "executor", "note") \/ EndLine(t))
  BY <1>5 DEF TellInterrupt, Draw, WriteText, EndLine, tasks, table, turns, bounds
<1>6. ASSUME NEW t \in Tasks, TellingFails(t) PROVE Rest' /\ (Torn(t, TRUE) \/ Torn(t, FALSE))
  BY <1>6, ExecutionBounds DEF TellingFails, Fault, Torn, tasks, table, turns
<1>7. ASSUME NEW t \in Tasks, Read(t) PROVE Rest' /\ UNCHANGED files
  <2>1. Latest(t) \in Nat
    BY LatestIsLast
  <2>2. seen_seq' \in [Tasks -> Nat]
    BY <1>7, <2>1 DEF Read
  <2> QED BY <1>7, <2>2 DEF Read, tasks, table, turns, files, bounds
<1>8. ASSUME NEW t \in Tasks, Work(t) \/ HearEnd(t) \/ Store(t) \/ Clear(t) PROVE Rest' /\ UNCHANGED files
  BY <1>8 DEF Work, EngineEnds, HearEnd, Store, Clear, tasks, executor, table, files, bounds
<1>9. ASSUME NEW t \in Tasks, Note(t) PROVE Rest' /\ Draw(t, "monitor")
  <2>1. notes' \in [Tasks -> 0..MaxNotes]
    <3>1. MaxNotes \in Nat /\ notes[t] + 1 \in 0..MaxNotes
      BY <1>9, ExecutionBounds DEF Note
    <3> QED BY <1>9, <3>1 DEF Note
  <2> QED BY <1>9, <2>1 DEF Note, Draw, tasks, executor, table, bounds
<1>10. ASSUME NEW t \in Tasks, Announce(t) PROVE Rest' /\ Draw(t, "monitor")
  BY <1>10 DEF Announce, Draw, tasks, executor, table, bounds
<1>11. ASSUME NEW t \in Tasks, WriteEvent(t)
       PROVE  Rest' /\ (WriteText(t, "monitor", "note") \/ WriteText(t, "monitor", "end") \/ EndLine(t))
  BY <1>11 DEF WriteEvent, WriteText, EndLine, tasks, executor, table, bounds
<1>12. ASSUME NEW t \in Tasks, MonitorFails(t) PROVE Rest' /\ (Torn(t, TRUE) \/ Torn(t, FALSE))
  BY <1>12, ExecutionBounds DEF MonitorFails, Fault, Torn, tasks, executor, table
<1>13. CASE Crash \/ Boot \/ UNCHANGED vars
  <2>1. Rest'
    BY <1>13, ExecutionBounds DEF Crash, Boot, vars, tasks, executor, table, turns, files, bounds
  <2>2. UNCHANGED <<drawn, hand, log>>
    BY <1>13 DEF Crash, Boot, vars, files
  <2> QED BY <2>1, <2>2 DEF Bounded
<1>14. "executor" \in Writers /\ "monitor" \in Writers
  BY DEF Writers
<1> HIDE DEF Rest
<1> QED BY <1>1, <1>2, <1>3, <1>4, <1>5, <1>6, <1>7, <1>8, <1>9, <1>10, <1>11, <1>12, <1>13, <1>14,
           FilesBounded DEF Next, Executor, Monitor

(* Type correctness; what an executor has read stands at the last event of *)
(* a batch, or where it stood (events_since and the loop of execute).      *)
THEOREM TypeCorrect == Spec => []TypeOK
<1>1. Init => Rest /\ Bounded
  BY ExecutionBounds DEF Init, Rest, Bounded, Writers
<1>2. IInv /\ Rest /\ Bounded /\ [Next]_vars => (Rest /\ Bounded)'
  BY RestKeeps DEF IInv
<1>3. IInv /\ Rest => TypeOK
  BY DEF IInv, Types, Rest, TypeOK
<1> QED BY <1>1, <1>2, <1>3, Invariance, PTL DEF Spec
=============================================================================

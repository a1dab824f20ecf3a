-------------------------- MODULE TaskManager_proofs --------------------------
(***************************************************************************)
(* Proofs about TaskManager, for any finite set of task ids, any set of    *)
(* workers and any number of failed writes, crashes and panics.            *)
(***************************************************************************)
EXTENDS TaskManager, FiniteSetTheorems, SequenceTheorems, TLAPS

-----------------------------------------------------------------------------
(* Sequences.                                                              *)

(* A function on 1..n is a sequence. *)
LEMMA FunctionIsSeq ==
  ASSUME NEW S, NEW n \in Nat, NEW f \in [1..n -> S]
  PROVE  f \in Seq(S) /\ Len(f) = n /\ DOMAIN f = 1..n
BY SeqDef

(* Removing an element from a queue that holds it at most once leaves a    *)
(* queue of the others, each once.                                         *)
LEMMA WithoutProperties ==
  ASSUME NEW S, NEW q \in Seq(S), NEW t
  PROVE  /\ Without(q, t) \in Seq(S)
         /\ IsInjective(q) => /\ IsInjective(Without(q, t))
                              /\ Range(Without(q, t)) = Range(q) \ {t}
<1>1. CASE t \notin Range(q)
  BY <1>1 DEF Without
<1>2. CASE t \in Range(q)
  <2> DEFINE i == CHOOSE i \in DOMAIN q : q[i] = t
             r == [j \in 1..(Len(q) - 1) |-> IF j < i THEN q[j] ELSE q[j + 1]]
  <2>1. q \in [1..Len(q) -> S] /\ Len(q) \in Nat /\ DOMAIN q = 1..Len(q)
    BY LenProperties
  <2>2. i \in 1..Len(q) /\ q[i] = t
    BY <1>2, <2>1 DEF Range
  <2>3. Without(q, t) = r
    BY <1>2 DEF Without
  <2> HIDE DEF i
  <2>4. Len(q) - 1 \in Nat /\ r \in [1..(Len(q) - 1) -> S]
    BY <2>1, <2>2
  <2>5. r \in Seq(S) /\ DOMAIN r = 1..(Len(q) - 1)
    BY <2>4, FunctionIsSeq
  <2>6. ASSUME IsInjective(q)
        PROVE  IsInjective(r) /\ Range(r) = Range(q) \ {t}
    <3>1. IsInjective(r)
      BY <2>1, <2>2, <2>5, <2>6 DEF IsInjective
    <3>2. ASSUME NEW x \in Range(r) PROVE x \in Range(q) \ {t}
      <4>1. PICK j \in 1..(Len(q) - 1) : r[j] = x
        BY <2>5 DEF Range
      <4>2. CASE j < i
        <5>1. x = q[j] /\ j \in 1..Len(q) /\ j # i
          BY <4>1, <4>2, <2>1, <2>2
        <5> QED BY <5>1, <2>1, <2>2, <2>6 DEF IsInjective, Range
      <4>3. CASE ~(j < i)
        <5>1. x = q[j + 1] /\ j + 1 \in 1..Len(q) /\ j + 1 # i
          BY <4>1, <4>3, <2>1, <2>2
        <5> QED BY <5>1, <2>1, <2>2, <2>6 DEF IsInjective, Range
      <4> QED BY <4>2, <4>3
    <3>3. ASSUME NEW x \in Range(q) \ {t} PROVE x \in Range(r)
      <4>1. PICK k \in 1..Len(q) : q[k] = x
        BY <2>1 DEF Range
      <4>2. k # i
        BY <4>1, <2>2
      <4>3. CASE k < i
        <5>1. k \in 1..(Len(q) - 1) /\ r[k] = x
          BY <4>1, <4>3, <2>1, <2>2
        <5> QED BY <5>1, <2>5 DEF Range
      <4>4. CASE k > i
        <5>1. k - 1 \in 1..(Len(q) - 1) /\ r[k - 1] = x
          BY <4>1, <4>4, <2>1, <2>2
        <5> QED BY <5>1, <2>5 DEF Range
      <4> QED BY <4>1, <4>2, <4>3, <4>4, <2>1, <2>2
    <3> QED BY <3>1, <3>2, <3>3
  <2> QED BY <2>3, <2>5, <2>6
<1> QED BY <1>1, <1>2

(* Appending a new element, and taking the head off, of a queue that holds *)
(* every element once.                                                     *)
LEMMA AppendInjectiveRange ==
  ASSUME NEW S, NEW q \in Seq(S), NEW t \in S, IsInjective(q), t \notin Range(q)
  PROVE  IsInjective(Append(q, t)) /\ Range(Append(q, t)) = Range(q) \cup {t}
BY AppendProperties, LenProperties DEF IsInjective, Range

LEMMA TailInjectiveRange ==
  ASSUME NEW S, NEW q \in Seq(S), q # <<>>, IsInjective(q)
  PROVE  IsInjective(Tail(q)) /\ Range(Tail(q)) = Range(q) \ {Head(q)}
<1>1. /\ Head(q) \in S /\ Tail(q) \in Seq(S) /\ Len(q) \in Nat \ {0}
      /\ Len(Tail(q)) = Len(q) - 1
      /\ \A i \in 1..Len(Tail(q)) : Tail(q)[i] = q[i + 1]
      /\ Head(q) = q[1]
  BY HeadTailProperties, EmptySeq
<1>2. DOMAIN q = 1..Len(q) /\ DOMAIN Tail(q) = 1..(Len(q) - 1)
  BY <1>1, LenProperties
<1>3. IsInjective(Tail(q))
  BY <1>1, <1>2 DEF IsInjective
<1>4. ASSUME NEW x \in Range(Tail(q)) PROVE x \in Range(q) \ {Head(q)}
  <2>1. PICK i \in 1..(Len(q) - 1) : Tail(q)[i] = x
    BY <1>2 DEF Range
  <2>2. x = q[i + 1] /\ i + 1 \in 1..Len(q) /\ i + 1 # 1 /\ 1 \in 1..Len(q)
    BY <2>1, <1>1
  <2> QED BY <2>2, <1>1, <1>2 DEF IsInjective, Range
<1>5. ASSUME NEW x \in Range(q) \ {Head(q)} PROVE x \in Range(Tail(q))
  <2>1. PICK i \in 1..Len(q) : q[i] = x
    BY <1>2 DEF Range
  <2>2. i - 1 \in 1..(Len(q) - 1) /\ Tail(q)[i - 1] = x
    BY <2>1, <1>1
  <2> QED BY <2>2, <1>2 DEF Range
<1> QED BY <1>3, <1>4, <1>5

-----------------------------------------------------------------------------
(* Type correctness.                                                       *)

LEMMA LoadedQueueProperties ==
  ASSUME NEW d \in [Tasks -> Status], NEW q, NEW s \in LoadedQueues(d, q)
  PROVE  /\ s \in Seq(Tasks)
         /\ IsInjective(s)
         /\ Range(s) = {t \in Tasks : Loaded(d)[t] = "Queued"}
<1> DEFINE Q == {t \in Tasks : Loaded(d)[t] = "Queued"}
<1>1. IsFiniteSet(Q)
  BY TasksAssumption, FS_Subset
<1>2. Cardinality(Q) \in Nat
  BY <1>1, FS_CardinalityType
<1>3. s \in [1..Cardinality(Q) -> Q] /\ IsInjective(s) /\ Range(s) = Q
  BY DEF LoadedQueues, Orderings
<1>4. s \in [1..Cardinality(Q) -> Tasks]
  BY <1>3
<1> QED BY <1>2, <1>3, <1>4, FunctionIsSeq

LEMMA LoadedTyped ==
  ASSUME NEW d \in [Tasks -> Status]
  PROVE  Loaded(d) \in [Tasks -> Status \ {"Running"}]
BY DEF Loaded, Status, Terminal

(* What a handler leaves in memory is well typed. *)
WellTyped(after) == after.tasks \in [Tasks -> Status] /\ after.queue \in Seq(Tasks)

LEMMA AfterTyped ==
  ASSUME TypeOK
  PROVE  /\ \A t \in Tasks : WellTyped(AfterAdd(t)) /\ WellTyped(AfterCancel(t))
         /\ Startable => WellTyped(AfterStart)
         /\ \A w \in Workers : WellTyped(AfterFinish(w))
<1>1. ASSUME NEW t \in Tasks PROVE WellTyped(AfterAdd(t))
  BY <1>1, AppendProperties DEF TypeOK, WellTyped, AfterAdd, Status
<1>2. ASSUME NEW t \in Tasks PROVE WellTyped(AfterCancel(t))
  BY <1>2, WithoutProperties DEF TypeOK, WellTyped, AfterCancel, Status, Terminal
<1>3. ASSUME Startable PROVE WellTyped(AfterStart)
  BY <1>3, HeadTailProperties DEF TypeOK, WellTyped, AfterStart, Status, Startable
<1>4. ASSUME NEW w \in Workers PROVE WellTyped(AfterFinish(w))
  BY <1>4 DEF TypeOK, WellTyped, AfterFinish, Outcome, Status, Terminal
<1> QED BY <1>1, <1>2, <1>3, <1>4

(* Writing well typed values leaves well typed files. *)
LEMMA WriteSomeTyped ==
  ASSUME TypeOK, NEW S, NEW m \in [Tasks -> Status], NEW q \in Seq(Tasks), WriteSome(S, m, q)
  PROVE  diskTasks' \in [Tasks -> Status] /\ diskQueue' \in Seq(Tasks)
BY DEF WriteSome, WriteTasks, TypeOK, disk

LEMMA PersistAllTyped ==
  ASSUME TypeOK, NEW m \in [Tasks -> Status], NEW q \in Seq(Tasks), NEW ok, PersistAll(m, q, ok)
  PROVE  /\ diskTasks' \in [Tasks -> Status] /\ diskQueue' \in Seq(Tasks)
         /\ faults' \in 0..MaxFaults
<1>1. CASE ok
  BY <1>1 DEF PersistAll, WriteTasks, TypeOK
<1>2. CASE ~ok
  <2>1. faults < MaxFaults /\ faults' = faults + 1 /\ WriteSome(Known(m), m, q)
    BY <1>2 DEF PersistAll
  <2>2. diskTasks' \in [Tasks -> Status] /\ diskQueue' \in Seq(Tasks)
    BY <2>1, WriteSomeTyped
  <2>3. faults' \in 0..MaxFaults
    BY <2>1, BoundsAssumption DEF TypeOK
  <2> QED BY <2>2, <2>3
<1> QED BY <1>1, <1>2

LEMMA TypeInit == Init => TypeOK
<1> SUFFICES ASSUME Init PROVE TypeOK
  OBVIOUS
<1>1. queue \in Seq(Tasks) /\ diskQueue \in Seq(Tasks)
  BY EmptySeq DEF Init
<1>2. faults \in 0..MaxFaults /\ crashes \in 0..MaxCrashes /\ panics \in 0..MaxPanics
  BY BoundsAssumption DEF Init
<1>3. /\ up \in BOOLEAN /\ tasks \in [Tasks -> Status] /\ diskTasks \in [Tasks -> Status]
      /\ permit \in BOOLEAN /\ shutdown \in BOOLEAN /\ starts \in [Tasks -> Nat]
  BY DEF Init, Status
<1>4. /\ running_cancel \in [Tasks -> Workers \cup {NoWorker}]
      /\ canceled \in SUBSET Workers /\ pc \in [Workers -> Location]
      /\ current \in [Workers -> Tasks \cup {NoTask}] /\ result \in [Workers -> Terminal]
      /\ drawn \in SUBSET Tasks /\ acked \in SUBSET Tasks /\ cancelAcked \in SUBSET Tasks
  BY DEF Init, Terminal, Location
<1> QED BY <1>1, <1>2, <1>3, <1>4 DEF TypeOK

LEMMA TypeStep == TypeOK /\ [Next]_vars => TypeOK'
<1> SUFFICES ASSUME TypeOK, [Next]_vars PROVE TypeOK'
  OBVIOUS
<1> USE DEF history, bounds, disk
<1>1. CASE Boot
  BY <1>1, LoadedQueueProperties, LoadedTyped DEF Boot, TypeOK, WriteTasks, Location
<1>2. CASE BootFails
  <2>1. PICK q \in LoadedQueues(diskTasks, diskQueue) :
          WriteSome(Recovered(diskTasks), Loaded(diskTasks), q)
    BY <1>2 DEF BootFails
  <2>2. q \in Seq(Tasks) /\ Loaded(diskTasks) \in [Tasks -> Status]
    BY <2>1, LoadedQueueProperties, LoadedTyped DEF TypeOK
  <2>3. diskTasks' \in [Tasks -> Status] /\ diskQueue' \in Seq(Tasks)
    BY <2>1, <2>2, WriteSomeTyped
  <2> QED BY <1>2, <2>3, BoundsAssumption DEF BootFails, TypeOK, volatile
<1>3. ASSUME NEW t \in Tasks, NEW ok \in BOOLEAN, AddTask(t, ok) PROVE TypeOK'
  <2>1. WellTyped(AfterAdd(t))
    BY AfterTyped
  <2>2. /\ diskTasks' \in [Tasks -> Status] /\ diskQueue' \in Seq(Tasks)
        /\ faults' \in 0..MaxFaults
    BY <1>3, <2>1, PersistAllTyped DEF AddTask, WellTyped
  <2>3. permit' \in BOOLEAN /\ pc' \in [Workers -> Location]
    BY <1>3 DEF AddTask, NotifyOne, TypeOK, Location
  <2> QED BY <1>3, <2>1, <2>2, <2>3 DEF AddTask, TypeOK, WellTyped
<1>4. ASSUME NEW t \in Tasks, NEW ok \in BOOLEAN, CancelTask(t, ok) PROVE TypeOK'
  <2>1. WellTyped(AfterCancel(t))
    BY AfterTyped
  <2>2. /\ diskTasks' \in [Tasks -> Status] /\ diskQueue' \in Seq(Tasks)
        /\ faults' \in 0..MaxFaults
    BY <1>4, <2>1, PersistAllTyped DEF CancelTask, WellTyped
  <2>3. canceled' \in SUBSET Workers
    BY <1>4 DEF CancelTask, CanceledTokens, TypeOK
  <2> QED BY <1>4, <2>1, <2>2, <2>3 DEF CancelTask, TypeOK, WellTyped
<1>5. ASSUME NEW t \in Tasks, NEW ok \in BOOLEAN, RecordDetails(t, ok) PROVE TypeOK'
  <2>1. diskTasks' \in [Tasks -> Status] /\ diskQueue' \in Seq(Tasks)
    BY <1>5 DEF RecordDetails, PersistTask, WriteTasks, TypeOK
  <2>2. faults' \in 0..MaxFaults
    BY <1>5, BoundsAssumption DEF RecordDetails, PersistTask, TypeOK
  <2> QED BY <1>5, <2>1, <2>2 DEF RecordDetails, TypeOK, volatile
<1>6. CASE Shutdown
  BY <1>6 DEF Shutdown, TypeOK
<1>7. ASSUME NEW w \in Workers, CheckShutdown(w) PROVE TypeOK'
  BY <1>7 DEF CheckShutdown, TypeOK, Location
<1>8. ASSUME NEW w \in Workers, NothingToStart(w) PROVE TypeOK'
  <2>1. queue' \in Seq(Tasks) /\ diskQueue' \in Seq(Tasks)
    BY <1>8, HeadTailProperties, EmptySeq DEF NothingToStart, TypeOK
  <2> QED BY <1>8, <2>1 DEF NothingToStart, TypeOK, Location
<1>9. ASSUME NEW w \in Workers, NEW ok \in BOOLEAN, StartTask(w, ok) PROVE TypeOK'
  <2>1. WellTyped(AfterStart) /\ Head(queue) \in Tasks
    BY <1>9, AfterTyped, HeadTailProperties DEF StartTask, Startable, TypeOK
  <2>2. /\ diskTasks' \in [Tasks -> Status] /\ diskQueue' \in Seq(Tasks)
        /\ faults' \in 0..MaxFaults
    BY <1>9, <2>1, PersistAllTyped DEF StartTask, WellTyped
  <2>3. /\ tasks' \in [Tasks -> Status] /\ queue' \in Seq(Tasks)
        /\ canceled' \in SUBSET Workers
    BY <1>9, <2>1 DEF StartTask, TypeOK, WellTyped
  <2>4. /\ running_cancel' \in [Tasks -> Workers \cup {NoWorker}]
        /\ current' \in [Workers -> Tasks \cup {NoTask}]
        /\ pc' \in [Workers -> Location] /\ starts' \in [Tasks -> Nat]
    BY <1>9, <2>1 DEF StartTask, TypeOK, Location
  <2> QED BY <1>9, <2>2, <2>3, <2>4 DEF StartTask, TypeOK
<1>10. ASSUME NEW w \in Workers, Wait(w) PROVE TypeOK'
  BY <1>10 DEF Wait, TypeOK, Location
<1>11. ASSUME NEW w \in Workers, WakeForShutdown(w) PROVE TypeOK'
  BY <1>11 DEF WakeForShutdown, TypeOK, Location
<1>12. ASSUME NEW w \in Workers, NEW r \in Terminal, ExecutorReturns(w, r) PROVE TypeOK'
  BY <1>12 DEF ExecutorReturns, TypeOK, Location
<1>13. ASSUME NEW w \in Workers, ExecutorPanics(w) PROVE TypeOK'
  BY <1>13, BoundsAssumption DEF ExecutorPanics, TypeOK, Location
<1>14. ASSUME NEW w \in Workers, NEW ok \in BOOLEAN, FinishTask(w, ok) PROVE TypeOK'
  <2>1. WellTyped(AfterFinish(w))
    BY AfterTyped
  <2>2. /\ diskTasks' \in [Tasks -> Status] /\ diskQueue' \in Seq(Tasks)
        /\ faults' \in 0..MaxFaults
    BY <1>14, <2>1, PersistAllTyped DEF FinishTask, Onward, WellTyped, TypeOK
  <2> QED BY <1>14, <2>1, <2>2 DEF FinishTask, Onward, TypeOK, WellTyped, Location, Terminal
<1>15. ASSUME Reset PROVE
         /\ up' \in BOOLEAN /\ tasks' \in [Tasks -> Status] /\ queue' \in Seq(Tasks)
         /\ running_cancel' \in [Tasks -> Workers \cup {NoWorker}]
         /\ canceled' \in SUBSET Workers /\ pc' \in [Workers -> Location]
         /\ current' \in [Workers -> Tasks \cup {NoTask}] /\ result' \in [Workers -> Terminal]
         /\ permit' \in BOOLEAN /\ shutdown' \in BOOLEAN
  BY <1>15, EmptySeq DEF Reset, Status, Terminal, Location
<1>16. CASE Crash
  BY <1>15, <1>16, BoundsAssumption DEF Crash, TypeOK
<1>17. CASE CrashWriting
  <2>1. PICK after \in InFlight : /\ WriteSome(Known(after.tasks), after.tasks, after.queue)
                                  /\ drawn' = drawn \cup Known(after.tasks)
    BY <1>17 DEF CrashWriting
  <2>2. WellTyped(after)
    BY <2>1, AfterTyped DEF InFlight, Known
  <2>3. diskTasks' \in [Tasks -> Status] /\ diskQueue' \in Seq(Tasks)
    BY <2>1, <2>2, WriteSomeTyped DEF WellTyped
  <2> QED BY <1>15, <1>17, <2>1, <2>3, BoundsAssumption DEF CrashWriting, TypeOK, Known
<1>18. CASE CrashBooting
  <2>1. PICK q \in LoadedQueues(diskTasks, diskQueue) :
          WriteSome(Recovered(diskTasks), Loaded(diskTasks), q)
    BY <1>18 DEF CrashBooting
  <2>2. q \in Seq(Tasks) /\ Loaded(diskTasks) \in [Tasks -> Status]
    BY <2>1, LoadedQueueProperties, LoadedTyped DEF TypeOK
  <2>3. diskTasks' \in [Tasks -> Status] /\ diskQueue' \in Seq(Tasks)
    BY <2>1, <2>2, WriteSomeTyped
  <2> QED BY <1>18, <2>3, BoundsAssumption DEF CrashBooting, TypeOK, volatile
<1>19. CASE UNCHANGED vars
  BY <1>19 DEF vars, volatile, TypeOK
<1> QED
  BY <1>1, <1>2, <1>3, <1>4, <1>5, <1>6, <1>7, <1>8, <1>9, <1>10, <1>11, <1>12, <1>13, <1>14,
     <1>16, <1>17, <1>18, <1>19 DEF Next, Client, Worker

(* Every variable has its type in every reachable state. *)
THEOREM TypeCorrect == Spec => []TypeOK
<1>1. Init => TypeOK
  BY TypeInit
<1>2. TypeOK /\ [Next]_vars => TypeOK'
  BY TypeStep
<1> QED BY <1>1, <1>2, PTL DEF Spec

-----------------------------------------------------------------------------
(* The queue, the running tasks and their owners.                          *)

LEMMA OwnershipInit == Init => Ownership
<1> SUFFICES ASSUME Init PROVE Ownership
  OBVIOUS
<1>1. queue = <<>> /\ IsInjective(queue) /\ Range(queue) = {}
  BY DEF Init, IsInjective, Range
<1> QED
  BY <1>1, WorkersAssumption
  DEF Init, Ownership, QueueHoldsTheQueued, RunningTasksAreOwned, DownIsEmpty, UndrawnIsFresh,
      TokensHaveOwners

(* A queue, a table, tokens and workers that did not change keep Ownership *)
(* as far as it speaks of them.                                            *)
LEMMA DiskKeepsUndrawn ==
  ASSUME TypeOK, UndrawnIsFresh, NEW S \in SUBSET Tasks, NEW m, WriteTasks(S, m),
         \A t \in Tasks \ drawn' : t \notin S, drawn \subseteq drawn'
  PROVE  \A t \in Tasks \ drawn' : diskTasks'[t] = "absent"
BY DEF UndrawnIsFresh, WriteTasks

LEMMA PersistKeepsUndrawn ==
  ASSUME TypeOK, UndrawnIsFresh, NEW m \in [Tasks -> Status], NEW q, NEW ok,
         PersistAll(m, q, ok) \/ WriteSome(Known(m), m, q),
         \A t \in Tasks \ drawn' : m[t] = "absent", drawn \subseteq drawn'
  PROVE  \A t \in Tasks \ drawn' : diskTasks'[t] = "absent"
<1>1. CASE UNCHANGED disk
  BY <1>1 DEF disk, UndrawnIsFresh
<1>2. CASE \E S \in SUBSET Known(m) : WriteTasks(S, m)
  BY <1>2, DiskKeepsUndrawn DEF Known
<1> QED BY <1>1, <1>2 DEF PersistAll, WriteSome, disk

LEMMA OwnershipStep == TypeOK /\ Ownership /\ [Next]_vars => Ownership'
<1> SUFFICES ASSUME TypeOK, Ownership, [Next]_vars PROVE Ownership'
  OBVIOUS
<1> USE DEF Ownership
<1>1. CASE Boot
  <2>1. PICK q \in LoadedQueues(diskTasks, diskQueue) :
          /\ tasks' = Loaded(diskTasks) /\ queue' = q
          /\ WriteTasks(Recovered(diskTasks), Loaded(diskTasks))
    BY <1>1 DEF Boot
  <2>2. QueueHoldsTheQueued'
    BY <2>1, LoadedQueueProperties DEF TypeOK, QueueHoldsTheQueued
  <2>3. \A t \in Tasks : tasks'[t] # "Running" /\ running_cancel'[t] = NoWorker
    BY <1>1, <2>1, LoadedTyped DEF Boot, TypeOK, DownIsEmpty
  <2>4. \A w \in Workers : pc'[w] = "top" /\ current'[w] = NoTask
    BY <1>1 DEF Boot, DownIsEmpty
  <2>5. UndrawnIsFresh'
    BY <1>1, <2>1 DEF Boot, UndrawnIsFresh, WriteTasks, Recovered, Loaded, history
  <2> QED BY <1>1, <2>2, <2>3, <2>4, <2>5, WorkersAssumption
          DEF Boot, RunningTasksAreOwned, DownIsEmpty, TokensHaveOwners
<1>2. CASE BootFails \/ CrashBooting
  <2>1. PICK q \in LoadedQueues(diskTasks, diskQueue) :
          WriteSome(Recovered(diskTasks), Loaded(diskTasks), q)
    BY <1>2 DEF BootFails, CrashBooting
  <2>2. \A t \in Tasks : diskTasks[t] = "absent" => diskTasks'[t] = "absent"
    BY <2>1 DEF WriteSome, WriteTasks, Recovered, Loaded, disk
  <2>3. UndrawnIsFresh'
    BY <1>2, <2>2 DEF BootFails, CrashBooting, UndrawnIsFresh, volatile, history
  <2> QED BY <1>2, <2>3 DEF BootFails, CrashBooting, volatile, QueueHoldsTheQueued,
             RunningTasksAreOwned, DownIsEmpty, TokensHaveOwners
<1>3. ASSUME NEW t \in Tasks, NEW ok \in BOOLEAN, AddTask(t, ok) PROVE Ownership'
  <2>1. tasks[t] = "absent" /\ t \notin Range(queue)
    BY <1>3 DEF AddTask, UndrawnIsFresh, QueueHoldsTheQueued
  <2>2. QueueHoldsTheQueued'
    BY <1>3, <2>1, AppendInjectiveRange DEF AddTask, AfterAdd, QueueHoldsTheQueued, TypeOK
  <2>3. \A w \in Workers : pc'[w] = pc[w] \/ (pc[w] = "parked" /\ pc'[w] = "top")
    <3>1. CASE UNCHANGED pc
      BY <3>1
    <3>2. CASE \E v \in Workers : pc[v] = "parked" /\ pc' = [pc EXCEPT ![v] = "top"]
      BY <3>2 DEF TypeOK
    <3> QED BY <1>3, <3>1, <3>2 DEF AddTask, NotifyOne
  <2>4. RunningTasksAreOwned'
    BY <1>3, <2>1, <2>3 DEF AddTask, AfterAdd, RunningTasksAreOwned, TypeOK
  <2>5. TokensHaveOwners'
    BY <1>3, <2>3 DEF AddTask, TokensHaveOwners, TypeOK
  <2>6. AfterAdd(t).tasks \in [Tasks -> Status]
    BY AfterTyped DEF WellTyped
  <2>7. \A u \in Tasks \ drawn' : AfterAdd(t).tasks[u] = "absent"
    BY <1>3 DEF AddTask, AfterAdd, UndrawnIsFresh, TypeOK
  <2>8. UndrawnIsFresh'
    BY <1>3, <2>6, <2>7, PersistKeepsUndrawn DEF AddTask, UndrawnIsFresh
  <2> QED BY <1>3, <2>2, <2>4, <2>5, <2>8 DEF AddTask, DownIsEmpty
<1>4. ASSUME NEW t \in Tasks, NEW ok \in BOOLEAN, CancelTask(t, ok) PROVE Ownership'
  <2>1. QueueHoldsTheQueued'
    BY <1>4, WithoutProperties DEF CancelTask, AfterCancel, QueueHoldsTheQueued, TypeOK
  <2>2. RunningTasksAreOwned'
    BY <1>4 DEF CancelTask, AfterCancel, RunningTasksAreOwned, TypeOK
  <2>3. TokensHaveOwners'
    BY <1>4 DEF CancelTask, TokensHaveOwners
  <2>4. AfterCancel(t).tasks \in [Tasks -> Status]
    BY AfterTyped DEF WellTyped
  <2>5. \A u \in Tasks \ drawn' : AfterCancel(t).tasks[u] = "absent"
    BY <1>4 DEF CancelTask, AfterCancel, UndrawnIsFresh, TypeOK
  <2>6. UndrawnIsFresh'
    BY <1>4, <2>4, <2>5, PersistKeepsUndrawn DEF CancelTask, UndrawnIsFresh
  <2> QED BY <1>4, <2>1, <2>2, <2>3, <2>6 DEF CancelTask, DownIsEmpty
<1>5. ASSUME NEW t \in Tasks, NEW ok \in BOOLEAN, RecordDetails(t, ok) PROVE Ownership'
  <2>1. UndrawnIsFresh'
    BY <1>5 DEF RecordDetails, PersistTask, WriteTasks, UndrawnIsFresh, volatile, history
  <2> QED BY <1>5, <2>1 DEF RecordDetails, volatile, QueueHoldsTheQueued,
             RunningTasksAreOwned, DownIsEmpty, TokensHaveOwners
<1>6. CASE Shutdown
  BY <1>6 DEF Shutdown, disk, history, QueueHoldsTheQueued, RunningTasksAreOwned, DownIsEmpty,
     UndrawnIsFresh, TokensHaveOwners
<1>7. ASSUME NEW w \in Workers, pc[w] \notin {"run", "done", "exited"},
             pc' = [pc EXCEPT ![w] = pc'[w]], pc'[w] \in {"top", "lock", "wait", "parked", "exited"},
             up, UNCHANGED <<up, tasks, queue, running_cancel, current, disk, history>>
      PROVE  Ownership'
  BY <1>7 DEF TypeOK, disk, history, QueueHoldsTheQueued, RunningTasksAreOwned, DownIsEmpty,
     UndrawnIsFresh, TokensHaveOwners
<1>8. ASSUME NEW w \in Workers, CheckShutdown(w) \/ Wait(w) \/ WakeForShutdown(w) PROVE Ownership'
  BY <1>7, <1>8 DEF CheckShutdown, Wait, WakeForShutdown, TypeOK
<1>9. ASSUME NEW w \in Workers, NothingToStart(w) PROVE Ownership'
  <2>1. queue = <<>>
    <3> SUFFICES ASSUME queue # <<>> PROVE FALSE
      OBVIOUS
    <3>1. Head(queue) \in Range(queue)
      <4>1. Len(queue) \in Nat \ {0} /\ DOMAIN queue = 1..Len(queue) /\ Head(queue) = queue[1]
        BY LenProperties, EmptySeq DEF TypeOK
      <4> QED BY <4>1 DEF Range
    <3> QED BY <1>9, <3>1 DEF NothingToStart, Startable, QueueHoldsTheQueued
  <2>2. UNCHANGED <<queue, disk>>
    BY <1>9, <2>1 DEF NothingToStart, disk
  <2> QED BY <1>7, <1>9, <2>2 DEF NothingToStart, TypeOK
<1>10. ASSUME NEW w \in Workers, NEW ok \in BOOLEAN, StartTask(w, ok) PROVE Ownership'
  <2> DEFINE h == Head(queue)
  <2>1. queue # <<>> /\ h \in Tasks /\ tasks[h] = "Queued" /\ running_cancel[h] = NoWorker
    BY <1>10, HeadTailProperties DEF StartTask, Startable, TypeOK, RunningTasksAreOwned
  <2>2. QueueHoldsTheQueued'
    BY <1>10, <2>1, TailInjectiveRange DEF StartTask, AfterStart, QueueHoldsTheQueued, TypeOK
  <2>3. pc[w] = "lock" /\ current[w] = NoTask
    BY <1>10 DEF StartTask, RunningTasksAreOwned
  <2>4. /\ tasks' = [tasks EXCEPT ![h] = "Running"]
        /\ running_cancel' = [running_cancel EXCEPT ![h] = w]
        /\ current' = [current EXCEPT ![w] = h] /\ pc' = [pc EXCEPT ![w] = "run"]
    BY <1>10 DEF StartTask, AfterStart
  <2> HIDE DEF h
  <2>5. RunningTasksAreOwned'
    <3>1. \A t \in Tasks : running_cancel'[t] # NoWorker <=> tasks'[t] = "Running"
      BY <2>1, <2>4, WorkersAssumption DEF RunningTasksAreOwned, TypeOK
    <3>2. ASSUME NEW v \in Workers
          PROVE  /\ pc'[v] \in {"run", "done"} <=> current'[v] # NoTask
                 /\ current'[v] # NoTask => running_cancel'[current'[v]] = v
      <4>1. CASE v = w
        BY <2>1, <2>4, <4>1, TasksAssumption DEF TypeOK
      <4>2. CASE v # w
        <5>1. current'[v] = current[v] /\ pc'[v] = pc[v]
          BY <2>4, <4>2 DEF TypeOK
        <5>2. current[v] # NoTask => current[v] # h /\ current[v] \in Tasks
          BY <2>1, WorkersAssumption DEF RunningTasksAreOwned, TypeOK
        <5> QED BY <2>4, <5>1, <5>2 DEF RunningTasksAreOwned, TypeOK
      <4> QED BY <4>1, <4>2
    <3> QED BY <3>1, <3>2 DEF RunningTasksAreOwned
  <2>6. TokensHaveOwners'
    BY <2>1, <2>3, <2>4, TasksAssumption DEF TokensHaveOwners, TypeOK
  <2>7. AfterStart.tasks \in [Tasks -> Status]
    BY <1>10, AfterTyped DEF WellTyped, StartTask
  <2>8. \A u \in Tasks \ drawn' : AfterStart.tasks[u] = "absent"
    BY <1>10, <2>1, <2>4 DEF StartTask, UndrawnIsFresh, TypeOK
  <2>9. UndrawnIsFresh'
    BY <1>10, <2>7, <2>8, PersistKeepsUndrawn DEF StartTask, UndrawnIsFresh
  <2> QED BY <1>10, <2>2, <2>5, <2>6, <2>9 DEF StartTask, DownIsEmpty
<1>11. ASSUME NEW w \in Workers, NEW r \in Terminal, ExecutorReturns(w, r) PROVE Ownership'
  BY <1>11 DEF ExecutorReturns, TypeOK, disk, history, QueueHoldsTheQueued, RunningTasksAreOwned,
     DownIsEmpty, UndrawnIsFresh, TokensHaveOwners
<1>12. ASSUME NEW w \in Workers, ExecutorPanics(w) PROVE Ownership'
  BY <1>12 DEF ExecutorPanics, TypeOK, disk, history, QueueHoldsTheQueued, RunningTasksAreOwned,
     DownIsEmpty, UndrawnIsFresh, TokensHaveOwners
<1>13. ASSUME NEW w \in Workers, NEW ok \in BOOLEAN, FinishTask(w, ok) PROVE Ownership'
  <2> DEFINE c == current[w]
  <2>1. c \in Tasks /\ running_cancel[c] = w /\ tasks[c] = "Running" /\ Outcome(w) \in Terminal
    BY <1>13, WorkersAssumption DEF FinishTask, Onward, RunningTasksAreOwned, TypeOK, Outcome, Terminal
  <2>2. /\ tasks' = [tasks EXCEPT ![c] = Outcome(w)]
        /\ running_cancel' = [running_cancel EXCEPT ![c] = NoWorker]
        /\ current' = [current EXCEPT ![w] = NoTask] /\ pc' = [pc EXCEPT ![w] = "top"]
        /\ queue' = queue
    BY <1>13 DEF FinishTask, Onward, AfterFinish
  <2> HIDE DEF c
  <2>3. QueueHoldsTheQueued'
    BY <2>1, <2>2 DEF QueueHoldsTheQueued, TypeOK, Terminal
  <2>4. RunningTasksAreOwned'
    BY <2>1, <2>2 DEF RunningTasksAreOwned, TypeOK, Terminal
  <2>5. TokensHaveOwners'
    BY <2>1, <2>2, <1>13 DEF TokensHaveOwners, TypeOK, FinishTask, c
  <2>6. AfterFinish(w).tasks \in [Tasks -> Status]
    BY AfterTyped DEF WellTyped
  <2>7. \A u \in Tasks \ drawn' : AfterFinish(w).tasks[u] = "absent"
    BY <1>13, <2>1, <2>2 DEF FinishTask, Onward, UndrawnIsFresh, TypeOK, history
  <2>8. UndrawnIsFresh'
    BY <1>13, <2>6, <2>7, PersistKeepsUndrawn DEF FinishTask, Onward, UndrawnIsFresh, history
  <2> QED BY <1>13, <2>3, <2>4, <2>5, <2>8 DEF FinishTask, Onward, DownIsEmpty
<1>14. ASSUME Reset, UndrawnIsFresh' PROVE Ownership'
  <2>1. Range(<<>>) = {} /\ IsInjective(<<>>)
    BY DEF Range, IsInjective
  <2> QED BY <1>14, <2>1, WorkersAssumption DEF Reset, QueueHoldsTheQueued, RunningTasksAreOwned,
             DownIsEmpty, TokensHaveOwners
<1>15. CASE Crash
  <2>1. UndrawnIsFresh'
    BY <1>15 DEF Crash, Reset, UndrawnIsFresh, disk, history
  <2> QED BY <1>14, <1>15, <2>1 DEF Crash
<1>16. CASE CrashWriting
  <2>1. PICK after \in InFlight : /\ WriteSome(Known(after.tasks), after.tasks, after.queue)
                                  /\ drawn' = drawn \cup Known(after.tasks)
    BY <1>16 DEF CrashWriting
  <2>2. after.tasks \in [Tasks -> Status]
    BY <2>1, AfterTyped DEF InFlight, Known, WellTyped
  <2>3. \A t \in Tasks \ drawn' : after.tasks[t] = "absent"
    BY <2>1 DEF Known
  <2>4. \A t \in Tasks \ drawn' : diskTasks'[t] = "absent"
    BY <2>1, <2>2, <2>3, PersistKeepsUndrawn
  <2>5. UndrawnIsFresh'
    BY <1>16, <2>4 DEF CrashWriting, Reset, UndrawnIsFresh
  <2> QED BY <1>14, <1>16, <2>5 DEF CrashWriting
<1>17. CASE UNCHANGED vars
  BY <1>17 DEF vars, volatile, disk, history, QueueHoldsTheQueued, RunningTasksAreOwned,
     DownIsEmpty, UndrawnIsFresh, TokensHaveOwners
<1> QED
  BY <1>1, <1>2, <1>3, <1>4, <1>5, <1>6, <1>8, <1>9, <1>10, <1>11, <1>12, <1>13, <1>15, <1>16,
     <1>17 DEF Next, Client, Worker

LEMMA OwnershipInvariant == Spec => [](TypeOK /\ Ownership)
<1>1. Init => TypeOK /\ Ownership
  BY TypeInit, OwnershipInit
<1>2. TypeOK /\ Ownership /\ [Next]_vars => (TypeOK /\ Ownership)'
  BY TypeStep, OwnershipStep
<1> QED BY <1>1, <1>2, PTL DEF Spec

(* The queue holds exactly the queued tasks, each once. *)
THEOREM QueueCorrect == Spec => []QueueHoldsTheQueued
<1>1. TypeOK /\ Ownership => QueueHoldsTheQueued
  BY DEF Ownership
<1> QED BY <1>1, OwnershipInvariant, PTL

(* No task is in the hands of two workers, and a cancellation reaches the  *)
(* token its worker holds.                                                 *)
THEOREM OwnershipCorrect == Spec => []RunningTasksAreOwned
<1>1. TypeOK /\ Ownership => RunningTasksAreOwned
  BY DEF Ownership
<1> QED BY <1>1, OwnershipInvariant, PTL

-----------------------------------------------------------------------------
(* Durability: what the files hold compared with the memory and with what  *)
(* callers were told.                                                      *)

(* Reachable in one life of a record: the same status, or a later one. *)
Follows(s1, s2) == Rank(s1) < Rank(s2) \/ s1 = s2

LEMMA RankFacts ==
  /\ Rank("absent") = 0 /\ Rank("Queued") = 1 /\ Rank("Running") = 2
  /\ \A s \in Terminal : Rank(s) = 3
  /\ \A s \in Status : Rank(s) \in 0..3
BY DEF Rank, Terminal, Status

LEMMA FollowsTransitive ==
  ASSUME NEW a \in Status, NEW b \in Status, NEW c \in Status, Follows(a, b), Follows(b, c)
  PROVE  Follows(a, c)
BY RankFacts DEF Follows

(* Every handler moves records forwards only. *)
LEMMA HandlersMoveForward ==
  ASSUME TypeOK, Ownership
  PROVE  /\ \A t \in Tasks \ drawn : \A u \in Tasks : Follows(tasks[u], AfterAdd(t).tasks[u])
         /\ \A t \in Tasks : \A u \in Tasks : Follows(tasks[u], AfterCancel(t).tasks[u])
         /\ Startable => \A u \in Tasks : Follows(tasks[u], AfterStart.tasks[u])
         /\ \A w \in Workers : pc[w] = "done" =>
               \A u \in Tasks : Follows(tasks[u], AfterFinish(w).tasks[u])
<1>1. ASSUME NEW t \in Tasks \ drawn, NEW u \in Tasks
      PROVE  Follows(tasks[u], AfterAdd(t).tasks[u])
  BY <1>1, RankFacts DEF Follows, AfterAdd, TypeOK, Ownership, UndrawnIsFresh
<1>2. ASSUME NEW t \in Tasks, NEW u \in Tasks PROVE Follows(tasks[u], AfterCancel(t).tasks[u])
  BY <1>2, RankFacts DEF Follows, AfterCancel, TypeOK, Terminal
<1>3. ASSUME Startable, NEW u \in Tasks PROVE Follows(tasks[u], AfterStart.tasks[u])
  BY <1>3, RankFacts DEF Follows, AfterStart, Startable, TypeOK
<1>4. ASSUME NEW w \in Workers, pc[w] = "done", NEW u \in Tasks
      PROVE  Follows(tasks[u], AfterFinish(w).tasks[u])
  <2>1. tasks[current[w]] = "Running" /\ current[w] \in Tasks /\ Outcome(w) \in Terminal
    BY <1>4, WorkersAssumption DEF TypeOK, Ownership, RunningTasksAreOwned, Outcome, Terminal
  <2> QED BY <1>4, <2>1, RankFacts DEF Follows, AfterFinish, TypeOK
<1> QED BY <1>1, <1>2, <1>3, <1>4

(* After the writes of a handler, complete or cut short, a file holds what *)
(* it held or what the handler made of a record it knows; after complete   *)
(* writes it holds the latter for every known record.                      *)
LEMMA WrittenValues ==
  ASSUME TypeOK, NEW m \in [Tasks -> Status], NEW q, NEW ok,
         PersistAll(m, q, ok) \/ WriteSome(Known(m), m, q)
  PROVE  \A t \in Tasks :
           diskTasks'[t] = diskTasks[t] \/ (diskTasks'[t] = m[t] /\ m[t] # "absent")
<1>1. CASE UNCHANGED disk
  BY <1>1 DEF disk
<1>2. CASE \E S \in SUBSET Known(m) : WriteTasks(S, m)
  BY <1>2 DEF WriteTasks, Known
<1> QED BY <1>1, <1>2 DEF PersistAll, WriteSome, disk

LEMMA CompleteWrites ==
  ASSUME TypeOK, NEW m \in [Tasks -> Status], NEW q, PersistAll(m, q, TRUE)
  PROVE  \A t \in Tasks : m[t] # "absent" => diskTasks'[t] = m[t]
BY DEF PersistAll, WriteTasks, Known

(* A handler that moves records forwards, leaves nothing acknowledged      *)
(* behind and keeps cancelled tasks cancelled keeps the files in step.     *)
LEMMA HandlerKeepsDisk ==
  ASSUME TypeOK, Durability, up, up', NEW m \in [Tasks -> Status], NEW q, NEW ok,
         PersistAll(m, q, ok), tasks' = m, tasks' \in [Tasks -> Status],
         \A t \in Tasks : Follows(tasks[t], m[t])
  PROVE  /\ DiskNeverAhead'
         /\ \A t \in Tasks : diskTasks[t] # "absent" => diskTasks'[t] # "absent"
<1>1. \A t \in Tasks :
           diskTasks'[t] = diskTasks[t] \/ (diskTasks'[t] = m[t] /\ m[t] # "absent")
  BY WrittenValues
<1>2. \A t \in Tasks : Follows(diskTasks[t], tasks[t])
  BY DEF Durability, DiskNeverAhead, Follows
<1>3. \A t \in Tasks : Follows(diskTasks[t], m[t])
  BY <1>2, FollowsTransitive DEF TypeOK
<1> QED BY <1>1, <1>3 DEF DiskNeverAhead, Follows

(* The statuses a task may have after its cancellation was acknowledged. *)
Kept == {"Running", "Canceled", "Failed"}

LEMMA HandlersKeepCancel ==
  ASSUME TypeOK, Ownership, Durability, up
  PROVE  /\ \A t \in Tasks \ drawn : \A u \in cancelAcked : AfterAdd(t).tasks[u] \in Kept
         /\ \A t \in Tasks : \A u \in cancelAcked : AfterCancel(t).tasks[u] \in Kept
         /\ Startable => \A u \in cancelAcked : AfterStart.tasks[u] \in Kept
         /\ \A w \in Workers : pc[w] = "done" =>
               \A u \in cancelAcked : AfterFinish(w).tasks[u] \in Kept
<1>0. \A u \in cancelAcked : u \in Tasks /\ tasks[u] \in Kept
  BY DEF Durability, CancelSticks, Kept, TypeOK
<1>1. ASSUME NEW t \in Tasks \ drawn, NEW u \in cancelAcked PROVE AfterAdd(t).tasks[u] \in Kept
  BY <1>0, <1>1 DEF AfterAdd, TypeOK, Ownership, UndrawnIsFresh, Kept
<1>2. ASSUME NEW t \in Tasks, NEW u \in cancelAcked PROVE AfterCancel(t).tasks[u] \in Kept
  BY <1>0, <1>2 DEF AfterCancel, TypeOK, Kept
<1>3. ASSUME Startable, NEW u \in cancelAcked PROVE AfterStart.tasks[u] \in Kept
  BY <1>0, <1>3 DEF AfterStart, Startable, TypeOK, Kept
<1>4. ASSUME NEW w \in Workers, pc[w] = "done", NEW u \in cancelAcked
      PROVE  AfterFinish(w).tasks[u] \in Kept
  <2>1. /\ tasks[current[w]] = "Running" /\ current[w] \in Tasks
        /\ running_cancel[current[w]] = w
    BY <1>4, WorkersAssumption DEF TypeOK, Ownership, RunningTasksAreOwned
  <2>2. CASE u = current[w]
    <3>1. w \in canceled
      BY <2>1, <2>2 DEF Durability, CancelReachedToken
    <3>2. Outcome(w) \in {"Canceled", "Failed"}
      BY <3>1 DEF Outcome, TypeOK, Terminal
    <3> QED BY <2>1, <2>2, <3>2 DEF AfterFinish, TypeOK, Kept
  <2>3. CASE u # current[w]
    BY <1>0, <2>1, <2>3 DEF AfterFinish, TypeOK
  <2> QED BY <2>2, <2>3
<1> QED BY <1>1, <1>2, <1>3, <1>4

(* A known record's file that is not behind keeps what was acknowledged. *)
LEMMA AckedFollowsDisk ==
  ASSUME TypeOK', DiskNeverAhead', \A t \in acked' : diskTasks'[t] # "absent"
  PROVE  AckedIsDurable'
<1> SUFFICES ASSUME NEW t \in acked', up'
             PROVE  tasks'[t] # "absent" /\ (tasks'[t] = "Queued" => diskTasks'[t] = "Queued")
  BY DEF AckedIsDurable
<1>1. t \in Tasks /\ diskTasks'[t] \in Status \ {"absent"} /\ tasks'[t] \in Status
  BY DEF TypeOK
<1>2. Rank(diskTasks'[t]) < Rank(tasks'[t]) \/ diskTasks'[t] = tasks'[t]
  BY <1>1 DEF DiskNeverAhead
<1> QED BY <1>1, <1>2, RankFacts DEF Status, Terminal

(* One step of a handler that writes everything it knows. *)
LEMMA HandlerStep ==
  ASSUME TypeOK, TypeOK', Durability, up, up', NEW m, NEW q, NEW ok \in BOOLEAN,
         PersistAll(m, q, ok), tasks' = m,
         \A t \in Tasks : Follows(tasks[t], m[t]),
         \A t \in cancelAcked : m[t] \in Kept,
         \A t \in acked' \ acked : ok /\ m[t] # "absent",
         \A t \in cancelAcked' \ cancelAcked : ok /\ m[t] \in Kept,
         CancelReachedToken'
  PROVE  Durability'
<1>0. m \in [Tasks -> Status]
  BY DEF TypeOK
<1>1. /\ DiskNeverAhead'
      /\ \A t \in Tasks : diskTasks[t] # "absent" => diskTasks'[t] # "absent"
  BY <1>0, HandlerKeepsDisk DEF TypeOK
<1>2. ok => \A t \in Tasks : m[t] # "absent" => diskTasks'[t] = m[t]
  BY <1>0, CompleteWrites
<1>3. \A t \in acked' : diskTasks'[t] # "absent"
  BY <1>1, <1>2 DEF Durability, AckedIsDurable, TypeOK
<1>4. AckedIsDurable'
  BY <1>1, <1>3, AckedFollowsDisk
<1>5. CancelSticks'
  <2>1. \A t \in Tasks : diskTasks'[t] = diskTasks[t] \/ (diskTasks'[t] = m[t] /\ m[t] # "absent")
    BY <1>0, WrittenValues
  <2>2. \A t \in cancelAcked' : t \in Tasks /\ m[t] \in Kept
    BY DEF TypeOK
  <2>3. \A t \in cancelAcked' : diskTasks'[t] \in Kept
    BY <1>2, <2>1, <2>2 DEF Durability, CancelSticks, Kept
  <2> QED BY <2>2, <2>3 DEF CancelSticks, Kept
<1> QED BY <1>1, <1>4, <1>5 DEF Durability

(* A step that touches no record, file or acknowledgement. *)
LEMMA QuietStep ==
  ASSUME Durability, UNCHANGED <<up, tasks, diskTasks, acked, cancelAcked, running_cancel>>,
         canceled \subseteq canceled'
  PROVE  Durability'
BY DEF Durability, DiskNeverAhead, AckedIsDurable, CancelSticks, CancelReachedToken

(* A step after which there is no process. *)
LEMMA DownStep ==
  ASSUME TypeOK, TypeOK', Durability, ~up', \A t \in Tasks : tasks'[t] = "absent",
         UNCHANGED <<acked, cancelAcked>>,
         \A t \in Tasks : diskTasks[t] # "absent" => diskTasks'[t] # "absent",
         \A t \in cancelAcked : diskTasks'[t] \in Kept
  PROVE  Durability'
BY DEF Durability, DiskNeverAhead, AckedIsDurable, CancelSticks, CancelReachedToken, Kept, TypeOK

LEMMA DurabilityInit == Init => Durability
BY RankFacts DEF Init, Durability, DiskNeverAhead, AckedIsDurable, CancelSticks, CancelReachedToken

LEMMA DurabilityStep == IInv /\ TypeOK' /\ [Next]_vars => Durability'
<1> SUFFICES ASSUME TypeOK, Ownership, Durability, TypeOK', [Next]_vars PROVE Durability'
  BY DEF IInv
<1>1. CASE Boot
  <2>1. /\ tasks' = Loaded(diskTasks) /\ UNCHANGED <<acked, cancelAcked>>
        /\ WriteTasks(Recovered(diskTasks), Loaded(diskTasks))
    BY <1>1 DEF Boot, history
  <2>2. \A t \in Tasks : diskTasks'[t] = tasks'[t]
    BY <2>1 DEF WriteTasks, Recovered, Loaded
  <2>3. \A t \in Tasks : diskTasks[t] # "absent" => tasks'[t] # "absent"
    BY <2>1 DEF Loaded
  <2>4. DiskNeverAhead' /\ AckedIsDurable'
    BY <2>1, <2>2, <2>3 DEF DiskNeverAhead, AckedIsDurable, Durability, TypeOK
  <2>5. \A t \in cancelAcked' : t \in Tasks /\ tasks'[t] \in Kept /\ tasks'[t] # "Running"
    BY <2>1 DEF Loaded, Durability, CancelSticks, Kept, TypeOK
  <2> QED BY <2>2, <2>4, <2>5 DEF Durability, CancelSticks, CancelReachedToken, Kept
<1>2. ASSUME NEW q, WriteSome(Recovered(diskTasks), Loaded(diskTasks), q),
             UNCHANGED <<up, tasks, running_cancel, canceled, acked, cancelAcked>>, ~up
      PROVE  Durability'
  <2>1. \A t \in Tasks : diskTasks'[t] = diskTasks[t]
                           \/ (diskTasks[t] = "Running" /\ diskTasks'[t] = "Failed")
    BY <1>2 DEF WriteSome, WriteTasks, Recovered, Loaded, disk
  <2>2. \A t \in Tasks : tasks'[t] = "absent"
    BY <1>2 DEF Ownership, DownIsEmpty
  <2>3. \A t \in cancelAcked : diskTasks'[t] \in Kept
    BY <2>1 DEF Durability, CancelSticks, Kept, TypeOK
  <2> QED BY <1>2, <2>1, <2>2, <2>3, DownStep
<1>3. CASE BootFails \/ CrashBooting
  BY <1>2, <1>3 DEF BootFails, CrashBooting, volatile, history
<1>4. ASSUME NEW t \in Tasks, NEW ok \in BOOLEAN, AddTask(t, ok) PROVE Durability'
  <2>1. /\ up /\ up' /\ t \in Tasks \ drawn /\ tasks' = AfterAdd(t).tasks
        /\ PersistAll(AfterAdd(t).tasks, AfterAdd(t).queue, ok)
        /\ acked' = IF ok THEN acked \cup {t} ELSE acked
        /\ UNCHANGED <<cancelAcked, running_cancel, canceled>>
    BY <1>4 DEF AddTask
  <2>2. AfterAdd(t).tasks[t] # "absent"
    BY DEF AfterAdd, TypeOK
  <2>3. CancelReachedToken'
    <3>1. \A u \in cancelAcked : u # t
      BY <2>1 DEF Ownership, UndrawnIsFresh, Durability, CancelSticks
    <3> QED BY <2>1, <3>1 DEF Durability, CancelReachedToken, AfterAdd, TypeOK
  <2>4. \A u \in Tasks : Follows(tasks[u], AfterAdd(t).tasks[u])
    BY <2>1, HandlersMoveForward
  <2>5. \A u \in cancelAcked : AfterAdd(t).tasks[u] \in Kept
    BY <2>1, HandlersKeepCancel
  <2> QED BY <2>1, <2>2, <2>3, <2>4, <2>5, HandlerStep
<1>5. ASSUME NEW t \in Tasks, NEW ok \in BOOLEAN, CancelTask(t, ok) PROVE Durability'
  <2>1. /\ up /\ up' /\ tasks[t] # "absent" /\ tasks' = AfterCancel(t).tasks
        /\ PersistAll(AfterCancel(t).tasks, AfterCancel(t).queue, ok)
        /\ canceled' = CanceledTokens(t)
        /\ cancelAcked' = IF ok /\ tasks[t] \notin Terminal THEN cancelAcked \cup {t}
                          ELSE cancelAcked
        /\ UNCHANGED <<acked, running_cancel>>
    BY <1>5 DEF CancelTask
  <2>2. \A u \in cancelAcked' \ cancelAcked : ok /\ AfterCancel(t).tasks[u] \in Kept
    BY <2>1 DEF AfterCancel, TypeOK, Status, Kept
  <2>3. CancelReachedToken'
    <3>1. canceled \subseteq canceled' /\ (tasks[t] = "Running" => running_cancel[t] \in canceled')
      BY <2>1 DEF CanceledTokens, Ownership, RunningTasksAreOwned
    <3>2. \A u \in Tasks : tasks'[u] = "Running" => tasks[u] = "Running"
      BY <2>1 DEF AfterCancel, TypeOK
    <3> QED BY <2>1, <3>1, <3>2 DEF Durability, CancelReachedToken, TypeOK
  <2>4. \A u \in Tasks : Follows(tasks[u], AfterCancel(t).tasks[u])
    BY HandlersMoveForward
  <2>5. \A u \in cancelAcked : AfterCancel(t).tasks[u] \in Kept
    BY <2>1, HandlersKeepCancel
  <2> QED BY <2>1, <2>2, <2>3, <2>4, <2>5, HandlerStep
<1>6. ASSUME NEW t \in Tasks, NEW ok \in BOOLEAN, RecordDetails(t, ok) PROVE Durability'
  <2>1. /\ up /\ tasks[t] # "absent"
        /\ UNCHANGED <<up, tasks, acked, cancelAcked, running_cancel, canceled>>
    BY <1>6 DEF RecordDetails, volatile, history
  <2>2. \A u \in Tasks : diskTasks'[u] = diskTasks[u] \/ (u = t /\ diskTasks'[u] = tasks[u])
    BY <1>6 DEF RecordDetails, PersistTask, WriteTasks
  <2>3. DiskNeverAhead'
    BY <2>1, <2>2 DEF Durability, DiskNeverAhead
  <2>4. \A u \in acked' : diskTasks'[u] # "absent"
    BY <2>1, <2>2 DEF Durability, AckedIsDurable, TypeOK
  <2>5. AckedIsDurable'
    BY <2>3, <2>4, AckedFollowsDisk
  <2>6. CancelSticks' /\ CancelReachedToken'
    BY <2>1, <2>2 DEF Durability, CancelSticks, CancelReachedToken, TypeOK
  <2> QED BY <2>3, <2>5, <2>6 DEF Durability
<1>7. CASE Shutdown
  BY <1>7, QuietStep DEF Shutdown, disk, history
<1>8. ASSUME NEW w \in Workers,
             CheckShutdown(w) \/ NothingToStart(w) \/ Wait(w) \/ WakeForShutdown(w)
               \/ ExecutorPanics(w) \/ \E r \in Terminal : ExecutorReturns(w, r)
      PROVE  Durability'
  BY <1>8, QuietStep DEF CheckShutdown, NothingToStart, Wait, WakeForShutdown, ExecutorPanics,
     ExecutorReturns, disk, history
<1>9. ASSUME NEW w \in Workers, NEW ok \in BOOLEAN, StartTask(w, ok) PROVE Durability'
  <2>1. /\ up /\ up' /\ pc[w] = "lock" /\ Startable /\ tasks' = AfterStart.tasks
        /\ PersistAll(AfterStart.tasks, AfterStart.queue, ok)
        /\ running_cancel' = [running_cancel EXCEPT ![Head(queue)] = w]
        /\ canceled' = canceled \ {w}
        /\ UNCHANGED <<acked, cancelAcked>>
    BY <1>9 DEF StartTask
  <2>2. CancelReachedToken'
    <3> SUFFICES ASSUME NEW u \in cancelAcked, tasks'[u] = "Running"
                 PROVE  running_cancel'[u] \in canceled'
      BY <2>1 DEF CancelReachedToken
    <3>1. u \in Tasks /\ u # Head(queue)
      BY <2>1 DEF Durability, CancelSticks, Startable, TypeOK
    <3>2. tasks[u] = "Running" /\ running_cancel'[u] = running_cancel[u]
      BY <2>1, <3>1 DEF AfterStart, TypeOK
    <3>3. running_cancel[u] \in canceled
      BY <3>2 DEF Durability, CancelReachedToken
    <3>4. running_cancel[u] # w
      <4>1. current[w] = NoTask /\ u # NoTask
        BY <2>1, <3>1, TasksAssumption DEF Ownership, RunningTasksAreOwned
      <4>2. running_cancel[u] # NoWorker
        BY <3>1, <3>2 DEF Ownership, RunningTasksAreOwned
      <4> QED BY <2>1, <3>1, <4>1, <4>2 DEF Ownership, TokensHaveOwners
    <3> QED BY <2>1, <3>2, <3>3, <3>4
  <2>3. \A u \in Tasks : Follows(tasks[u], AfterStart.tasks[u])
    BY <2>1, HandlersMoveForward
  <2>4. \A u \in cancelAcked : AfterStart.tasks[u] \in Kept
    BY <2>1, HandlersKeepCancel
  <2> QED BY <2>1, <2>2, <2>3, <2>4, HandlerStep
<1>10. ASSUME NEW w \in Workers, NEW ok \in BOOLEAN, FinishTask(w, ok) PROVE Durability'
  <2>1. /\ up /\ up' /\ pc[w] = "done" /\ tasks' = AfterFinish(w).tasks
        /\ PersistAll(AfterFinish(w).tasks, queue, ok)
        /\ running_cancel' = [running_cancel EXCEPT ![current[w]] = NoWorker]
        /\ canceled' = canceled \ {w}
        /\ UNCHANGED <<acked, cancelAcked>>
    BY <1>10 DEF FinishTask, Onward, history
  <2>2. /\ current[w] \in Tasks /\ Outcome(w) \in Terminal
        /\ tasks' = [tasks EXCEPT ![current[w]] = Outcome(w)]
    BY <2>1 DEF Ownership, RunningTasksAreOwned, TypeOK, Outcome, AfterFinish, Terminal
  <2>3. CancelReachedToken'
    <3> SUFFICES ASSUME NEW u \in cancelAcked, tasks'[u] = "Running"
                 PROVE  running_cancel'[u] \in canceled'
      BY <2>1 DEF CancelReachedToken
    <3>1. u \in Tasks /\ u # current[w] /\ tasks[u] = "Running"
      BY <2>2 DEF TypeOK, Terminal
    <3>2. running_cancel'[u] = running_cancel[u] /\ running_cancel[u] \in canceled
      BY <2>1, <3>1 DEF Durability, CancelReachedToken, TypeOK
    <3>3. running_cancel[u] # w
      BY <2>1, <3>1, WorkersAssumption DEF Ownership, TokensHaveOwners, TypeOK
    <3> QED BY <2>1, <3>2, <3>3
  <2>4. \A u \in Tasks : Follows(tasks[u], AfterFinish(w).tasks[u])
    BY <2>1, HandlersMoveForward
  <2>5. \A u \in cancelAcked : AfterFinish(w).tasks[u] \in Kept
    BY <2>1, HandlersKeepCancel
  <2> QED BY <2>1, <2>3, <2>4, <2>5, HandlerStep
<1>11. CASE Crash
  <2>1. /\ ~up' /\ \A t \in Tasks : tasks'[t] = "absent"
        /\ UNCHANGED <<diskTasks, acked, cancelAcked>>
    BY <1>11 DEF Crash, Reset, disk, history
  <2>2. \A t \in cancelAcked : diskTasks'[t] \in Kept
    BY <2>1 DEF Durability, CancelSticks, Kept
  <2> QED BY <2>1, <2>2, DownStep
<1>12. CASE CrashWriting
  <2>1. PICK after \in InFlight : WriteSome(Known(after.tasks), after.tasks, after.queue)
    BY <1>12 DEF CrashWriting
  <2>2. up /\ ~up' /\ UNCHANGED <<acked, cancelAcked>> /\ \A t \in Tasks : tasks'[t] = "absent"
    BY <1>12 DEF CrashWriting, Reset
  <2>3. after.tasks \in [Tasks -> Status]
    BY <2>1, AfterTyped DEF InFlight, Known, WellTyped
  <2>4. \A t \in cancelAcked : after.tasks[t] \in Kept
    BY <2>1, <2>2, HandlersKeepCancel DEF InFlight, Known
  <2>5. \A t \in Tasks :
          diskTasks'[t] = diskTasks[t] \/ (diskTasks'[t] = after.tasks[t] /\ after.tasks[t] # "absent")
    BY <2>1, <2>3, WrittenValues
  <2>6. \A t \in cancelAcked : diskTasks'[t] \in Kept
    BY <2>4, <2>5 DEF Durability, CancelSticks, Kept, TypeOK
  <2> QED BY <2>2, <2>5, <2>6, DownStep
<1>13. CASE UNCHANGED vars
  BY <1>13, QuietStep DEF vars, volatile, disk, history
<1> QED
  BY <1>1, <1>3, <1>4, <1>5, <1>6, <1>7, <1>8, <1>9, <1>10, <1>11, <1>12, <1>13
  DEF Next, Client, Worker

LEMMA InductiveInvariant == Spec => []IInv
<1>1. Init => IInv
  BY TypeInit, OwnershipInit, DurabilityInit DEF IInv
<1>2. IInv /\ [Next]_vars => IInv'
  BY TypeStep, OwnershipStep, DurabilityStep DEF IInv
<1> QED BY <1>1, <1>2, PTL DEF Spec

(* The files never run ahead of the memory, however many writes fail. *)
THEOREM DiskCorrect == Spec => []DiskNeverAhead
<1>1. IInv => DiskNeverAhead
  BY DEF IInv, Durability
<1> QED BY <1>1, InductiveInvariant, PTL

(* An acknowledged task survives every crash and every failed write. *)
THEOREM AckedCorrect == Spec => []AckedIsDurable
<1>1. IInv => AckedIsDurable
  BY DEF IInv, Durability
<1> QED BY <1>1, InductiveInvariant, PTL

(* An acknowledged cancellation sticks. *)
THEOREM CancelCorrect == Spec => []CancelSticks
<1>1. IInv => CancelSticks
  BY DEF IInv, Durability
<1> QED BY <1>1, InductiveInvariant, PTL

(* No step of a live manager changes a final status. *)
THEOREM FinalityCorrect == Spec => FinalStatusIsFinal
<1> DEFINE Final == up /\ up' => \A t \in Tasks : tasks[t] \in Terminal => tasks'[t] = tasks[t]
<1>1. IInv /\ [Next]_vars => [Final]_vars
  <2> SUFFICES ASSUME IInv, Next, up, up', NEW t \in Tasks, tasks[t] \in Terminal
               PROVE  tasks'[t] = tasks[t]
    OBVIOUS
  <2> USE DEF IInv
  <2>1. ASSUME NEW u \in Tasks, NEW ok \in BOOLEAN, AddTask(u, ok) PROVE tasks'[t] = tasks[t]
    BY <2>1 DEF AddTask, AfterAdd, TypeOK, Ownership, UndrawnIsFresh, Terminal
  <2>2. ASSUME NEW u \in Tasks, NEW ok \in BOOLEAN, CancelTask(u, ok) PROVE tasks'[t] = tasks[t]
    BY <2>2 DEF CancelTask, AfterCancel, TypeOK, Terminal
  <2>3. ASSUME NEW w \in Workers, NEW ok \in BOOLEAN, StartTask(w, ok) PROVE tasks'[t] = tasks[t]
    BY <2>3 DEF StartTask, AfterStart, Startable, TypeOK, Terminal
  <2>4. ASSUME NEW w \in Workers, NEW ok \in BOOLEAN, FinishTask(w, ok) PROVE tasks'[t] = tasks[t]
    <3>1. tasks[current[w]] = "Running"
      BY <2>4, WorkersAssumption DEF FinishTask, Onward, TypeOK, Ownership, RunningTasksAreOwned
    <3> QED BY <2>4, <3>1 DEF FinishTask, Onward, AfterFinish, TypeOK, Terminal
  <2>5. CASE Boot \/ BootFails \/ CrashBooting \/ Crash \/ CrashWriting
    BY <2>5 DEF Boot, BootFails, CrashBooting, Crash, CrashWriting, Reset
  <2> QED BY <2>1, <2>2, <2>3, <2>4, <2>5
          DEF Next, Client, Worker, RecordDetails, Shutdown, CheckShutdown, NothingToStart, Wait,
              WakeForShutdown, ExecutorReturns, ExecutorPanics, volatile
<1> QED BY <1>1, InductiveInvariant, PTL DEF Spec, FinalStatusIsFinal

-----------------------------------------------------------------------------
(* While every write succeeds.                                             *)

(* The files are the memory. *)
Synced == faults = 0 /\ up => \A t \in Tasks : diskTasks[t] = tasks[t]

(* What a reload would find waiting was never handed to an executor. *)
WaitingIsNew ==
  faults = 0 => \A t \in Tasks :
    starts[t] <= 1 /\ (diskTasks[t] \in {"absent", "Queued"} => starts[t] = 0)

Clean == TypeOK /\ Ownership /\ Synced /\ WaitingIsNew

(* One record moves as its lifecycle allows, or none does. *)
Moved(m) ==
  m = tasks \/ \E t \in Tasks, n \in Status :
                 <<tasks[t], n>> \in Lifecycle!Moves /\ m = [tasks EXCEPT ![t] = n]

LEMMA HandlersMoveOne ==
  ASSUME TypeOK, Ownership
  PROVE  /\ \A t \in Tasks \ drawn : Moved(AfterAdd(t).tasks)
         /\ \A t \in Tasks : Moved(AfterCancel(t).tasks)
         /\ Startable => Moved(AfterStart.tasks)
         /\ \A w \in Workers : pc[w] = "done" => Moved(AfterFinish(w).tasks)
<1>1. ASSUME NEW t \in Tasks \ drawn PROVE Moved(AfterAdd(t).tasks)
  <2>1. tasks[t] = "absent" /\ <<"absent", "Queued">> \in Lifecycle!Moves /\ "Queued" \in Status
    BY <1>1 DEF Ownership, UndrawnIsFresh, Lifecycle!Moves, Status
  <2> QED BY <1>1, <2>1 DEF Moved, AfterAdd
<1>2. ASSUME NEW t \in Tasks PROVE Moved(AfterCancel(t).tasks)
  <2>1. <<"Queued", "Canceled">> \in Lifecycle!Moves /\ "Canceled" \in Status
    BY DEF Lifecycle!Moves, Status, Terminal
  <2> QED BY <1>2, <2>1 DEF Moved, AfterCancel
<1>3. ASSUME Startable PROVE Moved(AfterStart.tasks)
  <2>1. Head(queue) \in Tasks /\ tasks[Head(queue)] = "Queued"
    BY <1>3, HeadTailProperties DEF Startable, TypeOK
  <2>2. <<"Queued", "Running">> \in Lifecycle!Moves /\ "Running" \in Status
    BY DEF Lifecycle!Moves, Status
  <2> QED BY <2>1, <2>2 DEF Moved, AfterStart
<1>4. ASSUME NEW w \in Workers, pc[w] = "done" PROVE Moved(AfterFinish(w).tasks)
  <2>1. tasks[current[w]] = "Running" /\ current[w] \in Tasks /\ Outcome(w) \in Terminal
    BY <1>4, WorkersAssumption DEF TypeOK, Ownership, RunningTasksAreOwned, Outcome, Terminal
  <2>2. <<"Running", Outcome(w)>> \in Lifecycle!Moves /\ Outcome(w) \in Status
    BY <2>1 DEF Lifecycle!Moves, Lifecycle!Terminal, Status, Terminal
  <2> QED BY <2>1, <2>2 DEF Moved, AfterFinish
<1> QED BY <1>1, <1>2, <1>3, <1>4

(* No move makes a record vanish or puts one back in the queue. *)
LEMMA MovesForward ==
  ASSUME TypeOK, NEW m, Moved(m), NEW t \in Tasks
  PROVE  /\ m \in [Tasks -> Status]
         /\ m[t] = "absent" => tasks[t] = "absent"
         /\ m[t] \in {"absent", "Queued"} => tasks[t] \in {"absent", "Queued"}
BY DEF TypeOK, Moved, Lifecycle!Moves, Lifecycle!Terminal, Status, Terminal

(* A failed write is one that is counted. *)
LEMMA CleanWrites ==
  ASSUME TypeOK, NEW m, NEW q, NEW ok \in BOOLEAN, PersistAll(m, q, ok), faults' = 0
  PROVE  faults = 0 /\ ok = TRUE
BY BoundsAssumption DEF PersistAll, TypeOK

LEMMA CleanHandler ==
  ASSUME Clean, NEW m, NEW q, NEW ok \in BOOLEAN, PersistAll(m, q, ok), Moved(m), tasks' = m, up
  PROVE  Synced' /\ (faults' = 0 => \A t \in Tasks : diskTasks[t] = tasks[t] /\ diskTasks'[t] = m[t])
<1> SUFFICES ASSUME faults' = 0, NEW t \in Tasks
             PROVE  diskTasks[t] = tasks[t] /\ diskTasks'[t] = m[t]
  BY DEF Synced
<1>1. faults = 0 /\ ok = TRUE
  BY CleanWrites DEF Clean
<1>2. diskTasks[t] = tasks[t]
  BY <1>1 DEF Clean, Synced
<1>3. m[t] = "absent" => tasks[t] = "absent"
  BY MovesForward DEF Clean
<1>4. diskTasks'[t] = IF m[t] # "absent" THEN m[t] ELSE diskTasks[t]
  BY <1>1 DEF PersistAll, WriteTasks, Known
<1> QED BY <1>2, <1>3, <1>4

(* A handler that starts nothing. *)
LEMMA CleanOther ==
  ASSUME Clean, NEW m, NEW q, NEW ok \in BOOLEAN, PersistAll(m, q, ok), Moved(m), tasks' = m, up,
         starts' = starts
  PROVE  Synced' /\ WaitingIsNew'
<1>1. Synced' /\ (faults' = 0 => \A t \in Tasks : diskTasks[t] = tasks[t] /\ diskTasks'[t] = m[t])
  BY CleanHandler
<1>2. faults' = 0 => faults = 0
  BY CleanWrites DEF Clean
<1>3. \A t \in Tasks : m[t] \in {"absent", "Queued"} => tasks[t] \in {"absent", "Queued"}
  BY MovesForward DEF Clean
<1> QED BY <1>1, <1>2, <1>3 DEF Clean, WaitingIsNew

(* A step that changes neither record nor file. *)
LEMMA CleanQuiet ==
  ASSUME Clean, UNCHANGED <<up, tasks, diskTasks, faults, starts>>
  PROVE  Synced' /\ WaitingIsNew'
BY DEF Clean, Synced, WaitingIsNew

LEMMA CleanInit == Init => Synced /\ WaitingIsNew
BY DEF Init, Synced, WaitingIsNew

LEMMA CleanStep == Clean /\ [Next]_vars => Synced' /\ WaitingIsNew'
<1> SUFFICES ASSUME Clean, [Next]_vars PROVE Synced' /\ WaitingIsNew'
  OBVIOUS
<1>0. TypeOK /\ Ownership /\ faults \in Nat
  BY BoundsAssumption DEF Clean, TypeOK
<1>1. CASE Boot
  <2>1. /\ tasks' = Loaded(diskTasks) /\ WriteTasks(Recovered(diskTasks), Loaded(diskTasks))
        /\ faults' = faults /\ starts' = starts
    BY <1>1 DEF Boot, bounds, history
  <2>2. \A t \in Tasks : /\ diskTasks'[t] = tasks'[t]
                         /\ diskTasks'[t] \in {"absent", "Queued"} => diskTasks[t] = diskTasks'[t]
    BY <2>1 DEF WriteTasks, Recovered, Loaded
  <2> QED BY <2>1, <2>2 DEF Clean, Synced, WaitingIsNew
<1>2. CASE BootFails
  BY <1>0, <1>2 DEF BootFails, Synced, WaitingIsNew
<1>3. CASE CrashBooting
  <2>1. ~up' /\ faults' = faults /\ starts' = starts
    BY <1>3 DEF CrashBooting, history
  <2>2. \A t \in Tasks : diskTasks'[t] = diskTasks[t] \/ diskTasks'[t] = "Failed"
    BY <1>3 DEF CrashBooting, WriteSome, WriteTasks, Recovered, Loaded, disk
  <2> QED BY <2>1, <2>2 DEF Clean, Synced, WaitingIsNew
<1>4. ASSUME NEW t \in Tasks, NEW ok \in BOOLEAN, AddTask(t, ok) PROVE Synced' /\ WaitingIsNew'
  BY <1>0, <1>4, HandlersMoveOne, CleanOther DEF AddTask
<1>5. ASSUME NEW t \in Tasks, NEW ok \in BOOLEAN, CancelTask(t, ok) PROVE Synced' /\ WaitingIsNew'
  BY <1>0, <1>5, HandlersMoveOne, CleanOther DEF CancelTask
<1>6. ASSUME NEW t \in Tasks, NEW ok \in BOOLEAN, RecordDetails(t, ok)
      PROVE  Synced' /\ WaitingIsNew'
  <2>1. up /\ UNCHANGED <<up, tasks, starts>>
    BY <1>6 DEF RecordDetails, volatile, history
  <2>2. CASE ok
    <3>1. faults' = faults
      BY <1>6, <2>2 DEF RecordDetails, PersistTask
    <3>2. \A u \in Tasks : diskTasks'[u] = diskTasks[u] \/ diskTasks'[u] = tasks[u]
      BY <1>6, <2>2 DEF RecordDetails, PersistTask, WriteTasks
    <3>3. faults = 0 => \A u \in Tasks : diskTasks[u] = tasks[u]
      BY <2>1 DEF Clean, Synced
    <3> QED BY <2>1, <3>1, <3>2, <3>3 DEF Clean, Synced, WaitingIsNew
  <2>3. CASE ~ok
    BY <1>0, <1>6, <2>3 DEF RecordDetails, PersistTask, Synced, WaitingIsNew
  <2> QED BY <2>2, <2>3
<1>7. CASE Shutdown
  BY <1>7, CleanQuiet DEF Shutdown, disk, bounds, history
<1>8. ASSUME NEW w \in Workers,
             CheckShutdown(w) \/ NothingToStart(w) \/ Wait(w) \/ WakeForShutdown(w)
               \/ ExecutorPanics(w) \/ \E r \in Terminal : ExecutorReturns(w, r)
      PROVE  Synced' /\ WaitingIsNew'
  BY <1>8, CleanQuiet DEF CheckShutdown, NothingToStart, Wait, WakeForShutdown, ExecutorPanics,
     ExecutorReturns, disk, bounds, history
<1>9. ASSUME NEW w \in Workers, NEW ok \in BOOLEAN, StartTask(w, ok) PROVE Synced' /\ WaitingIsNew'
  <2>1. /\ up /\ Startable /\ tasks' = AfterStart.tasks
        /\ PersistAll(AfterStart.tasks, AfterStart.queue, ok)
        /\ starts' = [starts EXCEPT ![Head(queue)] = @ + 1]
    BY <1>9 DEF StartTask
  <2>2. Head(queue) \in Tasks /\ tasks[Head(queue)] = "Queued"
    BY <1>0, <2>1, HeadTailProperties DEF Startable, TypeOK
  <2>3. Moved(AfterStart.tasks)
    BY <1>0, <2>1, HandlersMoveOne
  <2>4. /\ Synced'
        /\ faults' = 0 => \A t \in Tasks : /\ diskTasks[t] = tasks[t]
                                            /\ diskTasks'[t] = AfterStart.tasks[t]
    BY <2>1, <2>3, CleanHandler
  <2>5. faults' = 0 => faults = 0
    BY <1>0, <2>1, CleanWrites
  <2>6. \A t \in Tasks : AfterStart.tasks[t] = IF t = Head(queue) THEN "Running" ELSE tasks[t]
    BY <1>0 DEF AfterStart, TypeOK
  <2>7. ASSUME faults' = 0, NEW t \in Tasks
        PROVE  starts'[t] <= 1 /\ (diskTasks'[t] \in {"absent", "Queued"} => starts'[t] = 0)
    <3>1. CASE t = Head(queue)
      BY <1>0, <2>1, <2>2, <2>4, <2>5, <2>6, <2>7, <3>1 DEF Clean, WaitingIsNew, TypeOK
    <3>2. CASE t # Head(queue)
      BY <1>0, <2>1, <2>4, <2>5, <2>6, <2>7, <3>2 DEF Clean, WaitingIsNew, TypeOK
    <3> QED BY <3>1, <3>2
  <2> QED BY <2>4, <2>7 DEF WaitingIsNew
<1>10. ASSUME NEW w \in Workers, NEW ok \in BOOLEAN, FinishTask(w, ok)
       PROVE  Synced' /\ WaitingIsNew'
  BY <1>0, <1>10, HandlersMoveOne, CleanOther DEF FinishTask, history
<1>11. CASE Crash
  BY <1>11 DEF Crash, Reset, disk, history, Clean, Synced, WaitingIsNew
<1>12. CASE CrashWriting
  <2>1. PICK after \in InFlight : WriteSome(Known(after.tasks), after.tasks, after.queue)
    BY <1>12 DEF CrashWriting
  <2>2. up /\ ~up' /\ starts' = starts /\ faults' = faults
    BY <1>12 DEF CrashWriting, Reset
  <2>3. Moved(after.tasks)
    BY <1>0, <2>1, HandlersMoveOne DEF InFlight, Known
  <2>4. \A t \in Tasks : diskTasks'[t] = diskTasks[t] \/ diskTasks'[t] = after.tasks[t]
    BY <2>1 DEF WriteSome, WriteTasks, disk
  <2>5. \A t \in Tasks : after.tasks[t] \in {"absent", "Queued"} => tasks[t] \in {"absent", "Queued"}
    BY <1>0, <2>3, MovesForward
  <2> QED BY <2>2, <2>4, <2>5 DEF Clean, Synced, WaitingIsNew
<1>13. CASE UNCHANGED vars
  BY <1>13, CleanQuiet DEF vars, volatile, disk, bounds, history
<1> QED
  BY <1>1, <1>2, <1>3, <1>4, <1>5, <1>6, <1>7, <1>8, <1>9, <1>10, <1>11, <1>12, <1>13
  DEF Next, Client, Worker

LEMMA CleanInvariant == Spec => []Clean
<1>1. Init => Clean
  BY TypeInit, OwnershipInit, CleanInit DEF Clean
<1>2. Clean /\ [Next]_vars => Clean'
  BY TypeStep, OwnershipStep, CleanStep DEF Clean
<1> QED BY <1>1, <1>2, PTL DEF Spec

(* While every write succeeds no task is handed to an executor twice, in   *)
(* whatever handler or reload the process dies.                            *)
THEOREM StartedCorrect == Spec => []StartedAtMostOnce
<1>1. Clean => StartedAtMostOnce
  BY DEF Clean, WaitingIsNew, StartedAtMostOnce
<1> QED BY <1>1, CleanInvariant, PTL

-----------------------------------------------------------------------------
(* The refinement: the table a client sees moves as TaskLifecycle says.    *)

(* Faults are counted and never forgotten. *)
LEMMA FaultsStay == Clean /\ [Next]_vars /\ faults' = 0 => faults = 0
<1> SUFFICES ASSUME Clean, [Next]_vars, faults' = 0 PROVE faults = 0
  OBVIOUS
<1>0. faults \in Nat /\ TypeOK
  BY BoundsAssumption DEF Clean, TypeOK
<1>1. CASE UNCHANGED faults
  BY <1>1
<1>2. ASSUME NEW m, NEW q, NEW ok \in BOOLEAN, PersistAll(m, q, ok) PROVE faults = 0
  BY <1>0, <1>2, CleanWrites
<1>3. ASSUME NEW t \in Tasks, NEW ok \in BOOLEAN, RecordDetails(t, ok) PROVE faults = 0
  BY <1>0, <1>3 DEF RecordDetails, PersistTask
<1>4. CASE BootFails
  BY <1>0, <1>4 DEF BootFails
<1> QED
  BY <1>1, <1>2, <1>3, <1>4
  DEF Next, Client, Worker, Boot, AddTask, CancelTask, Shutdown, CheckShutdown, NothingToStart,
      StartTask, Wait, WakeForShutdown, ExecutorReturns, ExecutorPanics, FinishTask, Crash,
      CrashWriting, CrashBooting, bounds, vars

(* A handler that runs to its end. *)
LEMMA MovedOperates ==
  ASSUME TypeOK, up, up', Moved(tasks')
  PROVE  Lifecycle!Operate \/ UNCHANGED Reported
BY DEF Moved, Reported, Lifecycle!Operate, Lifecycle!Status, Lifecycle!Terminal, Status, Terminal

(* A death that leaves in the files what the memory held, or what it was   *)
(* about to hold.                                                          *)
LEMMA DeathCrashes ==
  ASSUME TypeOK, up, ~up', NEW m, Moved(m), diskTasks' = tasks \/ diskTasks' = m
  PROVE  Lifecycle!Crash
<1>1. Reported = tasks /\ Reported' = Loaded(diskTasks')
  BY DEF Reported
<1>2. \A s : Lifecycle!Interrupted(s) = Loaded(s)
  BY DEF Lifecycle!Interrupted, Loaded
<1>3. CASE diskTasks' = tasks
  BY <1>1, <1>2, <1>3 DEF Lifecycle!Crash
<1>4. CASE diskTasks' = m /\ m # tasks
  BY <1>1, <1>2, <1>4
  DEF Moved, Lifecycle!Crash, Lifecycle!Status, Lifecycle!Terminal, Status, Terminal
<1> QED BY <1>3, <1>4

LEMMA CleanReported ==
  ASSUME Clean, [Next]_vars, faults = 0, faults' = 0
  PROVE  Lifecycle!Operate \/ Lifecycle!Crash \/ UNCHANGED Reported
<1>0. TypeOK /\ Ownership
  BY DEF Clean
<1>1. CASE Boot
  <2>1. ~up /\ up' /\ tasks' = Loaded(diskTasks)
    BY <1>1 DEF Boot
  <2> QED BY <2>1 DEF Reported
<1>2. CASE BootFails
  BY <1>0, <1>2, BoundsAssumption DEF BootFails, TypeOK
<1>3. CASE CrashBooting
  <2>1. ~up /\ ~up'
    BY <1>3 DEF CrashBooting
  <2>2. \A t \in Tasks : diskTasks'[t] = diskTasks[t]
                          \/ (diskTasks[t] = "Running" /\ diskTasks'[t] = "Failed")
    BY <1>3 DEF CrashBooting, WriteSome, WriteTasks, Recovered, Loaded, disk
  <2>3. Loaded(diskTasks') = Loaded(diskTasks)
    BY <2>2 DEF Loaded
  <2> QED BY <2>1, <2>3 DEF Reported
<1>4. CASE \E t \in Tasks, ok \in BOOLEAN : AddTask(t, ok) \/ CancelTask(t, ok)
  <2>1. up /\ up' /\ Moved(tasks')
    BY <1>0, <1>4, HandlersMoveOne DEF AddTask, CancelTask
  <2> QED BY <1>0, <2>1, MovedOperates
<1>5. CASE \E w \in Workers, ok \in BOOLEAN : StartTask(w, ok) \/ FinishTask(w, ok)
  <2>1. up /\ up' /\ Moved(tasks')
    BY <1>0, <1>5, HandlersMoveOne DEF StartTask, FinishTask
  <2> QED BY <1>0, <2>1, MovedOperates
<1>6. CASE up /\ UNCHANGED <<up, tasks>>
  BY <1>6 DEF Reported
<1>7. CASE Crash
  <2>1. up /\ ~up' /\ diskTasks' = diskTasks
    BY <1>7 DEF Crash, Reset, disk
  <2>2. diskTasks = tasks
    BY <1>0, <2>1 DEF Clean, Synced, TypeOK
  <2> QED BY <1>0, <2>1, <2>2, DeathCrashes DEF Moved
<1>8. CASE CrashWriting
  <2>1. PICK after \in InFlight : WriteSome(Known(after.tasks), after.tasks, after.queue)
    BY <1>8 DEF CrashWriting
  <2>2. up /\ ~up'
    BY <1>8 DEF CrashWriting, Reset
  <2>3. Moved(after.tasks)
    BY <1>0, <2>1, HandlersMoveOne DEF InFlight, Known
  <2>4. diskTasks = tasks
    BY <1>0, <2>2 DEF Clean, Synced, TypeOK
  <2>5. CASE diskTasks' = diskTasks
    BY <1>0, <2>2, <2>3, <2>4, <2>5, DeathCrashes
  <2>6. ASSUME NEW W, WriteTasks(W, after.tasks) PROVE Lifecycle!Crash
    <3>1. diskTasks' = [t \in Tasks |-> IF t \in W THEN after.tasks[t] ELSE tasks[t]]
      BY <2>4, <2>6 DEF WriteTasks
    <3>2. diskTasks' = tasks \/ diskTasks' = after.tasks
      <4>1. tasks = [t \in Tasks |-> tasks[t]]
        BY <1>0 DEF TypeOK
      <4>2. CASE after.tasks = tasks
        BY <3>1, <4>1, <4>2
      <4>3. ASSUME NEW u \in Tasks, NEW n \in Status, after.tasks = [tasks EXCEPT ![u] = n]
            PROVE  diskTasks' = tasks \/ diskTasks' = after.tasks
        <5> HIDE DEF Status
        <5>1. after.tasks = [t \in Tasks |-> after.tasks[t]]
          BY <4>1, <4>3
        <5>2. \A t \in Tasks : t # u => after.tasks[t] = tasks[t]
          BY <4>1, <4>3
        <5>3. CASE u \in W
          BY <3>1, <5>1, <5>2, <5>3
        <5>4. CASE u \notin W
          BY <3>1, <4>1, <5>2, <5>4
        <5> QED BY <5>3, <5>4
      <4> QED BY <2>3, <4>2, <4>3 DEF Moved
    <3> QED BY <1>0, <2>2, <2>3, <3>2, DeathCrashes
  <2> QED BY <2>1, <2>5, <2>6 DEF WriteSome, disk
<1>9. CASE UNCHANGED vars
  BY <1>9 DEF vars, volatile, disk, Reported
<1> QED
  BY <1>1, <1>2, <1>3, <1>4, <1>5, <1>6, <1>7, <1>8, <1>9
  DEF Next, Client, Worker, RecordDetails, Shutdown, CheckShutdown, NothingToStart, Wait,
      WakeForShutdown, ExecutorReturns, ExecutorPanics, volatile

(* While every write succeeds the manager implements TaskLifecycle: one    *)
(* record moves at a time and only forward, and a death fails exactly what *)
(* was running, whatever operation it cut short.                           *)
THEOREM LifecycleCorrect == Spec => ImplementsLifecycle
<1>1. Init => Lifecycle!Init
  BY DEF Init, Lifecycle!Init, Reported, Loaded
<1>2. Clean /\ [Next]_vars => [Lifecycle!Next]_<<Reported, faults = 0>>
  <2> SUFFICES ASSUME Clean, [Next]_vars PROVE [Lifecycle!Next]_<<Reported, faults = 0>>
    OBVIOUS
  <2>1. CASE faults' # 0
    BY <2>1 DEF Lifecycle!Next
  <2>2. CASE faults' = 0
    <3>1. faults = 0
      BY <2>2, FaultsStay
    <3>2. Lifecycle!Operate \/ Lifecycle!Crash \/ UNCHANGED Reported
      BY <2>2, <3>1, CleanReported
    <3> QED BY <2>2, <3>1, <3>2 DEF Lifecycle!Next
  <2> QED BY <2>1, <2>2
<1> QED BY <1>1, <1>2, CleanInvariant, PTL DEF Spec, ImplementsLifecycle, Lifecycle!Spec
=============================================================================

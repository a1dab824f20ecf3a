------------------------- MODULE Automations_proofs -------------------------
(***************************************************************************)
(* Proofs about Automations when one process serves the directory, for any *)
(* automations and any bounds.  They rest on the mutex: what the loop or a *)
(* handler read while it held it is still true when it writes.  How many   *)
(* runs are made is a count of the slots that are spent on them, and the   *)
(* types follow from it.                                                   *)
(***************************************************************************)
EXTENDS Automations, FiniteSetTheorems, TLAPS

OneProcess == \A p, q \in Procs : p = q

(* A job has all its fields, whatever these hold. *)
IsJob(j) == DOMAIN j = {"pc", "op", "auto", "rec", "run", "due", "pending"}

Shapes ==
  /\ job = [x \in Actors |-> job[x]] /\ \A x \in Actors : IsJob(job[x])
  /\ file = [a \in Autos |-> file[a]]

(* One actor at a time holds the mutex. *)
Locked == \A x, y \in Actors : job[x].pc # "idle" /\ job[y].pc # "idle" => x = y

(* What a tick still has to visit is as it read it. *)
DuesStand(x) ==
  \A d \in job[x].due :
    d = <<d[1], d[2]>> /\ d[1] \in Autos /\ file[d[1]].state = "active" /\ file[d[1]].next = d[2]

(* What is to be saved of an automation is what the file holds, or the     *)
(* same with the slot after, once the run of the slot is saved.            *)
TickHolds(x) ==
  LET a == job[x].auto
  IN /\ job[x].op = "tick" /\ file[a].state = "active"
     /\ job[x].rec = Active(NextAfter(file[a].next))
     /\ \A d \in job[x].due : d[1] # a
     /\ job[x].pc = "run" => job[x].run.auto = a /\ job[x].run.slot = file[a].next
     /\ job[x].pc = "auto" => \E r \in RunsOf(a) : r.slot = file[a].next
HandHolds(x) == job[x].op = "run_now" /\ job[x].rec = file[job[x].auto]

Holds(x) ==
  /\ job[x].pc = "visit" => job[x].op = "tick"
  /\ job[x].pc \in {"visit", "run", "auto"} /\ job[x].op = "tick" => DuesStand(x)
  /\ job[x].pc \in {"run", "auto"} =>
       job[x].auto \in Autos /\ Exists(job[x].auto) /\ (TickHolds(x) \/ HandHolds(x))

IInv == Shapes /\ Locked /\ \A x \in Actors : Holds(x)

-----------------------------------------------------------------------------

LEMMA InitInv == Init => IInv
<1> SUFFICES ASSUME Init PROVE IInv
  OBVIOUS
<1>1. \A x \in Actors : job[x] = Idle
  BY DEF Init
<1>2. IsJob(Idle)
  BY DEF IsJob, Idle
<1>3. Shapes
  BY <1>1, <1>2 DEF Shapes, Init
<1>4. Locked /\ \A x \in Actors : Holds(x)
  BY <1>1 DEF Locked, Holds, Idle
<1> QED BY <1>3, <1>4 DEF IInv

(* Whoever takes the mutex or goes on with it is the only one. *)
LEMMA OthersIdle ==
  ASSUME IInv, OneProcess, NEW x \in Actors, NEW y \in Actors, x # y,
         job[x].pc # "idle" \/ MayBegin(x)
  PROVE  job[y].pc = "idle"
<1>1. Proc(x) = Proc(y)
  BY DEF Actors, Proc, OneProcess
<1> QED BY <1>1 DEF IInv, Locked, MayBegin

(* A step of one actor: the others stay idle, and it holds what it should. *)
LEMMA ActorKeeps ==
  ASSUME IInv, OneProcess, NEW x \in Actors, NEW j,
         job[x].pc # "idle" \/ MayBegin(x),
         job' = [job EXCEPT ![x] = j], IsJob(j), Holds(x)',
         file' = [a \in Autos |-> file'[a]]
  PROVE  IInv'
<1>1. job'[x] = j /\ \A y \in Actors : y # x => job'[y] = job[y]
  BY DEF IInv, Shapes
<1>2. \A y \in Actors : y # x => job'[y].pc = "idle"
  BY <1>1, OthersIdle
<1>3. Locked'
  BY <1>2 DEF Locked
<1>4. \A y \in Actors : Holds(y)'
  BY <1>2 DEF Holds
<1>5. Shapes'
  <2>1. job' = [y \in Actors |-> job'[y]]
    BY DEF IInv, Shapes
  <2>2. \A y \in Actors : IsJob(job'[y])
    BY <1>1 DEF IInv, Shapes
  <2> QED BY <2>1, <2>2 DEF Shapes
<1> QED BY <1>3, <1>4, <1>5 DEF IInv

(* A step that leaves the automations and the actors as they are. *)
LEMMA BesideKeeps ==
  ASSUME IInv, UNCHANGED <<file, job, runs>>
  PROVE  IInv'
<1>1. Shapes' /\ Locked'
  BY DEF IInv, Shapes, Locked
<1>2. ASSUME NEW x \in Actors PROVE Holds(x)'
  BY DEF IInv, Holds, DuesStand, TickHolds, HandHolds, Exists, RunsOf
<1> QED BY <1>1, <1>2 DEF IInv

-----------------------------------------------------------------------------
(* The loop.                                                               *)

LEMMA LoopActor == ASSUME NEW p \in Procs PROVE Loop(p) \in Actors /\ Api(p) \in Actors
BY DEF Loop, Api, Actors

LEMMA TickBeginKeeps ==
  ASSUME IInv, OneProcess, NEW p \in Procs, TickBegin(p)
  PROVE  IInv'
<1> DEFINE x == Loop(p)
           due == {<<a, file[a].next>> : a \in {b \in Autos : file[b].state = "active" /\ file[b].next <= now}}
           j == [Idle EXCEPT !.pc = "visit", !.op = "tick", !.due = due]
<1>1. x \in Actors
  BY LoopActor
<1>2. job' = [job EXCEPT ![x] = j] /\ file' = file /\ MayBegin(x)
  BY DEF TickBegin
<1>3. \A d \in due : d = <<d[1], d[2]>> /\ d[1] \in Autos /\ file[d[1]].state = "active" /\ file[d[1]].next = d[2]
  OBVIOUS
<1>4. IsJob(j) /\ j.pc = "visit" /\ j.op = "tick" /\ j.due = due
  BY DEF Idle, IsJob
<1> HIDE DEF x, due, j
<1>5. job'[x] = j
  BY <1>1, <1>2 DEF IInv, Shapes
<1>6. Holds(x)'
  BY <1>2, <1>3, <1>4, <1>5 DEF Holds, DuesStand
<1> QED BY <1>1, <1>2, <1>4, <1>6, ActorKeeps DEF IInv, Shapes

(* The visit of an automation, and what is saved of it afterwards. *)
LEMMA VisitedFields ==
  ASSUME IInv, NEW x \in Actors, NEW d, Visits(x, d)
  PROVE  LET j == Visited(x, d)
         IN /\ IsJob(j) /\ j.op = "tick" /\ j.auto = d[1] /\ j.rec = Active(NextAfter(d[2]))
            /\ j.due = job[x].due \ {d}
<1>1. IsJob(job[x]) /\ job[x].op = "tick"
  BY DEF Visits, IInv, Shapes, Holds
<1> QED BY <1>1 DEF Visited, IsJob

LEMMA VisitHolds ==
  ASSUME IInv, NEW x \in Actors, NEW d \in job[x].due, Visits(x, d), UNCHANGED <<file, runs>>,
         job'[x].op = "tick", job'[x].auto = d[1], job'[x].rec = Active(NextAfter(d[2])),
         job'[x].due = job[x].due \ {d},
         \/ job'[x].pc = "run" /\ job'[x].run.auto = d[1] /\ job'[x].run.slot = d[2]
         \/ job'[x].pc = "auto" /\ RunExists(d[1], d[2])
  PROVE  Holds(x)'
<1>1. DuesStand(x)
  BY DEF IInv, Holds, Visits
<1>2. d[1] \in Autos /\ file[d[1]].state = "active" /\ file[d[1]].next = d[2]
  BY <1>1 DEF DuesStand
<1>3. DuesStand(x)'
  BY <1>1 DEF DuesStand
<1>4. \A e \in job'[x].due : e[1] # d[1]
  BY <1>1 DEF DuesStand
<1>5. RunExists(d[1], d[2]) => \E q \in RunsOf(d[1]) : q.slot = d[2]
  BY DEF RunExists, Latest
<1>6. TickHolds(x)'
  BY <1>2, <1>4, <1>5 DEF TickHolds, RunsOf
<1> QED BY <1>2, <1>3, <1>6 DEF Holds, Exists

LEMMA TickKnowsKeeps ==
  ASSUME IInv, OneProcess, NEW p \in Procs, NEW d \in job[Loop(p)].due, TickKnows(p, d)
  PROVE  IInv'
<1> DEFINE x == Loop(p)
           j == [Visited(x, d) EXCEPT !.pc = "auto"]
<1>1. x \in Actors /\ Visits(x, d) /\ job[x].pc # "idle"
  BY LoopActor DEF TickKnows, Visits
<1>2. job' = [job EXCEPT ![x] = j] /\ UNCHANGED <<file, runs>> /\ RunExists(d[1], d[2])
  BY DEF TickKnows
<1>3. job'[x] = j
  BY <1>1, <1>2 DEF IInv, Shapes
<1>4. /\ IsJob(j) /\ j.op = "tick" /\ j.auto = d[1] /\ j.rec = Active(NextAfter(d[2]))
      /\ j.due = job[x].due \ {d} /\ j.pc = "auto"
  BY <1>1, VisitedFields DEF IsJob
<1> HIDE DEF x, j
<1>5. d \in job[x].due
  BY DEF x
<1>6. Holds(x)'
  BY <1>1, <1>2, <1>3, <1>4, <1>5, VisitHolds
<1> QED BY <1>1, <1>2, <1>4, <1>6, ActorKeeps DEF IInv, Shapes

LEMMA TickRunsKeeps ==
  ASSUME IInv, OneProcess, NEW p \in Procs, NEW d \in job[Loop(p)].due, TickRuns(p, d)
  PROVE  IInv'
<1> DEFINE x == Loop(p)
           v == Visited(x, d)
<1>1. x \in Actors /\ Visits(x, d) /\ job[x].pc # "idle" /\ d \in job[x].due
  BY LoopActor DEF TickRuns, Visits
<1>2. UNCHANGED <<file, runs>> /\ Enqueue(x, v, d[2])
  BY DEF TickRuns
<1>3. /\ IsJob(v) /\ v.op = "tick" /\ v.auto = d[1] /\ v.rec = Active(NextAfter(d[2]))
      /\ v.due = job[x].due \ {d}
  BY <1>1, VisitedFields
<1> HIDE DEF x, v
<1> DEFINE run(s) == [id |-> made', auto |-> v.auto, slot |-> d[2], status |-> s, task |-> s = "running"]
<1>4. PICK s \in {"running", "failed"} :
        job' = [job EXCEPT ![x] = [v EXCEPT !.pc = "run", !.run = run(s)]]
  BY <1>2 DEF Enqueue
<1> DEFINE j == [v EXCEPT !.pc = "run", !.run = run(s)]
<1>5. /\ IsJob(j) /\ j.op = "tick" /\ j.auto = d[1] /\ j.rec = Active(NextAfter(d[2]))
      /\ j.due = job[x].due \ {d} /\ j.pc = "run" /\ j.run.auto = d[1] /\ j.run.slot = d[2]
  BY <1>3 DEF IsJob
<1>6. job' = [job EXCEPT ![x] = j]
  BY <1>4
<1> HIDE DEF j
<1>7. job'[x] = j
  BY <1>1, <1>6 DEF IInv, Shapes
<1>8. Holds(x)'
  BY <1>1, <1>2, <1>5, <1>7, VisitHolds
<1> QED BY <1>1, <1>2, <1>5, <1>6, <1>8, ActorKeeps DEF IInv, Shapes

(* Back to the next automation, or to nothing. *)
LEMMA Proceeds ==
  ASSUME IInv, OneProcess, NEW x \in Actors, job[x].pc \in {"run", "auto", "runs"},
         file' = [a \in Autos |-> file'[a]], NEW due \in SUBSET job[x].due,
         \/ job' = [Proceed(x) EXCEPT ![x].due = due]
         \/ job' = Proceed(x) /\ due = job[x].due,
         job[x].op = "tick" => \A d \in due : /\ d = <<d[1], d[2]>> /\ d[1] \in Autos
                                             /\ file'[d[1]].state = "active" /\ file'[d[1]].next = d[2]
  PROVE  IInv'
<1> DEFINE nothing == [Idle EXCEPT !.due = due]
           next == [Idle EXCEPT !.pc = "visit", !.op = "tick", !.due = due]
           before == [Idle EXCEPT !.pc = "visit", !.op = "tick", !.due = job[x].due]
<1>1. /\ IsJob(Idle) /\ IsJob(nothing) /\ Idle.pc = "idle" /\ nothing.pc = "idle"
      /\ IsJob(next) /\ next.pc = "visit" /\ next.op = "tick" /\ next.due = due
  BY DEF IsJob, Idle
<1>2. CASE job[x].op # "tick"
  <2>1. Proceed(x) = [job EXCEPT ![x] = Idle]
    BY <1>2 DEF Proceed
  <2>2. job' = [job EXCEPT ![x] = Idle] \/ job' = [job EXCEPT ![x] = nothing]
    BY <2>1 DEF IInv, Shapes
  <2> HIDE DEF nothing
  <2>3. job'[x].pc = "idle"
    BY <1>1, <2>2 DEF IInv, Shapes
  <2>4. Holds(x)'
    BY <2>3 DEF Holds
  <2> QED BY <1>1, <2>2, <2>4, ActorKeeps
<1>3. CASE job[x].op = "tick"
  <2>1. Proceed(x) = [job EXCEPT ![x] = before]
    BY <1>3 DEF Proceed
  <2>2. [before EXCEPT !.due = due] = next
    BY DEF Idle
  <2>3. job' = [job EXCEPT ![x] = next]
    BY <2>1, <2>2 DEF IInv, Shapes
  <2> HIDE DEF next
  <2>4. job'[x] = next
    BY <2>3 DEF IInv, Shapes
  <2>5. DuesStand(x)'
    BY <1>1, <1>3, <2>4 DEF DuesStand
  <2>6. Holds(x)'
    BY <1>1, <2>4, <2>5 DEF Holds
  <2> QED BY <1>1, <2>3, <2>6, ActorKeeps
<1> QED BY <1>2, <1>3

LEMMA SaveRunKeeps ==
  ASSUME IInv, OneProcess, NEW x \in Actors, SaveRun(x)
  PROVE  IInv'
<1> DEFINE j == [job[x] EXCEPT !.pc = "auto", !.run = NoRun]
<1>1. job' = [job EXCEPT ![x] = j] /\ file' = file /\ runs' = runs \cup {job[x].run}
      /\ job[x].pc = "run"
  BY DEF SaveRun, IInv, Shapes
<1>2. /\ IsJob(j) /\ j.pc = "auto" /\ j.op = job[x].op /\ j.auto = job[x].auto
      /\ j.rec = job[x].rec /\ j.due = job[x].due
  BY DEF IInv, Shapes, IsJob
<1> HIDE DEF j
<1>3. job'[x] = j
  BY <1>1 DEF IInv, Shapes
<1>4. Holds(x)
  BY DEF IInv
<1>5. TickHolds(x) => TickHolds(x)'
  BY <1>1, <1>2, <1>3 DEF TickHolds, RunsOf
<1>6. HandHolds(x) => HandHolds(x)'
  BY <1>1, <1>2, <1>3 DEF HandHolds
<1>7. DuesStand(x) => DuesStand(x)'
  BY <1>1, <1>2, <1>3 DEF DuesStand
<1>8. Holds(x)'
  BY <1>1, <1>2, <1>3, <1>4, <1>5, <1>6, <1>7 DEF Holds, Exists
<1> QED BY <1>1, <1>2, <1>8, ActorKeeps DEF IInv, Shapes

(* What is saved of an automation. *)
LEMMA Saved ==
  ASSUME IInv, NEW x \in Actors, SaveAutomation(x)
  PROVE  LET a == job[x].auto
         IN /\ a \in Autos /\ Exists(a) /\ file' = [file EXCEPT ![a] = job[x].rec]
            /\ file'[a] = job[x].rec
            /\ \/ job[x].rec = file[a]
               \/ /\ job[x].rec = Active(NextAfter(file[a].next)) /\ file[a].state = "active"
                  /\ job[x].op = "tick" /\ \A d \in job[x].due : d[1] # a
                  /\ \E r \in RunsOf(a) : r.slot = file[a].next
<1>1. job[x].auto \in Autos /\ Exists(job[x].auto) /\ (TickHolds(x) \/ HandHolds(x)) /\ job[x].pc = "auto"
  BY DEF IInv, Holds, SaveAutomation
<1> QED BY <1>1 DEF IInv, Shapes, SaveAutomation, TickHolds, HandHolds

LEMMA SaveAutomationKeeps ==
  ASSUME IInv, OneProcess, NEW x \in Actors, SaveAutomation(x)
  PROVE  IInv'
<1> DEFINE due == job[x].due
<1>1. job[x].pc = "auto" /\ job' = Proceed(x)
  BY DEF SaveAutomation
<1>2. file' = [a \in Autos |-> file'[a]]
  BY DEF SaveAutomation, IInv, Shapes
<1>3. job[x].op = "tick" => \A d \in due : /\ d = <<d[1], d[2]>> /\ d[1] \in Autos
                                          /\ file'[d[1]].state = "active" /\ file'[d[1]].next = d[2]
  <2>1. job[x].op = "tick" => DuesStand(x)
    BY <1>1 DEF IInv, Holds
  <2>2. job[x].op = "tick" => \A d \in due : d[1] # job[x].auto \/ job[x].rec = file[job[x].auto]
    BY Saved
  <2> QED BY <2>1, <2>2, Saved DEF DuesStand, IInv, Shapes
<1>4. due \in SUBSET job[x].due
  OBVIOUS
<1> QED BY <1>1, <1>2, <1>3, <1>4, Proceeds

LEMMA WriteFailsKeeps ==
  ASSUME IInv, OneProcess, NEW x \in Actors, WriteFails(x)
  PROVE  IInv'
<1> DEFINE due == {}
<1>1. job[x].pc \in {"run", "auto", "runs"} /\ job' = [Proceed(x) EXCEPT ![x].due = due]
  BY DEF WriteFails
<1>2. file' = [a \in Autos |-> file'[a]]
  BY DEF WriteFails, IInv, Shapes
<1>3. due \in SUBSET job[x].due /\ \A d \in due : FALSE
  OBVIOUS
<1> HIDE DEF due
<1> QED BY <1>1, <1>2, <1>3, Proceeds

-----------------------------------------------------------------------------
(* The reconciliation, the handlers and the rest.                          *)

(* A step that leaves an actor with nothing to save. *)
LEMMA NothingHeld ==
  ASSUME IInv, OneProcess, NEW x \in Actors, NEW j, IsJob(j), job' = [job EXCEPT ![x] = j],
         j.pc \in {"idle", "reconcile", "runs"}, job[x].pc # "idle" \/ MayBegin(x),
         file' = [a \in Autos |-> file'[a]]
  PROVE  IInv'
<1>1. Holds(x)'
  BY DEF IInv, Shapes, Holds
<1> QED BY <1>1, ActorKeeps

LEMMA ReconcileKeeps ==
  ASSUME IInv, OneProcess, NEW p \in Procs,
         \/ ReconcileBegin(p) \/ ReconcileEnds(p) \/ ReconcileFails(p)
         \/ \E r \in job[Loop(p)].pending : Reconcile(p, r)
  PROVE  IInv'
<1> DEFINE x == Loop(p)
<1>1. x \in Actors /\ IsJob(job[x])
  BY LoopActor DEF IInv, Shapes
<1>2. file' = [a \in Autos |-> file'[a]]
  BY DEF ReconcileBegin, ReconcileEnds, ReconcileFails, Reconcile, IInv, Shapes
<1>3. job[x].pc \in {"visit", "reconcile"}
  BY DEF ReconcileBegin, ReconcileEnds, ReconcileFails, Reconcile
<1>4. IsJob(Idle) /\ Idle.pc = "idle"
  BY DEF IsJob, Idle
<1>5. ASSUME ReconcileBegin(p) PROVE IInv'
  <2> DEFINE todo == UNION {{r \in Latest(a, RecLimit) : Unsettled(r)} : a \in {b \in Autos : Exists(b)}}
  <2> HIDE DEF todo
  <2> DEFINE j == [Idle EXCEPT !.pc = "reconcile", !.op = "tick", !.pending = todo]
  <2>1. IsJob(j) /\ j.pc = "reconcile"
    BY DEF IsJob, Idle
  <2>2. job' = [job EXCEPT ![x] = j]
    BY <1>5 DEF ReconcileBegin, todo
  <2> HIDE DEF x, j
  <2> QED BY <1>1, <1>2, <1>3, <2>1, <2>2, NothingHeld
<1>6. ASSUME ReconcileEnds(p) \/ ReconcileFails(p) PROVE IInv'
  <2>1. job' = [job EXCEPT ![x] = Idle]
    BY <1>6 DEF ReconcileEnds, ReconcileFails
  <2> HIDE DEF x
  <2> QED BY <1>1, <1>2, <1>3, <1>4, <2>1, NothingHeld
<1>7. ASSUME NEW r \in job[x].pending, Reconcile(p, r) PROVE IInv'
  <2> DEFINE rest == IF owner[r.id] = p /\ task[r.id] \in Final /\ ~Exists(r.auto)
                       THEN {} ELSE job[x].pending \ {r}
  <2> HIDE DEF rest
  <2> DEFINE j == [job[x] EXCEPT !.pending = rest]
  <2>1. IsJob(j) /\ j.pc = "reconcile"
    BY <1>1, <1>7 DEF IsJob, Reconcile
  <2>2. job' = [job EXCEPT ![x] = j]
    BY <1>1, <1>7 DEF Reconcile, rest, IsJob
  <2> HIDE DEF x, j
  <2> QED BY <1>1, <1>2, <1>3, <2>1, <2>2, NothingHeld
<1> QED BY <1>5, <1>6, <1>7

(* All idle: nobody holds anything, whatever becomes of the files. *)
LEMMA AllIdle ==
  ASSUME IInv, job' = [x \in Actors |-> job'[x]], \A x \in Actors : job'[x] \in {job[x], Idle} /\ job'[x].pc = "idle",
         file' = [a \in Autos |-> file'[a]]
  PROVE  IInv'
<1>1. IsJob(Idle)
  BY DEF IsJob, Idle
<1>2. Shapes'
  BY <1>1 DEF IInv, Shapes
<1>3. Locked' /\ \A x \in Actors : Holds(x)'
  BY DEF Locked, Holds
<1> QED BY <1>2, <1>3 DEF IInv

LEMMA RunNowKeeps ==
  ASSUME IInv, OneProcess, NEW p \in Procs, NEW a \in Autos, RunNow(p, a)
  PROVE  IInv'
<1> DEFINE x == Api(p)
           v == [Idle EXCEPT !.op = "run_now", !.auto = a, !.rec = file[a]]
<1>1. x \in Actors /\ MayBegin(x) /\ Exists(a) /\ file' = file
  BY LoopActor DEF RunNow
<1>2. Enqueue(x, v, None)
  BY DEF RunNow
<1>3. IsJob(v) /\ v.op = "run_now" /\ v.auto = a /\ v.rec = file[a]
  BY DEF IsJob, Idle
<1> HIDE DEF x, v
<1> DEFINE run(s) == [id |-> made', auto |-> v.auto, slot |-> None, status |-> s, task |-> s = "running"]
<1>4. PICK s \in {"running", "failed"} :
        job' = [job EXCEPT ![x] = [v EXCEPT !.pc = "run", !.run = run(s)]]
  BY <1>2 DEF Enqueue
<1> DEFINE j == [v EXCEPT !.pc = "run", !.run = run(s)]
<1>5. IsJob(j) /\ j.op = "run_now" /\ j.auto = a /\ j.rec = file[a] /\ j.pc = "run"
  BY <1>3 DEF IsJob
<1>6. job' = [job EXCEPT ![x] = j]
  BY <1>4
<1> HIDE DEF j
<1>7. job'[x] = j
  BY <1>1, <1>6 DEF IInv, Shapes
<1>8. Holds(x)'
  BY <1>1, <1>5, <1>7 DEF Holds, HandHolds, Exists
<1> QED BY <1>1, <1>5, <1>6, <1>8, ActorKeeps DEF IInv, Shapes

LEMMA HandlerKeeps ==
  ASSUME IInv, OneProcess, NEW p \in Procs, NEW a \in Autos,
         Pause(p, a) \/ Resume(p, a) \/ Delete(p, a)
  PROVE  IInv'
<1> DEFINE x == Api(p)
<1>1. x \in Actors
  BY LoopActor
<1>2. file' = [b \in Autos |-> file'[b]]
  BY DEF Pause, Resume, Delete, IInv, Shapes
<1>3. ASSUME Pause(p, a) \/ Resume(p, a) PROVE IInv'
  <2>1. MayBegin(x) /\ job' = job
    BY <1>3 DEF Pause, Resume
  <2>2. \A y \in Actors : job[y].pc = "idle"
    BY <1>1, <2>1, OthersIdle DEF MayBegin
  <2> QED BY <1>2, <2>1, <2>2, AllIdle DEF IInv, Shapes
<1>4. ASSUME Delete(p, a) PROVE IInv'
  <2> DEFINE j == [Idle EXCEPT !.pc = "runs", !.op = "delete", !.auto = a]
  <2>1. IsJob(j) /\ j.pc = "runs"
    BY DEF IsJob, Idle
  <2>2. MayBegin(x) /\ job' = [job EXCEPT ![x] = j]
    BY <1>4 DEF Delete
  <2> HIDE DEF x, j
  <2> QED BY <1>1, <1>2, <2>1, <2>2, NothingHeld
<1> QED BY <1>3, <1>4

LEMMA CrashKeeps ==
  ASSUME IInv, OneProcess, NEW p \in Procs, Crash(p)
  PROVE  IInv'
<1>1. \A x \in Actors : Proc(x) = p
  BY DEF Actors, Proc, OneProcess
<1>2. job' = [x \in Actors |-> Idle] /\ file' = file
  BY <1>1 DEF Crash
<1>3. Idle.pc = "idle"
  BY DEF Idle
<1> QED BY <1>2, <1>3, AllIdle DEF IInv, Shapes

LEMMA StepKeeps == OneProcess /\ IInv /\ [Next]_vars => IInv'
<1> SUFFICES ASSUME OneProcess, IInv, [Next]_vars PROVE IInv'
  OBVIOUS
<1>1. ASSUME NEW p \in Procs, TickBegin(p) \/ JobStep(p) \/ ReconcileFails(p) \/ Crash(p) \/ Boot(p) PROVE IInv'
  <2>1. ASSUME NEW d \in job[Loop(p)].due, TickKnows(p, d) \/ TickRuns(p, d) PROVE IInv'
    BY <2>1, TickKnowsKeeps, TickRunsKeeps
  <2>2. ASSUME NEW x \in Actors, SaveRun(x) \/ SaveAutomation(x) PROVE IInv'
    BY <2>2, SaveRunKeeps, SaveAutomationKeeps
  <2>3. ASSUME DeleteRuns(p) PROVE IInv'
    <3>1. job[Api(p)].pc = "runs" /\ job' = [job EXCEPT ![Api(p)] = Idle] /\ file' = file
      BY <2>3 DEF DeleteRuns
    <3>2. IsJob(Idle) /\ Idle.pc = "idle" /\ Api(p) \in Actors
      BY LoopActor DEF IsJob, Idle
    <3> QED BY <3>1, <3>2, NothingHeld DEF IInv, Shapes
  <2>4. Boot(p) => IInv'
    BY BesideKeeps DEF Boot
  <2> QED BY <1>1, <2>1, <2>2, <2>3, <2>4, TickBeginKeeps, ReconcileKeeps, CrashKeeps DEF JobStep, LoopStep
<1>2. ASSUME NEW p \in Procs, NEW a \in Autos, Pause(p, a) \/ Resume(p, a) \/ RunNow(p, a) \/ Delete(p, a)
      PROVE  IInv'
  BY <1>2, HandlerKeeps, RunNowKeeps
<1>3. ASSUME NEW x \in Actors, WriteFails(x) PROVE IInv'
  BY <1>3, WriteFailsKeeps
<1>4. CASE SlotPasses \/ \E i \in Ids : TaskMoves(i)
  BY <1>4, BesideKeeps DEF SlotPasses, TaskMoves
<1>5. CASE UNCHANGED vars
  BY <1>5, BesideKeeps DEF vars
<1> QED BY <1>1, <1>2, <1>3, <1>4, <1>5 DEF Next

-----------------------------------------------------------------------------
(* Who changes an automation's file. *)

LEMMA FileChanges ==
  ASSUME IInv, Next, NEW a \in Autos, file'[a] # file[a]
  PROVE  \/ \E p \in Procs : Resume(p, a)
         \/ /\ \E p \in Procs : Pause(p, a) \/ Delete(p, a)
            /\ Exists(a) /\ file'[a].state # "active"
         \/ \E x \in Actors : SaveAutomation(x) /\ a = job[x].auto
<1>1. ASSUME NEW p \in Procs, NEW b \in Autos, Pause(p, b) \/ Delete(p, b)
      PROVE  a = b /\ Exists(a) /\ file'[a].state # "active"
  BY <1>1 DEF Pause, Delete, IInv, Shapes, NoFile
<1>2. ASSUME NEW p \in Procs, NEW b \in Autos, Resume(p, b) PROVE a = b
  BY <1>2 DEF Resume, IInv, Shapes
<1>3. ASSUME NEW x \in Actors, SaveAutomation(x) PROVE a = job[x].auto
  BY <1>3 DEF SaveAutomation, IInv, Shapes
<1>4. ASSUME NEW p \in Procs
      PROVE  /\ ~TickBegin(p) /\ ~ReconcileFails(p) /\ ~Crash(p) /\ ~Boot(p) /\ ~LoopStep(p) /\ ~DeleteRuns(p)
             /\ \A b \in Autos : ~RunNow(p, b)
  BY DEF TickBegin, ReconcileFails, Crash, Boot, LoopStep, DeleteRuns, RunNow, ReconcileBegin,
         ReconcileEnds, TickKnows, TickRuns, Reconcile
<1>5. ~SlotPasses /\ (\A i \in Ids : ~TaskMoves(i))
      /\ (\A x \in Actors : ~WriteFails(x) /\ ~SaveRun(x))
  BY DEF SlotPasses, TaskMoves, WriteFails, SaveRun
<1> QED BY <1>1, <1>2, <1>3, <1>4, <1>5 DEF Next, JobStep

LEMMA StepsStick ==
  IInv /\ [Next]_vars =>
    [\A a \in Autos : /\ file[a].state = "gone" => file'[a].state = "gone"
                      /\ file[a].state = "paused" /\ file'[a].state = "active" =>
                           \E p \in Procs : Resume(p, a)]_vars
<1> SUFFICES ASSUME IInv, Next, NEW a \in Autos, file'[a] # file[a]
             PROVE  /\ file[a].state = "gone" => file'[a].state = "gone"
                    /\ file[a].state = "paused" /\ file'[a].state = "active" =>
                         \E p \in Procs : Resume(p, a)
  BY DEF vars
<1>1. ASSUME NEW p \in Procs, Resume(p, a) PROVE Exists(a)
  BY <1>1 DEF Resume
<1>2. ASSUME NEW x \in Actors, SaveAutomation(x), a = job[x].auto
      PROVE  file[a].state = "active" /\ file'[a].state = "active"
  <2>1. file'[a] = Active(NextAfter(file[a].next)) /\ file[a].state = "active"
    BY <1>2, Saved
  <2> QED BY <2>1 DEF Active
<1> QED BY <1>1, <1>2, FileChanges DEF Exists

LEMMA StepsSkipNone ==
  IInv /\ [Next]_vars =>
    [\A a \in Autos :
       file[a].state = "active" /\ file'[a].state = "active" /\ file'[a] # file[a] =>
         \/ \E p \in Procs : Resume(p, a)
         \/ file'[a].next = file[a].next + 1 /\ \E r \in RunsOf(a) : r.slot = file[a].next]_vars
<1> SUFFICES ASSUME IInv, Next, NEW a \in Autos, file'[a] # file[a], file'[a].state = "active"
             PROVE  \/ \E p \in Procs : Resume(p, a)
                    \/ file'[a].next = file[a].next + 1 /\ \E r \in RunsOf(a) : r.slot = file[a].next
  BY DEF vars
<1>1. ASSUME NEW x \in Actors, SaveAutomation(x), a = job[x].auto
      PROVE  file'[a].next = file[a].next + 1 /\ \E r \in RunsOf(a) : r.slot = file[a].next
  <2>1. /\ file'[a] = Active(NextAfter(file[a].next))
        /\ \E r \in RunsOf(a) : r.slot = file[a].next
    BY <1>1, Saved
  <2> QED BY <2>1 DEF Active, NextAfter
<1> QED BY <1>1, FileChanges

-----------------------------------------------------------------------------
(* The runs of a slot.                                                     *)

IsRun(r) == DOMAIN r = {"id", "auto", "slot", "status", "task"}

Between(a, lo, hi) == {q \in RunsOf(a) : lo < q.id /\ q.id < hi}

(* The numbers drawn so far, each of one run at most. *)
Numbered ==
  /\ made \in Nat /\ IsFiniteSet(runs)
  /\ \A r \in runs : IsRun(r) /\ r.id \in Nat /\ r.id <= made
  /\ \A r, s \in runs : r.id = s.id => r = s

(* A run that is not saved yet is the newest, and of a slot of which the   *)
(* tick saw no run among the latest.                                       *)
Fresh(x) ==
  LET n == job[x].run
  IN /\ IsRun(n) /\ n.id = made /\ \A r \in runs : r.id < made
     /\ \A r \in RunsOf(n.auto) : r.slot = n.slot /\ n.slot # None => Cardinality(Newer(r)) >= Limit

InHand(x) == /\ job[x].pc = "run" => Fresh(x)
             /\ job[x].pc = "reconcile" => job[x].pending \subseteq runs

RInv == IInv /\ Numbered /\ SlotHasOneRun /\ \A x \in Actors : InHand(x)

(* Steps that save, change or delete no run and draw no number.            *)
LEMMA RunsStand ==
  ASSUME RInv, IInv', UNCHANGED <<runs, made>>,
         \A x \in Actors : \/ job'[x].pc \notin {"run", "reconcile"}
                           \/ job'[x] = job[x]
                           \/ job'[x].pc = "reconcile" /\ job'[x].pending \subseteq runs
  PROVE  RInv'
<1>1. Numbered' /\ SlotHasOneRun'
  BY DEF RInv, Numbered, SlotHasOneRun, RunsOf
<1>2. ASSUME NEW x \in Actors PROVE InHand(x)'
  BY DEF RInv, InHand, Fresh, RunsOf, Newer
<1> QED BY <1>1, <1>2 DEF RInv

LEMMA RunSaved ==
  ASSUME RInv, IInv', OneProcess, NEW x \in Actors, SaveRun(x)
  PROVE  RInv'
<1>0. PICK n : n = job[x].run
  OBVIOUS
<1>1. runs' = runs \cup {n} /\ made' = made /\ Fresh(x)
  BY <1>0 DEF SaveRun, RInv, InHand
<1>2. Numbered'
  BY <1>0, <1>1, FS_AddElement DEF RInv, Numbered, Fresh
<1>3. n.id \in Nat /\ \A r \in runs : r.id < n.id /\ r.id \in Nat
  BY <1>0, <1>1 DEF Fresh, RInv, Numbered
<1>4. ASSUME NEW r \in runs, NEW s \in runs, r.auto = s.auto, r.slot = s.slot, r.slot # None, r.id < s.id
      PROVE  Cardinality(Between(r.auto, r.id, s.id)') >= Limit
  <2>1. Between(r.auto, r.id, s.id)' = Between(r.auto, r.id, s.id)
    BY <1>1, <1>3 DEF Between, RunsOf
  <2>2. Cardinality(Between(r.auto, r.id, s.id)) >= Limit
    BY <1>4 DEF RInv, SlotHasOneRun, Between
  <2> QED BY <2>1, <2>2
<1>5. ASSUME NEW r \in runs, r.auto = n.auto, r.slot = n.slot, r.slot # None
      PROVE  Cardinality(Between(r.auto, r.id, n.id)') >= Limit
  <2>1. Between(r.auto, r.id, n.id)' = Newer(r)
    BY <1>1, <1>3, <1>5 DEF Between, Newer, RunsOf
  <2>2. Cardinality(Newer(r)) >= Limit
    BY <1>0, <1>1, <1>5 DEF Fresh, RunsOf
  <2> QED BY <2>1, <2>2
<1>6. SlotHasOneRun'
  <2>1. SUFFICES ASSUME NEW r \in runs', NEW s \in runs', r.auto = s.auto, r.slot = s.slot,
                        r.slot # None, r.id < s.id
                 PROVE  Cardinality(Between(r.auto, r.id, s.id)') >= Limit
    BY DEF SlotHasOneRun, Between
  <2>2. CASE s \in runs
    <3>1. r \in runs
      BY <1>1, <1>3, <2>1, <2>2
    <3> QED BY <1>4, <2>1, <2>2, <3>1
  <2>3. CASE s = n
    <3>1. r \in runs
      BY <1>1, <1>3, <2>1, <2>3
    <3> QED BY <1>5, <2>1, <2>3, <3>1
  <2> QED BY <1>1, <2>2, <2>3
<1>7. \A y \in Actors : job'[y].pc \notin {"run", "reconcile"}
  <2>1. job[x].pc = "run" /\ job'[x].pc = "auto"
    BY DEF SaveRun, RInv, IInv, Shapes, IsJob
  <2>2. \A y \in Actors : y # x => job[y].pc = "idle" /\ job'[y] = job[y]
    BY <2>1, OthersIdle DEF SaveRun, RInv, IInv, Shapes
  <2> QED BY <2>1, <2>2
<1> QED BY <1>2, <1>6, <1>7 DEF RInv, InHand

(* A run that takes its task's status keeps its place. *)
LEMMA RunMirrored ==
  ASSUME RInv, IInv', OneProcess, NEW p \in Procs, NEW r \in job[Loop(p)].pending, Reconcile(p, r)
  PROVE  RInv'
<1> DEFINE x == Loop(p)
           m == Mirrored(r)
<1>1. x \in Actors /\ job[x].pc = "reconcile" /\ made' = made
  BY LoopActor DEF Reconcile
<1>2. r \in runs /\ job[x].pending \subseteq runs
  BY <1>1 DEF RInv, InHand
<1>3. /\ IsRun(m) /\ m.id = r.id /\ m.auto = r.auto /\ m.slot = r.slot
  BY <1>2 DEF RInv, Numbered, IsRun, Mirrored
<1>4. runs' = runs \/ runs' = (runs \ {r}) \cup {m}
  BY DEF Reconcile
<1>5. /\ \A y \in Actors : y # x => job'[y].pc = "idle"
      /\ job'[x].pc = "reconcile" /\ job'[x].pending \subseteq job[x].pending \ {r}
  <2>1. \A y \in Actors : y # x => job[y].pc = "idle" /\ job'[y] = job[y]
    BY <1>1, OthersIdle DEF Reconcile, RInv, IInv, Shapes
  <2>2. job'[x].pc = "reconcile" /\ job'[x].pending \subseteq job[x].pending \ {r}
    BY <1>1 DEF Reconcile, RInv, IInv, Shapes, IsJob
  <2> QED BY <2>1, <2>2
<1> HIDE DEF x, m
<1>6. CASE runs' = (runs \ {r}) \cup {m}
  <2>1. Numbered'
    <3>1. IsFiniteSet(runs')
      BY <1>6, FS_RemoveElement, FS_AddElement DEF RInv, Numbered
    <3> QED BY <1>1, <1>2, <1>3, <1>6, <3>1 DEF RInv, Numbered
  <2>2. ASSUME NEW a, NEW lo, NEW hi
        PROVE  Cardinality(Between(a, lo, hi)') = Cardinality(Between(a, lo, hi))
    <3> DEFINE S == Between(a, lo, hi)
    <3>1. IsFiniteSet(S)
      BY FS_Subset DEF Between, RunsOf, RInv, Numbered
    <3>2. CASE r \in S
      <4>1. Between(a, lo, hi)' = (S \ {r}) \cup {m}
        BY <1>2, <1>3, <1>6, <3>2 DEF Between, RunsOf
      <4>2. m \notin S \ {r}
        BY <1>2, <1>3 DEF Between, RunsOf, RInv, Numbered
      <4> HIDE DEF S
      <4>3. IsFiniteSet(S \ {r}) /\ Cardinality(S \ {r}) = Cardinality(S) - 1 /\ Cardinality(S) \in Nat
        BY <3>1, <3>2, FS_RemoveElement, FS_CardinalityType
      <4>4. Cardinality((S \ {r}) \cup {m}) = Cardinality(S \ {r}) + 1
        BY <4>2, <4>3, FS_AddElement
      <4> QED BY <4>1, <4>3, <4>4 DEF S
    <3>3. CASE r \notin S
      <4>1. Between(a, lo, hi)' = S
        BY <1>2, <1>3, <1>6, <3>3 DEF Between, RunsOf
      <4> QED BY <4>1
    <3> QED BY <3>2, <3>3
  <2>3. SlotHasOneRun'
    <3>1. SUFFICES ASSUME NEW q \in runs', NEW s \in runs', q.auto = s.auto, q.slot = s.slot,
                          q.slot # None, q.id < s.id
                   PROVE  Cardinality(Between(q.auto, q.id, s.id)') >= Limit
      BY DEF SlotHasOneRun, Between
    <3>2. PICK u \in runs : u.auto = q.auto /\ u.slot = q.slot /\ u.id = q.id
      BY <1>2, <1>3, <1>6
    <3>3. PICK v \in runs : v.auto = s.auto /\ v.slot = s.slot /\ v.id = s.id
      BY <1>2, <1>3, <1>6
    <3>4. Cardinality(Between(u.auto, u.id, v.id)) >= Limit
      BY <3>1, <3>2, <3>3 DEF RInv, SlotHasOneRun, Between
    <3> QED BY <2>2, <3>2, <3>3, <3>4
  <2>4. job'[x].pending \subseteq runs'
    BY <1>2, <1>5, <1>6
  <2> QED BY <1>1, <1>5, <2>1, <2>3, <2>4 DEF RInv, InHand
<1>7. CASE runs' = runs
  <2>1. \A y \in Actors : \/ job'[y].pc \notin {"run", "reconcile"}
                          \/ job'[y].pc = "reconcile" /\ job'[y].pending \subseteq runs
    BY <1>2, <1>5
  <2> QED BY <1>1, <1>7, <2>1, RunsStand
<1> QED BY <1>4, <1>6, <1>7

LEMMA RunsDeleted ==
  ASSUME RInv, IInv', OneProcess, NEW p \in Procs, DeleteRuns(p)
  PROVE  RInv'
<1> DEFINE x == Api(p)
           a == job[x].auto
<1>1. x \in Actors /\ job[x].pc = "runs" /\ runs' = runs \ RunsOf(a) /\ made' = made
      /\ job' = [job EXCEPT ![x] = Idle]
  BY LoopActor DEF DeleteRuns
<1>2. \A y \in Actors : job'[y].pc = "idle"
  BY <1>1, OthersIdle DEF RInv, IInv, Shapes, Idle
<1> HIDE DEF x
<1>3. Numbered'
  BY <1>1, FS_Subset DEF RInv, Numbered
<1>4. SlotHasOneRun'
  <2>1. SUFFICES ASSUME NEW r \in runs', NEW s \in runs', r.auto = s.auto, r.slot = s.slot,
                        r.slot # None, r.id < s.id
                 PROVE  Cardinality(Between(r.auto, r.id, s.id)') >= Limit
    BY DEF SlotHasOneRun, Between
  <2>2. r \in runs /\ s \in runs /\ r.auto # a
    BY <1>1 DEF RunsOf
  <2>3. Between(r.auto, r.id, s.id)' = Between(r.auto, r.id, s.id)
    BY <1>1, <2>2 DEF Between, RunsOf
  <2>4. Cardinality(Between(r.auto, r.id, s.id)) >= Limit
    BY <2>1, <2>2 DEF RInv, SlotHasOneRun, Between
  <2> QED BY <2>3, <2>4
<1> QED BY <1>2, <1>3, <1>4 DEF RInv, InHand

(* A new run: of a slot the tick knows no run of, or of none. *)
LEMMA RunMade ==
  ASSUME RInv, IInv', OneProcess, NEW x \in Actors, UNCHANGED runs, made' = made + 1,
         job[x].pc # "idle" \/ MayBegin(x),
         \A y \in Actors : y # x => job'[y] = job[y], job'[x].pc = "run",
         LET n == job'[x].run
         IN /\ IsRun(n) /\ n.id = made'
            /\ n.slot # None => ~RunExists(n.auto, n.slot)
  PROVE  RInv'
<1>1. PICK n : n = job'[x].run
  OBVIOUS
<1>2. \A y \in Actors : y # x => job'[y].pc = "idle"
  BY OthersIdle DEF RInv
<1>3. Numbered' /\ SlotHasOneRun'
  BY DEF RInv, Numbered, SlotHasOneRun, RunsOf
<1>4. ASSUME NEW r \in RunsOf(n.auto), r.slot = n.slot, n.slot # None
      PROVE  Cardinality(Newer(r)) >= Limit
  <2>1. IsFiniteSet(Newer(r))
    BY FS_Subset DEF Newer, RunsOf, RInv, Numbered
  <2>2. Cardinality(Newer(r)) \in Nat
    BY <2>1, FS_CardinalityType
  <2>3. ~(Cardinality(Newer(r)) < Limit)
    BY <1>1, <1>4 DEF RunExists, Latest
  <2> QED BY <2>2, <2>3, LimitsAssumption
<1>5. \A r \in runs' : r.id < made'
  BY DEF RInv, Numbered
<1>6. \A r \in runs : Newer(r)' = Newer(r)
  BY DEF Newer, RunsOf
<1>7. Fresh(x)'
  BY <1>1, <1>4, <1>5, <1>6 DEF Fresh, RunsOf
<1> QED BY <1>2, <1>3, <1>7 DEF RInv, InHand

LEMMA RunsMade ==
  ASSUME RInv, IInv', OneProcess,
         \/ \E p \in Procs : \E d \in job[Loop(p)].due : TickRuns(p, d)
         \/ \E p \in Procs : \E a \in Autos : RunNow(p, a)
  PROVE  RInv'
<1>1. ASSUME NEW p \in Procs, NEW d \in job[Loop(p)].due, TickRuns(p, d) PROVE RInv'
  <2> DEFINE x == Loop(p)
             v == Visited(x, d)
             run(s) == [id |-> made', auto |-> v.auto, slot |-> d[2], status |-> s, task |-> s = "running"]
  <2>1. x \in Actors /\ Visits(x, d) /\ job[x].pc # "idle" /\ ~RunExists(d[1], d[2]) /\ Enqueue(x, v, d[2])
        /\ runs' = runs
    BY <1>1, LoopActor DEF TickRuns, Visits
  <2>2. IsJob(v) /\ v.auto = d[1]
    BY <2>1, VisitedFields DEF RInv
  <2> HIDE DEF x, v
  <2>3. PICK s \in {"running", "failed"} :
          job' = [job EXCEPT ![x] = [v EXCEPT !.pc = "run", !.run = run(s)]]
    BY <2>1 DEF Enqueue
  <2>4. made' = made + 1
    BY <2>1 DEF Enqueue
  <2>5. IsRun(run(s)) /\ run(s).id = made' /\ run(s).auto = v.auto /\ run(s).slot = d[2]
    BY DEF IsRun
  <2> HIDE DEF run
  <2>6. job'[x].pc = "run" /\ job'[x].run = run(s) /\ \A y \in Actors : y # x => job'[y] = job[y]
    BY <2>1, <2>2, <2>3 DEF RInv, IInv, Shapes, IsJob
  <2> QED BY <2>1, <2>2, <2>4, <2>5, <2>6, RunMade
<1>2. ASSUME NEW p \in Procs, NEW a \in Autos, RunNow(p, a) PROVE RInv'
  <2> DEFINE x == Api(p)
             v == [Idle EXCEPT !.op = "run_now", !.auto = a, !.rec = file[a]]
             run(s) == [id |-> made', auto |-> v.auto, slot |-> None, status |-> s, task |-> s = "running"]
  <2>1. x \in Actors /\ MayBegin(x) /\ Enqueue(x, v, None) /\ runs' = runs
    BY <1>2, LoopActor DEF RunNow
  <2>2. IsJob(v)
    BY DEF IsJob, Idle
  <2> HIDE DEF x, v
  <2>3. PICK s \in {"running", "failed"} :
          job' = [job EXCEPT ![x] = [v EXCEPT !.pc = "run", !.run = run(s)]]
    BY <2>1 DEF Enqueue
  <2>4. made' = made + 1
    BY <2>1 DEF Enqueue
  <2>5. IsRun(run(s)) /\ run(s).id = made' /\ run(s).slot = None
    BY DEF IsRun
  <2> HIDE DEF run
  <2>6. job'[x].pc = "run" /\ job'[x].run = run(s) /\ \A y \in Actors : y # x => job'[y] = job[y]
    BY <2>1, <2>2, <2>3 DEF RInv, IInv, Shapes, IsJob
  <2> QED BY <2>1, <2>4, <2>5, <2>6, RunMade
<1> QED BY <1>1, <1>2

LEMMA RunsStep == OneProcess /\ RInv /\ [Next]_vars => RInv'
<1> SUFFICES ASSUME OneProcess, RInv, [Next]_vars PROVE RInv'
  OBVIOUS
<1>0. IInv'
  BY StepKeeps DEF RInv
<1> DEFINE Quiet(x) == \/ job'[x].pc \notin {"run", "reconcile"}
                       \/ job'[x] = job[x]
                       \/ job'[x].pc = "reconcile" /\ job'[x].pending \subseteq runs
<1>1. ASSUME NEW p \in Procs, TickBegin(p) PROVE RInv'
  <2>1. \A x \in Actors : Quiet(x)
    BY <1>1, LoopActor DEF TickBegin, RInv, IInv, Shapes, Idle
  <2> QED BY <1>0, <1>1, <2>1, RunsStand DEF TickBegin
<1>2. ASSUME NEW p \in Procs, NEW d \in job[Loop(p)].due, TickKnows(p, d) PROVE RInv'
  <2> DEFINE v == Visited(Loop(p), d)
  <2>1. IsJob(v)
    BY <1>2, LoopActor, VisitedFields DEF TickKnows, RInv
  <2> HIDE DEF v
  <2>2. job' = [job EXCEPT ![Loop(p)] = [v EXCEPT !.pc = "auto"]]
    BY <1>2 DEF TickKnows, v
  <2>3. \A x \in Actors : Quiet(x)
    BY <2>1, <2>2, LoopActor DEF RInv, IInv, Shapes, IsJob
  <2> QED BY <1>0, <1>2, <2>3, RunsStand DEF TickKnows
<1>3. ASSUME NEW x \in Actors, SaveAutomation(x) \/ WriteFails(x) PROVE RInv'
  <2> DEFINE next == [Idle EXCEPT !.pc = "visit", !.op = "tick", !.due = job[x].due]
  <2>1. IsJob(Idle) /\ IsJob(next) /\ Idle.pc = "idle" /\ next.pc = "visit"
    BY DEF IsJob, Idle
  <2>2. PICK j \in {Idle, next} : Proceed(x) = [job EXCEPT ![x] = j]
    BY DEF Proceed
  <2> HIDE DEF next
  <2>3. job' \in {[job EXCEPT ![x] = j], [job EXCEPT ![x] = [j EXCEPT !.due = {}]]}
    BY <1>3, <2>2 DEF SaveAutomation, WriteFails, RInv, IInv, Shapes
  <2>4. j.pc \in {"idle", "visit"} /\ [j EXCEPT !.due = {}].pc \in {"idle", "visit"}
    BY <2>1 DEF IsJob
  <2>5. \A y \in Actors : Quiet(y)
    BY <2>3, <2>4 DEF RInv, IInv, Shapes
  <2> QED BY <1>0, <1>3, <2>5, RunsStand DEF SaveAutomation, WriteFails
<1>4. ASSUME NEW p \in Procs, ReconcileBegin(p) PROVE RInv'
  <2> DEFINE todo == UNION {{r \in Latest(a, RecLimit) : Unsettled(r)} : a \in {b \in Autos : Exists(b)}}
  <2>1. todo \subseteq runs
    BY DEF Latest, RunsOf
  <2> HIDE DEF todo
  <2> DEFINE j == [Idle EXCEPT !.pc = "reconcile", !.op = "tick", !.pending = todo]
  <2>2. j.pc = "reconcile" /\ j.pending = todo
    BY DEF Idle
  <2>3. job' = [job EXCEPT ![Loop(p)] = j]
    BY <1>4 DEF ReconcileBegin, todo
  <2> HIDE DEF j
  <2>4. \A x \in Actors : Quiet(x)
    BY <2>1, <2>2, <2>3, LoopActor DEF RInv, IInv, Shapes
  <2> QED BY <1>0, <1>4, <2>4, RunsStand DEF ReconcileBegin
<1>5. ASSUME NEW p \in Procs, ReconcileEnds(p) \/ ReconcileFails(p) \/ Crash(p) \/ Boot(p) PROVE RInv'
  <2>1. Idle.pc = "idle" /\ UNCHANGED <<runs, made>>
    BY <1>5 DEF Idle, ReconcileEnds, ReconcileFails, Crash, Boot
  <2>2. \A x \in Actors : job'[x] \in {Idle, job[x]}
    BY <1>5, LoopActor DEF ReconcileEnds, ReconcileFails, Crash, Boot, RInv, IInv, Shapes
  <2>3. \A x \in Actors : Quiet(x)
    BY <2>1, <2>2
  <2> QED BY <1>0, <2>1, <2>3, RunsStand
<1>6. ASSUME NEW p \in Procs, NEW a \in Autos, Pause(p, a) \/ Resume(p, a) \/ Delete(p, a) PROVE RInv'
  <2> DEFINE j == [Idle EXCEPT !.pc = "runs", !.op = "delete", !.auto = a]
  <2>1. j.pc = "runs" /\ UNCHANGED <<runs, made>>
    BY <1>6 DEF Idle, Pause, Resume, Delete
  <2>2. job' = job \/ job' = [job EXCEPT ![Api(p)] = j]
    BY <1>6 DEF Pause, Resume, Delete
  <2> HIDE DEF j
  <2>3. \A x \in Actors : job'[x] \in {j, job[x]}
    BY <2>2 DEF RInv, IInv, Shapes
  <2>4. \A x \in Actors : Quiet(x)
    BY <2>1, <2>3
  <2> QED BY <1>0, <2>1, <2>4, RunsStand
<1>7. CASE SlotPasses \/ (\E i \in Ids : TaskMoves(i)) \/ UNCHANGED vars
  BY <1>0, <1>7, RunsStand DEF SlotPasses, TaskMoves, vars
<1>8. ASSUME NEW p \in Procs, JobStep(p) PROVE RInv'
  BY <1>0, <1>2, <1>3, <1>4, <1>5, <1>8, RunSaved, RunMirrored, RunsDeleted, RunsMade DEF JobStep, LoopStep
<1>9. ASSUME NEW p \in Procs, NEW a \in Autos, RunNow(p, a) PROVE RInv'
  BY <1>0, <1>9, RunsMade
<1> QED BY <1>1, <1>3, <1>5, <1>6, <1>7, <1>8, <1>9 DEF Next

LEMMA RunsInit == Init => RInv
<1> SUFFICES ASSUME Init PROVE RInv
  OBVIOUS
<1>1. Numbered /\ SlotHasOneRun
  BY FS_EmptySet DEF Init, Numbered, SlotHasOneRun
<1>2. \A x \in Actors : InHand(x)
  BY DEF Init, InHand, Idle
<1> QED BY <1>1, <1>2, InitInv DEF RInv

-----------------------------------------------------------------------------
(* How many runs are made.  Each is asked for by hand, is of a slot its    *)
(* automation has left behind or is about to, or was lost with a fault.    *)

Ticking(x)  == job[x].op = "tick" /\ job[x].pc \in {"run", "auto"}
Underway(a) == \E x \in Actors : Ticking(x) /\ job[x].auto = a

(* An automation waits for the next slot or one that is due already. *)
Scheduled == /\ now \in 0..MaxNow
             /\ \A a \in Autos : file[a].state = "active" => file[a].next \in 1..(now + 1)

(* A tick visits and runs what is due. *)
Timely(x) == /\ \A d \in job[x].due : d = <<d[1], d[2]>> /\ d[1] \in Autos /\ d[2] \in 1..now
             /\ Ticking(x) => file[job[x].auto].next <= now

Spent == {d \in Autos \X (1..now) :
            file[d[1]].state = "active" =>
              d[2] < file[d[1]].next \/ (d[2] = file[d[1]].next /\ Underway(d[1]))}

Counted == /\ made \in Nat /\ byHand \in 0..MaxByHand /\ faults \in 0..MaxFaults
           /\ made <= byHand + faults + Cardinality(Spent)

CInv == IInv /\ Scheduled /\ (\A x \in Actors : Timely(x)) /\ Counted

LEMMA SpentBound ==
  ASSUME NEW n \in 0..MaxNow, NEW S \in SUBSET (Autos \X (1..n))
  PROVE  /\ IsFiniteSet(S) /\ Cardinality(S) \in Nat
         /\ Cardinality(S) <= Cardinality(Autos) * MaxNow /\ Cardinality(Autos) \in Nat
<1>1. MaxNow \in Nat
  BY AutomationBounds
<1>2. IsFiniteSet(1..MaxNow) /\ Cardinality(1..MaxNow) = MaxNow
  BY <1>1, FS_Interval
<1>3. IsFiniteSet(Autos \X (1..MaxNow)) /\ Cardinality(Autos \X (1..MaxNow)) = Cardinality(Autos) * MaxNow
  BY <1>2, AutosAssumption, FS_Product
<1>4. S \subseteq Autos \X (1..MaxNow)
  BY <1>1
<1>5. IsFiniteSet(S) /\ Cardinality(S) <= Cardinality(Autos \X (1..MaxNow))
  BY <1>3, <1>4, FS_Subset
<1> QED BY <1>3, <1>5, AutosAssumption, FS_CardinalityType

LEMMA SpentFinite ==
  ASSUME now \in 0..MaxNow, now' \in 0..MaxNow
  PROVE  /\ IsFiniteSet(Spent) /\ Cardinality(Spent) \in Nat
         /\ IsFiniteSet(Spent') /\ Cardinality(Spent') \in Nat
<1>1. Spent \in SUBSET (Autos \X (1..now)) /\ Spent' \in SUBSET (Autos \X (1..now'))
  BY DEF Spent
<1> HIDE DEF Spent
<1> QED BY <1>1, SpentBound

(* Of every automation the spent slots are still spent. *)
LEMMA SpentGrows ==
  ASSUME Scheduled, Scheduled', now <= now',
         \A a \in Autos : file'[a].state = "active" =>
           \/ file'[a].next > now
           \/ file[a].state = "active" /\ file'[a].next = file[a].next + 1
           \/ file'[a] = file[a] /\ (Underway(a) => Underway(a)')
  PROVE  Spent \subseteq Spent'
<1> SUFFICES ASSUME NEW d \in Spent PROVE d \in Spent'
  OBVIOUS
<1> DEFINE a == d[1]
           k == d[2]
<1>1. a \in Autos /\ k \in 1..now /\ d = <<a, k>> /\ MaxNow \in Nat
  BY AutomationBounds DEF Spent
<1>2. file[a].state = "active" => k < file[a].next \/ (k = file[a].next /\ Underway(a))
  BY DEF Spent
<1>3. d \in Autos \X (1..now')
  BY <1>1 DEF Scheduled
<1>4. ASSUME file'[a].state = "active"
      PROVE  k < file'[a].next \/ (k = file'[a].next /\ Underway(a)')
  <2>1. CASE file'[a].next > now
    BY <1>1, <1>4, <2>1 DEF Scheduled
  <2>2. CASE file[a].state = "active" /\ file'[a].next = file[a].next + 1
    BY <1>1, <1>2, <2>2 DEF Scheduled
  <2>3. CASE file'[a] = file[a] /\ (Underway(a) => Underway(a)')
    BY <1>2, <1>4, <2>3
  <2> QED BY <1>1, <1>4, <2>1, <2>2, <2>3
<1> QED BY <1>3, <1>4 DEF Spent

(* Slots are spent, and no more runs made than asked for by hand. *)
LEMMA CountStands ==
  ASSUME Counted, now \in 0..MaxNow, now' \in 0..MaxNow, Spent \subseteq Spent',
         byHand' \in 0..MaxByHand, faults' \in 0..MaxFaults,
         \/ made' = made /\ byHand' = byHand /\ faults' >= faults
         \/ made' = made + 1 /\ byHand' = byHand + 1 /\ faults' >= faults
  PROVE  Counted'
<1>1. Cardinality(Spent) \in Nat
  BY SpentFinite
<1>2. IsFiniteSet(Spent') /\ Cardinality(Spent') \in Nat
  BY SpentFinite
<1>3. Cardinality(Spent) <= Cardinality(Spent')
  BY <1>2, FS_Subset
<1>4. {MaxByHand, MaxFaults} \subseteq Nat
  BY AutomationBounds
<1> QED BY <1>1, <1>2, <1>3, <1>4 DEF Counted

(* A run of a slot that was not spent. *)
LEMMA CountGrows ==
  ASSUME Counted, now \in 0..MaxNow, now' \in 0..MaxNow,
         NEW e, e \notin Spent, Spent \cup {e} \subseteq Spent',
         byHand' = byHand, faults' \in 0..MaxFaults, faults' >= faults, made' = made + 1
  PROVE  Counted'
<1>1. IsFiniteSet(Spent) /\ Cardinality(Spent) \in Nat
  BY SpentFinite
<1>2. IsFiniteSet(Spent') /\ Cardinality(Spent') \in Nat
  BY SpentFinite
<1>3. Cardinality(Spent \cup {e}) = Cardinality(Spent) + 1
  BY <1>1, FS_AddElement
<1>4. Cardinality(Spent \cup {e}) <= Cardinality(Spent')
  BY <1>2, FS_Subset
<1>5. {MaxByHand, MaxFaults} \subseteq Nat
  BY AutomationBounds
<1> QED BY <1>1, <1>2, <1>3, <1>4, <1>5 DEF Counted

(* A fault: the run underway is of no slot that counts any more. *)
LEMMA CountLoses ==
  ASSUME Counted, now \in 0..MaxNow, now' \in 0..MaxNow, NEW e, Spent \ {e} \subseteq Spent',
         UNCHANGED <<made, byHand>>, faults' = faults + 1, faults < MaxFaults
  PROVE  Counted'
<1>1. IsFiniteSet(Spent) /\ Cardinality(Spent) \in Nat
  BY SpentFinite
<1>2. IsFiniteSet(Spent') /\ Cardinality(Spent') \in Nat
  BY SpentFinite
<1>3. Cardinality(Spent \ {e}) >= Cardinality(Spent) - 1 /\ Cardinality(Spent \ {e}) \in Int
  BY <1>1, FS_RemoveElement
<1>4. Cardinality(Spent \ {e}) <= Cardinality(Spent')
  BY <1>2, FS_Subset
<1>5. {MaxByHand, MaxFaults} \subseteq Nat
  BY AutomationBounds
<1> QED BY <1>1, <1>2, <1>3, <1>4, <1>5 DEF Counted

(* One slot at most is under way. *)
LEMMA OneUnderway ==
  ASSUME CInv
  PROVE  \E e : \A d \in Spent \ {e} : file[d[1]].state = "active" => d[2] < file[d[1]].next
<1>1. CASE \E x \in Actors : Ticking(x)
  <2>1. PICK x \in Actors : Ticking(x)
    BY <1>1
  <2>2. \A y \in Actors : Ticking(y) => y = x
    BY <2>1 DEF CInv, IInv, Locked, Ticking
  <2> DEFINE e == <<job[x].auto, file[job[x].auto].next>>
  <2>3. ASSUME NEW d \in Spent \ {e}, file[d[1]].state = "active" PROVE d[2] < file[d[1]].next
    <3>1. d = <<d[1], d[2]>>
      BY <2>3 DEF Spent
    <3>2. ~(d[2] = file[d[1]].next /\ Underway(d[1]))
      BY <2>2, <2>3, <3>1 DEF Underway
    <3> QED BY <2>3, <3>2 DEF Spent
  <2> QED BY <2>3
<1>2. CASE ~\E x \in Actors : Ticking(x)
  BY <1>2 DEF Spent, Underway
<1> QED BY <1>1, <1>2

(* A fault leaves the files and ends what was under way. *)
LEMMA FaultCounts ==
  ASSUME CInv, UNCHANGED <<now, file, made, byHand>>, faults' = faults + 1, faults < MaxFaults
  PROVE  Counted'
<1>1. PICK e : \A d \in Spent \ {e} : file[d[1]].state = "active" => d[2] < file[d[1]].next
  BY OneUnderway
<1>2. Spent \ {e} \subseteq Spent'
  BY <1>1 DEF Spent
<1> QED BY <1>2, CountLoses DEF CInv, Scheduled

(* A step of one actor: nobody else has a run under way. *)
LEMMA OneTicks ==
  ASSUME IInv, OneProcess, NEW x \in Actors, job[x].pc # "idle" \/ MayBegin(x),
         \A y \in Actors : y # x => job'[y] = job[y]
  PROVE  /\ \A y \in Actors : y # x => ~Ticking(y) /\ ~Ticking(y)'
         /\ \A a : (Underway(a) <=> Ticking(x) /\ job[x].auto = a)
                   /\ (Underway(a)' <=> Ticking(x)' /\ job'[x].auto = a)
<1>1. \A y \in Actors : y # x => job[y].pc = "idle"
  BY OthersIdle
<1>2. \A y \in Actors : y # x => ~Ticking(y) /\ ~Ticking(y)'
  BY <1>1 DEF Ticking
<1> QED BY <1>2 DEF Underway

LEMMA ActorCounts ==
  ASSUME CInv, OneProcess, IInv', NEW x \in Actors, job[x].pc # "idle" \/ MayBegin(x),
         \A y \in Actors : y # x => job'[y] = job[y],
         now' = now, Scheduled', Timely(x)', Counted'
  PROVE  CInv'
<1>1. ASSUME NEW y \in Actors, y # x PROVE Timely(y)'
  BY <1>1, OneTicks DEF CInv, Timely
<1> QED BY <1>1 DEF CInv

(* ... that leaves a slot only for the next, or by hand. *)
LEMMA ActorSpends ==
  ASSUME CInv, OneProcess, IInv', NEW x \in Actors, job[x].pc # "idle" \/ MayBegin(x),
         \A y \in Actors : y # x => job'[y] = job[y],
         now' = now, Scheduled', Timely(x)',
         \A a \in Autos : file'[a].state = "active" =>
           \/ file'[a].next > now
           \/ file[a].state = "active" /\ file'[a].next = file[a].next + 1
           \/ file'[a] = file[a] /\ (Ticking(x) /\ job[x].auto = a => Ticking(x)' /\ job'[x].auto = a),
         byHand' \in 0..MaxByHand, faults' \in 0..MaxFaults,
         \/ made' = made /\ byHand' = byHand /\ faults' >= faults
         \/ made' = made + 1 /\ byHand' = byHand + 1 /\ faults' >= faults
  PROVE  CInv'
<1>1. \A a : Underway(a) => (Ticking(x) /\ job[x].auto = a)
  BY OneTicks DEF CInv
<1>2. \A a : Ticking(x)' /\ job'[x].auto = a => Underway(a)'
  BY DEF Underway
<1>3. now \in 0..MaxNow /\ now' \in 0..MaxNow /\ now <= now' /\ MaxNow \in Nat
  BY AutomationBounds DEF CInv, Scheduled
<1>4. Spent \subseteq Spent'
  BY <1>1, <1>2, <1>3, SpentGrows DEF CInv
<1>5. Counted'
  BY <1>3, <1>4, CountStands DEF CInv
<1> QED BY <1>5, ActorCounts

(* ... that changes no automation and makes no run. *)
LEMMA ActorLooks ==
  ASSUME CInv, OneProcess, IInv', NEW x \in Actors, job[x].pc # "idle" \/ MayBegin(x),
         \A y \in Actors : y # x => job'[y] = job[y], UNCHANGED <<now, file, made, byHand>>,
         faults' \in 0..MaxFaults, faults' >= faults, Timely(x)',
         Ticking(x) => Ticking(x)' /\ job'[x].auto = job[x].auto
  PROVE  CInv'
<1>1. Scheduled'
  BY DEF CInv, Scheduled
<1>2. byHand' \in 0..MaxByHand
  BY DEF CInv, Counted
<1> QED BY <1>1, <1>2, ActorSpends

(* Slots pass; and what leaves the actors alone. *)
LEMMA BesideCounts ==
  ASSUME CInv, IInv', UNCHANGED <<file, job, made, byHand, faults>>, now' \in 0..MaxNow, now <= now'
  PROVE  CInv'
<1>1. MaxNow \in Nat /\ now \in Nat /\ now' \in Nat
  BY AutomationBounds DEF CInv, Scheduled
<1>2. Scheduled'
  BY <1>1 DEF CInv, Scheduled
<1>3. ASSUME NEW x \in Actors PROVE Timely(x)'
  <2>1. Timely(x)
    BY DEF CInv
  <2>2. Ticking(x) => file[job[x].auto].state = "active" /\ job[x].auto \in Autos
    BY DEF CInv, IInv, Holds, TickHolds, HandHolds, Ticking
  <2>3. Ticking(x) => file[job[x].auto].next \in Nat
    BY <1>1, <2>2 DEF CInv, Scheduled
  <2> QED BY <1>1, <2>1, <2>3 DEF Timely, Ticking
<1>4. \A a : Underway(a)' <=> Underway(a)
  BY DEF Underway, Ticking
<1>5. Spent \subseteq Spent'
  BY <1>2, <1>4, SpentGrows DEF CInv
<1>6. faults >= faults /\ byHand \in 0..MaxByHand /\ faults \in 0..MaxFaults
  BY AutomationBounds DEF CInv, Counted
<1>7. Counted'
  BY <1>5, <1>6, CountStands DEF CInv, Scheduled
<1> QED BY <1>2, <1>3, <1>7 DEF CInv

-----------------------------------------------------------------------------

LEMMA TickBeginCounts ==
  ASSUME CInv, OneProcess, IInv', NEW p \in Procs, TickBegin(p)
  PROVE  CInv'
<1> DEFINE x == Loop(p)
           due == {<<a, file[a].next>> : a \in {b \in Autos : file[b].state = "active" /\ file[b].next <= now}}
           j == [Idle EXCEPT !.pc = "visit", !.op = "tick", !.due = due]
<1>1. x \in Actors /\ MayBegin(x)
  BY LoopActor DEF TickBegin
<1>2. job' = [job EXCEPT ![x] = j] /\ UNCHANGED <<now, file, made, byHand, faults>>
  BY DEF TickBegin, world
<1>3. \A d \in due : d = <<d[1], d[2]>> /\ d[1] \in Autos /\ d[2] \in 1..now
  <2>1. \A a \in Autos : file[a].state = "active" /\ file[a].next <= now => file[a].next \in 1..now
    BY AutomationBounds DEF CInv, Scheduled
  <2> QED BY <2>1
<1>4. j.pc = "visit" /\ j.due = due
  BY DEF Idle
<1>5. ~Ticking(x)
  BY <1>1 DEF MayBegin, Ticking
<1> HIDE DEF x, due, j
<1>6. job'[x] = j /\ \A y \in Actors : y # x => job'[y] = job[y]
  BY <1>1, <1>2 DEF CInv, IInv, Shapes
<1>7. Timely(x)'
  BY <1>2, <1>3, <1>4, <1>6 DEF Timely, Ticking
<1>8. faults \in 0..MaxFaults /\ faults >= faults
  BY AutomationBounds DEF CInv, Counted
<1> QED BY <1>1, <1>2, <1>5, <1>6, <1>7, <1>8, ActorLooks

(* The visit of an automation that is due. *)
LEMMA VisitDue ==
  ASSUME CInv, NEW x \in Actors, NEW d \in job[x].due, Visits(x, d)
  PROVE  /\ d = <<d[1], d[2]>> /\ d[1] \in Autos /\ d[2] \in 1..now
         /\ file[d[1]].state = "active" /\ file[d[1]].next = d[2]
         /\ \A e \in job[x].due : e = <<e[1], e[2]>> /\ e[1] \in Autos /\ e[2] \in 1..now
<1>1. DuesStand(x)
  BY DEF CInv, IInv, Holds, Visits
<1>2. Timely(x)
  BY DEF CInv
<1> QED BY <1>1, <1>2 DEF DuesStand, Timely

LEMMA TickKnowsCounts ==
  ASSUME CInv, OneProcess, IInv', NEW p \in Procs, NEW d \in job[Loop(p)].due, TickKnows(p, d)
  PROVE  CInv'
<1> DEFINE x == Loop(p)
           v == Visited(x, d)
           j == [v EXCEPT !.pc = "auto"]
<1>1. x \in Actors /\ Visits(x, d) /\ job[x].pc = "visit" /\ d \in job[x].due
  BY LoopActor DEF TickKnows, Visits
<1>2. job' = [job EXCEPT ![x] = j] /\ UNCHANGED <<now, file, made, byHand, faults>>
  BY DEF TickKnows, world
<1>3. IsJob(v) /\ v.auto = d[1] /\ v.due = job[x].due \ {d}
  BY <1>1, VisitedFields DEF CInv
<1> HIDE DEF v
<1>4. j.auto = d[1] /\ j.due = job[x].due \ {d}
  BY <1>3 DEF IsJob
<1>5. ~Ticking(x)
  BY <1>1 DEF Ticking
<1> HIDE DEF x, j
<1>6. job'[x] = j /\ \A y \in Actors : y # x => job'[y] = job[y]
  BY <1>1, <1>2 DEF CInv, IInv, Shapes
<1>7. Timely(x)'
  <2>1. d[2] <= now
    BY <1>1, VisitDue DEF CInv, Scheduled
  <2> QED BY <1>1, <1>2, <1>4, <1>6, <2>1, VisitDue DEF Timely, Ticking
<1>8. faults \in 0..MaxFaults /\ faults >= faults
  BY AutomationBounds DEF CInv, Counted
<1> QED BY <1>1, <1>2, <1>5, <1>6, <1>7, <1>8, ActorLooks

LEMMA TickRunsCounts ==
  ASSUME CInv, OneProcess, IInv', NEW p \in Procs, NEW d \in job[Loop(p)].due, TickRuns(p, d)
  PROVE  CInv'
<1> DEFINE x == Loop(p)
           v == Visited(x, d)
           run(s) == [id |-> made', auto |-> v.auto, slot |-> d[2], status |-> s, task |-> s = "running"]
<1>1. x \in Actors /\ Visits(x, d) /\ job[x].pc = "visit" /\ d \in job[x].due
  BY LoopActor DEF TickRuns, Visits
<1>2. Enqueue(x, v, d[2]) /\ UNCHANGED <<now, file, byHand>>
  BY DEF TickRuns
<1>3. IsJob(v) /\ v.op = "tick" /\ v.auto = d[1] /\ v.due = job[x].due \ {d}
  BY <1>1, VisitedFields DEF CInv
<1> HIDE DEF x, v
<1>4. PICK s \in {"running", "failed"} :
        job' = [job EXCEPT ![x] = [v EXCEPT !.pc = "run", !.run = run(s)]]
  BY <1>2 DEF Enqueue
<1> DEFINE j == [v EXCEPT !.pc = "run", !.run = run(s)]
<1>5. j.pc = "run" /\ j.op = "tick" /\ j.auto = d[1] /\ j.due = job[x].due \ {d}
  BY <1>3 DEF IsJob
<1>6. job' = [job EXCEPT ![x] = j]
  BY <1>4
<1> HIDE DEF j
<1>7. job'[x] = j /\ \A y \in Actors : y # x => job'[y] = job[y]
  BY <1>1, <1>6 DEF CInv, IInv, Shapes
<1>8. made' = made + 1 /\ faults' \in 0..MaxFaults /\ faults' >= faults
  <2>1. made' = made + 1 /\ (faults' = faults \/ (faults < MaxFaults /\ faults' = faults + 1))
    BY <1>2 DEF Enqueue
  <2> QED BY <2>1, AutomationBounds DEF CInv, Counted
<1>9. /\ d = <<d[1], d[2]>> /\ d[1] \in Autos /\ d[2] \in 1..now
      /\ file[d[1]].state = "active" /\ file[d[1]].next = d[2] /\ now \in Nat
  BY <1>1, VisitDue, AutomationBounds DEF CInv, Scheduled
<1>10. Timely(x)'
  BY <1>1, <1>2, <1>5, <1>7, <1>9, VisitDue DEF Timely, Ticking
<1>11. Scheduled'
  BY <1>2 DEF CInv, Scheduled
<1>12. ~Ticking(x) /\ Ticking(x)'
  BY <1>1, <1>5, <1>7 DEF Ticking
<1>13. \A a : ~Underway(a)
  BY <1>1, <1>7, <1>12, OneTicks DEF CInv
<1>14. d \notin Spent
  BY <1>9, <1>13 DEF Spent
<1>15. Underway(d[1])'
  BY <1>1, <1>5, <1>7, <1>12 DEF Underway
<1>16. d \in Spent'
  BY <1>2, <1>9, <1>15 DEF Spent
<1>17. Spent \subseteq Spent'
  BY <1>2, <1>13 DEF Spent
<1>18. Counted'
  BY <1>2, <1>8, <1>14, <1>16, <1>17, CountGrows DEF CInv, Scheduled
<1> QED BY <1>1, <1>2, <1>7, <1>10, <1>11, <1>18, ActorCounts

LEMMA SaveRunCounts ==
  ASSUME CInv, OneProcess, IInv', NEW x \in Actors, SaveRun(x)
  PROVE  CInv'
<1> DEFINE j == [job[x] EXCEPT !.pc = "auto", !.run = NoRun]
<1>1. /\ job' = [job EXCEPT ![x] = j] /\ job[x].pc = "run"
      /\ UNCHANGED <<now, file, made, byHand, faults>>
  BY DEF SaveRun, CInv, IInv, Shapes, world
<1>2. j.pc = "auto" /\ j.op = job[x].op /\ j.auto = job[x].auto /\ j.due = job[x].due
  BY DEF CInv, IInv, Shapes, IsJob
<1> HIDE DEF j
<1>3. job'[x] = j /\ \A y \in Actors : y # x => job'[y] = job[y]
  BY <1>1 DEF CInv, IInv, Shapes
<1>4. Timely(x)' /\ (Ticking(x) => Ticking(x)')
  BY <1>1, <1>2, <1>3 DEF CInv, Timely, Ticking
<1>5. faults \in 0..MaxFaults /\ faults >= faults
  BY AutomationBounds DEF CInv, Counted
<1> QED BY <1>1, <1>2, <1>3, <1>4, <1>5, ActorLooks

(* What an actor goes on with. *)
LEMMA ProceedsTo ==
  ASSUME IInv, NEW x \in Actors,
         job' = Proceed(x) \/ job' = [Proceed(x) EXCEPT ![x].due = {}]
  PROVE  /\ \A y \in Actors : y # x => job'[y] = job[y]
         /\ job'[x].pc \in {"idle", "visit"} /\ job'[x].due \subseteq job[x].due
<1> DEFINE next == [Idle EXCEPT !.pc = "visit", !.op = "tick", !.due = job[x].due]
<1>1. /\ Idle.pc = "idle" /\ Idle.due = {} /\ [Idle EXCEPT !.due = {}].pc = "idle"
      /\ [Idle EXCEPT !.due = {}].due = {}
      /\ next.pc = "visit" /\ next.due = job[x].due
      /\ [next EXCEPT !.due = {}].pc = "visit" /\ [next EXCEPT !.due = {}].due = {}
  BY DEF Idle
<1>2. PICK j \in {Idle, next} : Proceed(x) = [job EXCEPT ![x] = j]
  BY DEF Proceed
<1> HIDE DEF next
<1>3. job' = [job EXCEPT ![x] = j] \/ job' = [job EXCEPT ![x] = [j EXCEPT !.due = {}]]
  BY <1>2 DEF IInv, Shapes
<1> QED BY <1>1, <1>3 DEF IInv, Shapes

LEMMA SaveAutomationCounts ==
  ASSUME CInv, OneProcess, IInv', NEW x \in Actors, SaveAutomation(x)
  PROVE  CInv'
<1> DEFINE a == job[x].auto
<1>1. job[x].pc = "auto" /\ job' = Proceed(x) /\ UNCHANGED <<now, made, byHand, faults>>
  BY DEF SaveAutomation, world
<1>2. /\ \A y \in Actors : y # x => job'[y] = job[y]
      /\ job'[x].pc \in {"idle", "visit"} /\ job'[x].due \subseteq job[x].due
  BY <1>1, ProceedsTo DEF CInv
<1>3. Timely(x)'
  BY <1>1, <1>2 DEF CInv, Timely, Ticking
<1>4. a \in Autos /\ (TickHolds(x) \/ HandHolds(x)) /\ file' = [file EXCEPT ![a] = job[x].rec]
  BY <1>1 DEF CInv, IInv, Holds, SaveAutomation
<1>5. \A b \in Autos \ {a} : file'[b] = file[b]
  BY <1>4 DEF CInv, IInv, Shapes
<1>6. \/ file'[a] = file[a] /\ ~Ticking(x)
      \/ /\ file[a].state = "active" /\ file'[a].state = "active"
         /\ file'[a].next = file[a].next + 1 /\ file[a].next <= now
  <2>1. file'[a] = job[x].rec
    BY <1>4 DEF CInv, IInv, Shapes
  <2>2. CASE HandHolds(x)
    BY <2>1, <2>2 DEF HandHolds, Ticking
  <2>3. CASE TickHolds(x)
    <3>1. Ticking(x) /\ file[a].state = "active" /\ job[x].rec = Active(NextAfter(file[a].next))
      BY <1>1, <2>3 DEF TickHolds, Ticking
    <3>2. file[a].next <= now
      BY <3>1 DEF CInv, Timely
    <3> QED BY <2>1, <3>1, <3>2 DEF Active, NextAfter
  <2> QED BY <1>4, <2>2, <2>3
<1> HIDE DEF a
<1>7. Scheduled'
  BY <1>1, <1>4, <1>5, <1>6, AutomationBounds DEF CInv, Scheduled
<1>8. ASSUME NEW b \in Autos, file'[b].state = "active"
      PROVE  \/ file[b].state = "active" /\ file'[b].next = file[b].next + 1
             \/ file'[b] = file[b] /\ ~(Ticking(x) /\ job[x].auto = b)
  BY <1>5, <1>6, <1>8 DEF a
<1>9. byHand' \in 0..MaxByHand /\ faults' \in 0..MaxFaults /\ faults' >= faults
  BY <1>1, AutomationBounds DEF CInv, Counted
<1> QED BY <1>1, <1>2, <1>3, <1>7, <1>8, <1>9, ActorSpends

LEMMA WriteFailsCounts ==
  ASSUME CInv, OneProcess, IInv', NEW x \in Actors, WriteFails(x)
  PROVE  CInv'
<1>1. /\ job[x].pc # "idle" /\ job' = [Proceed(x) EXCEPT ![x].due = {}]
      /\ UNCHANGED <<now, file, made, byHand>> /\ faults' = faults + 1 /\ faults < MaxFaults
  BY DEF WriteFails
<1>2. /\ \A y \in Actors : y # x => job'[y] = job[y]
      /\ job'[x].pc \in {"idle", "visit"} /\ job'[x].due \subseteq job[x].due
  BY <1>1, ProceedsTo DEF CInv
<1>3. Timely(x)'
  <2>1. Timely(x)
    BY DEF CInv
  <2>2. ~Ticking(x)'
    BY <1>2 DEF Ticking
  <2>3. now' = now
    BY <1>1
  <2> QED BY <1>2, <2>1, <2>2, <2>3 DEF Timely
<1>4. Scheduled' /\ Counted'
  BY <1>1, FaultCounts DEF CInv, Scheduled
<1> QED BY <1>1, <1>2, <1>3, <1>4, ActorCounts

LEMMA CrashCounts ==
  ASSUME CInv, OneProcess, IInv', NEW p \in Procs, Crash(p)
  PROVE  CInv'
<1>1. \A x \in Actors : Proc(x) = p
  BY DEF Actors, Proc, OneProcess
<1>2. /\ \A x \in Actors : job'[x] = Idle
      /\ UNCHANGED <<now, file, made, byHand>> /\ faults' = faults + 1 /\ faults < MaxFaults
  BY <1>1 DEF Crash
<1>3. \A x \in Actors : Timely(x)'
  BY <1>2 DEF Timely, Ticking, Idle
<1>4. Scheduled' /\ Counted'
  BY <1>2, FaultCounts DEF CInv, Scheduled
<1> QED BY <1>3, <1>4 DEF CInv

LEMMA ReconcileCounts ==
  ASSUME CInv, OneProcess, IInv', NEW p \in Procs,
         \/ ReconcileBegin(p) \/ ReconcileEnds(p) \/ ReconcileFails(p)
         \/ \E r \in job[Loop(p)].pending : Reconcile(p, r)
  PROVE  CInv'
<1> DEFINE x == Loop(p)
<1>1. /\ x \in Actors /\ job[x].pc \in {"visit", "reconcile"} /\ UNCHANGED <<now, file, made, byHand>>
  BY LoopActor DEF ReconcileBegin, ReconcileEnds, ReconcileFails, Reconcile, world
<1>2. faults' \in 0..MaxFaults /\ faults' >= faults
  <2>1. faults' = faults \/ (faults < MaxFaults /\ faults' = faults + 1)
    BY DEF ReconcileBegin, ReconcileEnds, ReconcileFails, Reconcile, world
  <2> QED BY <2>1, AutomationBounds DEF CInv, Counted
<1>3. /\ \A y \in Actors : y # x => job'[y] = job[y]
      /\ job'[x].pc \in {"idle", "reconcile"} /\ job'[x].due \subseteq job[x].due
  <2>1. ASSUME ReconcileBegin(p) \/ ReconcileEnds(p) \/ ReconcileFails(p)
        PROVE  \E j : job' = [job EXCEPT ![x] = j] /\ j.pc \in {"idle", "reconcile"} /\ j.due = {}
    <3>1. Idle.pc = "idle" /\ Idle.due = {}
      BY DEF Idle
    <3>2. ASSUME NEW S
          PROVE  /\ [Idle EXCEPT !.pc = "reconcile", !.op = "tick", !.pending = S].pc = "reconcile"
                 /\ [Idle EXCEPT !.pc = "reconcile", !.op = "tick", !.pending = S].due = {}
      BY DEF Idle
    <3>3. CASE ReconcileBegin(p)
      <4>1. PICK S : job' = [job EXCEPT ![x] = [Idle EXCEPT !.pc = "reconcile", !.op = "tick", !.pending = S]]
        BY <3>3 DEF ReconcileBegin
      <4> QED BY <3>2, <4>1
    <3>4. CASE ReconcileEnds(p) \/ ReconcileFails(p)
      <4>1. job' = [job EXCEPT ![x] = Idle]
        BY <3>4 DEF ReconcileEnds, ReconcileFails
      <4> QED BY <3>1, <4>1
    <3> QED BY <2>1, <3>3, <3>4
  <2>2. ASSUME NEW r \in job[x].pending, Reconcile(p, r)
        PROVE  \E j : job' = [job EXCEPT ![x] = j] /\ j.pc = "reconcile" /\ j.due = job[x].due
    <3> DEFINE rest == IF owner[r.id] = p /\ task[r.id] \in Final /\ ~Exists(r.auto)
                       THEN {} ELSE job[x].pending \ {r}
               j == [job[x] EXCEPT !.pending = rest]
    <3> HIDE DEF rest
    <3>1. job' = [job EXCEPT ![x] = j]
      BY <1>1, <2>2 DEF Reconcile, rest, CInv, IInv, Shapes, IsJob
    <3>2. j.pc = "reconcile" /\ j.due = job[x].due
      BY <1>1, <2>2 DEF Reconcile, CInv, IInv, Shapes, IsJob
    <3> QED BY <3>1, <3>2
  <2>3. PICK j : job' = [job EXCEPT ![x] = j] /\ j.pc \in {"idle", "reconcile"} /\ j.due \subseteq job[x].due
    BY <2>1, <2>2
  <2> QED BY <1>1, <2>3 DEF CInv, IInv, Shapes
<1> HIDE DEF x
<1>4. Timely(x)' /\ ~Ticking(x)
  BY <1>1, <1>3 DEF CInv, Timely, Ticking
<1> QED BY <1>1, <1>2, <1>3, <1>4, ActorLooks

LEMMA HandlerCounts ==
  ASSUME CInv, OneProcess, IInv', NEW p \in Procs, NEW a \in Autos,
         Pause(p, a) \/ Resume(p, a) \/ Delete(p, a)
  PROVE  CInv'
<1> DEFINE x == Api(p)
           d == [Idle EXCEPT !.pc = "runs", !.op = "delete", !.auto = a]
<1>1. /\ x \in Actors /\ MayBegin(x) /\ UNCHANGED <<now, made, byHand, faults>>
      /\ job' = job \/ job' = [job EXCEPT ![x] = d]
  BY LoopActor DEF Pause, Resume, Delete, world
<1>2. job[x].pc = "idle"
  BY <1>1 DEF MayBegin
<1>3. d.pc = "runs" /\ d.due = {}
  BY DEF Idle
<1> HIDE DEF x, d
<1>4. \A y \in Actors : y # x => job'[y] = job[y]
  BY <1>1 DEF CInv, IInv, Shapes
<1>5. ~Ticking(x) /\ Timely(x)'
  BY <1>1, <1>2, <1>3 DEF CInv, IInv, Shapes, Timely, Ticking
<1>6. /\ \A b \in Autos \ {a} : file'[b] = file[b]
      /\ file'[a].state = "active" => file'[a].next = now + 1
  BY DEF Pause, Resume, Delete, NoFile, Active, NextAfter, CInv, IInv, Shapes
<1>7. now \in Nat
  BY AutomationBounds DEF CInv, Scheduled
<1>8. Scheduled'
  BY <1>1, <1>6, <1>7 DEF CInv, Scheduled
<1>9. ASSUME NEW b \in Autos, file'[b].state = "active"
      PROVE  file'[b].next > now \/ file'[b] = file[b]
  BY <1>6, <1>7, <1>9
<1>10. byHand' \in 0..MaxByHand /\ faults' \in 0..MaxFaults /\ faults' >= faults
  BY <1>1, AutomationBounds DEF CInv, Counted
<1> QED BY <1>1, <1>4, <1>5, <1>8, <1>9, <1>10, ActorSpends

LEMMA RunNowCounts ==
  ASSUME CInv, OneProcess, IInv', NEW p \in Procs, NEW a \in Autos, RunNow(p, a)
  PROVE  CInv'
<1> DEFINE x == Api(p)
           v == [Idle EXCEPT !.op = "run_now", !.auto = a, !.rec = file[a]]
           run(s) == [id |-> made', auto |-> v.auto, slot |-> None, status |-> s, task |-> s = "running"]
<1>1. x \in Actors /\ MayBegin(x) /\ Enqueue(x, v, None) /\ UNCHANGED <<now, file>>
      /\ byHand < MaxByHand /\ byHand' = byHand + 1
  BY LoopActor DEF RunNow
<1>2. IsJob(v) /\ v.op = "run_now" /\ v.due = {}
  BY DEF IsJob, Idle
<1> HIDE DEF x, v
<1>3. PICK s \in {"running", "failed"} :
        job' = [job EXCEPT ![x] = [v EXCEPT !.pc = "run", !.run = run(s)]]
  BY <1>1 DEF Enqueue
<1> DEFINE j == [v EXCEPT !.pc = "run", !.run = run(s)]
<1>4. j.op = "run_now" /\ j.due = {}
  BY <1>2 DEF IsJob
<1>5. job' = [job EXCEPT ![x] = j]
  BY <1>3
<1> HIDE DEF j
<1>6. job'[x] = j /\ \A y \in Actors : y # x => job'[y] = job[y]
  BY <1>1, <1>5 DEF CInv, IInv, Shapes
<1>7. ~Ticking(x) /\ Timely(x)'
  BY <1>1, <1>4, <1>6 DEF MayBegin, Timely, Ticking
<1>8. Scheduled'
  BY <1>1 DEF CInv, Scheduled
<1>9. /\ made' = made + 1 /\ byHand' \in 0..MaxByHand
      /\ faults' \in 0..MaxFaults /\ faults' >= faults
  <2>1. made' = made + 1 /\ (faults' = faults \/ (faults < MaxFaults /\ faults' = faults + 1))
    BY <1>1 DEF Enqueue
  <2> QED BY <1>1, <2>1, AutomationBounds DEF CInv, Counted
<1> QED BY <1>1, <1>6, <1>7, <1>8, <1>9, ActorSpends

LEMMA DeleteRunsCounts ==
  ASSUME CInv, OneProcess, IInv', NEW p \in Procs, DeleteRuns(p)
  PROVE  CInv'
<1> DEFINE x == Api(p)
<1>1. /\ x \in Actors /\ job[x].pc = "runs" /\ job' = [job EXCEPT ![x] = Idle]
      /\ UNCHANGED <<now, file, made, byHand, faults>>
  BY LoopActor DEF DeleteRuns, world
<1> HIDE DEF x
<1>2. job'[x] = Idle /\ \A y \in Actors : y # x => job'[y] = job[y]
  BY <1>1 DEF CInv, IInv, Shapes
<1>3. ~Ticking(x) /\ Timely(x)'
  BY <1>1, <1>2 DEF Timely, Ticking, Idle
<1>4. faults \in 0..MaxFaults /\ faults >= faults
  BY AutomationBounds DEF CInv, Counted
<1> QED BY <1>1, <1>2, <1>3, <1>4, ActorLooks

LEMMA CountStep == OneProcess /\ CInv /\ [Next]_vars => CInv'
<1> SUFFICES ASSUME OneProcess, CInv, [Next]_vars PROVE CInv'
  OBVIOUS
<1>0. IInv'
  BY StepKeeps DEF CInv
<1>1. ASSUME NEW p \in Procs, JobStep(p) PROVE CInv'
  <2>1. ASSUME NEW d \in job[Loop(p)].due, TickKnows(p, d) \/ TickRuns(p, d) PROVE CInv'
    BY <1>0, <2>1, TickKnowsCounts, TickRunsCounts
  <2>2. ASSUME NEW x \in Actors, SaveRun(x) \/ SaveAutomation(x) PROVE CInv'
    BY <1>0, <2>2, SaveRunCounts, SaveAutomationCounts
  <2> QED BY <1>0, <1>1, <2>1, <2>2, ReconcileCounts, DeleteRunsCounts DEF JobStep, LoopStep
<1>2. ASSUME NEW p \in Procs, TickBegin(p) \/ ReconcileFails(p) \/ Crash(p) PROVE CInv'
  BY <1>0, <1>2, TickBeginCounts, ReconcileCounts, CrashCounts
<1>3. ASSUME NEW p \in Procs, NEW a \in Autos, Pause(p, a) \/ Resume(p, a) \/ RunNow(p, a) \/ Delete(p, a)
      PROVE  CInv'
  BY <1>0, <1>3, HandlerCounts, RunNowCounts
<1>4. ASSUME NEW x \in Actors, WriteFails(x) PROVE CInv'
  BY <1>0, <1>4, WriteFailsCounts
<1>5. CASE SlotPasses \/ (\E p \in Procs : Boot(p)) \/ (\E i \in Ids : TaskMoves(i)) \/ UNCHANGED vars
  <2>1. UNCHANGED <<file, job, made, byHand, faults>> /\ (now' = now \/ (now < MaxNow /\ now' = now + 1))
    BY <1>5 DEF SlotPasses, Boot, TaskMoves, vars, world
  <2>2. now' \in 0..MaxNow /\ now <= now'
    BY <2>1, AutomationBounds DEF CInv, Scheduled
  <2> QED BY <1>0, <2>1, <2>2, BesideCounts
<1> QED BY <1>1, <1>2, <1>3, <1>4, <1>5 DEF Next

LEMMA CountInit == Init => CInv
<1> SUFFICES ASSUME Init PROVE CInv
  OBVIOUS
<1>1. Scheduled
  BY AutomationBounds DEF Init, Scheduled, Active
<1>2. \A x \in Actors : Timely(x)
  BY DEF Init, Timely, Ticking, Idle
<1>3. Counted
  <2>1. Cardinality(Spent) \in Nat
    <3>1. Spent \in SUBSET (Autos \X (1..now))
      BY DEF Spent
    <3> QED BY <1>1, <3>1, SpentBound DEF Scheduled
  <2> QED BY <2>1, AutomationBounds DEF Init, Counted
<1> QED BY <1>1, <1>2, <1>3, InitInv DEF CInv

(* The numbers suffice. *)
LEMMA EnoughIds ==
  ASSUME OneProcess, Procs # {}, NEW b \in 0..MaxByHand, NEW f \in 0..MaxFaults, NEW n \in 0..MaxNow,
         NEW S \in SUBSET (Autos \X (1..n)), NEW m \in Nat, m <= b + f + Cardinality(S)
  PROVE  m \in 0..Cardinality(Ids) /\ \A i \in 1..m : i \in Ids
<1>1. Cardinality(Procs) = 1
  <2>1. PICK p \in Procs : TRUE
    OBVIOUS
  <2>2. Procs = {p}
    BY DEF OneProcess
  <2> QED BY <2>2, FS_Singleton
<1>2. /\ Cardinality(S) \in Nat /\ Cardinality(Autos) \in Nat
      /\ Cardinality(S) <= Cardinality(Autos) * MaxNow
  BY SpentBound
<1>3. MaxNow \in Nat /\ MaxByHand \in Nat /\ MaxFaults \in Nat
  BY AutomationBounds
<1> DEFINE most == Cardinality(Autos) * MaxNow
<1>4. most \in Nat /\ Ids = 1..(most + MaxFaults + MaxByHand)
  BY <1>1, <1>2, <1>3 DEF Ids
<1>5. Cardinality(S) <= most
  BY <1>2
<1> HIDE DEF most
<1>6. m <= most + MaxFaults + MaxByHand
  BY <1>2, <1>3, <1>4, <1>5
<1>7. Cardinality(Ids) = most + MaxFaults + MaxByHand
  <2> DEFINE total == most + MaxFaults + MaxByHand
  <2>1. total \in Nat /\ Ids = 1..total
    BY <1>3, <1>4
  <2> HIDE DEF total
  <2>2. Cardinality(1..total) = total
    BY <2>1, FS_Interval
  <2> QED BY <2>1, <2>2 DEF total
<1> QED BY <1>3, <1>4, <1>6, <1>7

-----------------------------------------------------------------------------
(* Types.                                                                  *)

(* A run that has a task is of a task that was taken. *)
Tracked == {r \in RunRecords : r.task => task[r.id] # "none"}

JobOK(j, R) ==
  /\ j.pc \in {"idle", "visit", "run", "auto", "runs", "reconcile"}
  /\ j.op \in {"none", "tick", "run_now", "delete"}
  /\ j.auto \in Autos \cup {None} /\ j.rec \in AutoFiles
  /\ j.run \in R \cup {NoRun} /\ (j.pc = "run" => j.run \in R) /\ j.due \subseteq Autos \X Slots
  /\ j.pending \subseteq R /\ \A r \in j.pending : r.task

Typed ==
  /\ file \in [Autos -> AutoFiles] /\ runs \subseteq Tracked /\ up \subseteq Procs
  /\ task \in [Ids -> Statuses \cup {"none"}] /\ owner \in [Ids -> Procs \cup {None}]
  /\ \A x \in Actors : JobOK(job[x], Tracked)

LEMMA TrackedGrows ==
  ASSUME \A i \in Ids : task[i] # "none" => task'[i] # "none"
  PROVE  Tracked \subseteq Tracked'
BY DEF Tracked, RunRecords

LEMMA ActiveFile ==
  ASSUME NEW s \in 1..(MaxNow + 1)
  PROVE  s \in Slots /\ Active(s) \in AutoFiles
BY DEF Slots, Active, AutoFiles

LEMMA IdleTyped == ASSUME NEW R PROVE JobOK(Idle, R)
BY DEF JobOK, Idle, NoFile, AutoFiles, Slots

(* A step of one actor that moves no task. *)
LEMMA ActorTyped ==
  ASSUME Typed, NEW x \in Actors, \A y \in Actors : y # x => job'[y] = job[y],
         JobOK(job'[x], Tracked), UNCHANGED tasks, up' \subseteq Procs,
         runs' \subseteq Tracked, file' \in [Autos -> AutoFiles]
  PROVE  Typed'
<1>1. Tracked' = Tracked /\ UNCHANGED <<task, owner>>
  BY DEF Tracked, tasks
<1>2. ASSUME NEW y \in Actors PROVE JobOK(job'[y], Tracked)
  BY <1>2 DEF Typed
<1>3. ASSUME NEW y \in Actors PROVE JobOK(job[y], Tracked)'
  BY <1>1, <1>2 DEF JobOK
<1> QED BY <1>1, <1>3 DEF Typed

LEMMA LoopTyped ==
  ASSUME CInv, Typed, NEW p \in Procs,
         TickBegin(p) \/ ReconcileBegin(p) \/ ReconcileEnds(p) \/ ReconcileFails(p)
  PROVE  Typed'
<1> DEFINE x == Loop(p)
           due == {<<a, file[a].next>> : a \in {b \in Autos : file[b].state = "active" /\ file[b].next <= now}}
           todo == UNION {{r \in Latest(a, RecLimit) : Unsettled(r)} : a \in {b \in Autos : Exists(b)}}
           v == [Idle EXCEPT !.pc = "visit", !.op = "tick", !.due = due]
           w == [Idle EXCEPT !.pc = "reconcile", !.op = "tick", !.pending = todo]
<1>1. x \in Actors /\ UNCHANGED <<tasks, file, runs, up>>
  BY LoopActor DEF TickBegin, ReconcileBegin, ReconcileEnds, ReconcileFails, world
<1>2. due \subseteq Autos \X Slots
  BY DEF Typed, AutoFiles
<1>3. todo \subseteq Tracked /\ \A r \in todo : r.task
  BY DEF Latest, RunsOf, Typed, Unsettled
<1>4. \E j \in {v, w, Idle} : job' = [job EXCEPT ![x] = j]
  BY DEF TickBegin, ReconcileBegin, ReconcileEnds, ReconcileFails
<1> HIDE DEF due, todo
<1>5. JobOK(Idle, Tracked) /\ JobOK(v, Tracked) /\ JobOK(w, Tracked)
  BY <1>2, <1>3, IdleTyped DEF JobOK, Idle
<1> HIDE DEF x, v, w
<1>6. JobOK(job'[x], Tracked) /\ \A y \in Actors : y # x => job'[y] = job[y]
  BY <1>1, <1>4, <1>5 DEF CInv, IInv, Shapes
<1> QED BY <1>1, <1>6, ActorTyped DEF Typed

LEMMA VisitTyped ==
  ASSUME CInv, Typed, NEW x \in Actors, NEW d \in job[x].due, Visits(x, d)
  PROVE  /\ JobOK(Visited(x, d), Tracked) /\ IsJob(Visited(x, d))
         /\ Visited(x, d).auto = d[1] /\ d[1] \in Autos /\ d[2] \in Slots
<1> DEFINE v == Visited(x, d)
<1>1. IsJob(v) /\ v.op = "tick" /\ v.auto = d[1] /\ v.rec = Active(NextAfter(d[2])) /\ v.due = job[x].due \ {d}
  BY VisitedFields DEF CInv
<1>2. v.pc = "visit" /\ v.run = job[x].run /\ v.pending = job[x].pending
  BY DEF Visited, Visits, CInv, IInv, Shapes, IsJob
<1>3. d[1] \in Autos /\ d[2] \in 1..(MaxNow + 1) /\ d[2] + 1 \in 1..(MaxNow + 1)
  BY VisitDue, AutomationBounds DEF CInv, Scheduled
<1>4. d[2] \in Slots /\ v.rec \in AutoFiles
  BY <1>1, <1>3, ActiveFile DEF NextAfter
<1> HIDE DEF v
<1>5. JobOK(v, Tracked)
  BY <1>1, <1>2, <1>3, <1>4 DEF JobOK, Typed
<1> QED BY <1>1, <1>3, <1>4, <1>5 DEF v

LEMMA TickKnowsTyped ==
  ASSUME CInv, Typed, NEW p \in Procs, NEW d \in job[Loop(p)].due, TickKnows(p, d)
  PROVE  Typed'
<1> DEFINE x == Loop(p)
           v == Visited(x, d)
           j == [v EXCEPT !.pc = "auto"]
<1>1. x \in Actors /\ UNCHANGED <<tasks, file, runs, up>> /\ Visits(x, d) /\ d \in job[x].due
  BY LoopActor DEF TickKnows, world
<1>2. IsJob(v) /\ JobOK(v, Tracked)
  BY <1>1, VisitTyped
<1>3. job' = [job EXCEPT ![x] = j]
  BY DEF TickKnows
<1> HIDE DEF x, v
<1>4. JobOK(j, Tracked)
  BY <1>2 DEF JobOK, IsJob
<1> HIDE DEF j
<1>5. JobOK(job'[x], Tracked) /\ \A y \in Actors : y # x => job'[y] = job[y]
  BY <1>1, <1>3, <1>4 DEF CInv, IInv, Shapes
<1> QED BY <1>1, <1>5, ActorTyped DEF Typed

(* A run is made, with a number that is left. *)
LEMMA EnqueueTyped ==
  ASSUME CInv, CInv', Typed, OneProcess, NEW x \in Actors, NEW v, IsJob(v), JobOK(v, Tracked), v.auto \in Autos,
         NEW slot \in Slots, Enqueue(x, v, slot), UNCHANGED <<file, runs, up>>
  PROVE  Typed'
<1> DEFINE run(s) == [id |-> made', auto |-> v.auto, slot |-> slot, status |-> s, task |-> s = "running"]
<1>1. made' \in Ids
  <2>1. Spent' \in SUBSET (Autos \X (1..now'))
    BY DEF Spent
  <2>2. Procs # {}
    BY DEF Actors
  <2> HIDE DEF Spent
  <2>3. \A i \in 1..made' : i \in Ids
    BY <2>1, <2>2, EnoughIds DEF CInv, Counted, Scheduled
  <2>4. made' = made + 1 /\ made \in Nat
    BY DEF Enqueue, CInv, Counted
  <2> QED BY <2>3, <2>4
<1>2. Proc(x) \in Procs
  BY DEF Proc, Actors
<1>3. PICK s \in {"running", "failed"} :
        /\ job' = [job EXCEPT ![x] = [v EXCEPT !.pc = "run", !.run = run(s)]]
        /\ \/ /\ s = "running" /\ task' = [task EXCEPT ![made'] = "queued"]
              /\ owner' = [owner EXCEPT ![made'] = Proc(x)]
           \/ s = "failed" /\ UNCHANGED <<task, owner>>
  BY DEF Enqueue, tasks
<1>4. /\ task' \in [Ids -> Statuses \cup {"none"}] /\ owner' \in [Ids -> Procs \cup {None}]
      /\ \A i \in Ids : task[i] # "none" => task'[i] # "none"
      /\ s = "running" => task'[made'] # "none"
  BY <1>1, <1>2, <1>3 DEF Typed, Statuses
<1>5. Tracked \subseteq Tracked'
  BY <1>4, TrackedGrows
<1>6. run(s) \in Tracked'
  <2>1. run(s) \in RunRecords
    BY <1>1 DEF RunRecords, Statuses, Final
  <2> QED BY <1>4, <2>1 DEF Tracked
<1> DEFINE j == [v EXCEPT !.pc = "run", !.run = run(s)]
<1>7. job' = [job EXCEPT ![x] = j]
  BY <1>3
<1> HIDE DEF run
<1>8. JobOK(j, Tracked')
  BY <1>5, <1>6 DEF JobOK, IsJob
<1> HIDE DEF j
<1>9. ASSUME NEW y \in Actors PROVE JobOK(job'[y], Tracked')
  <2>1. CASE y = x
    BY <1>7, <1>8, <2>1 DEF CInv, IInv, Shapes
  <2>2. CASE y # x
    <3>1. job'[y] = job[y] /\ JobOK(job[y], Tracked)
      BY <1>7, <2>2 DEF CInv, IInv, Shapes, Typed
    <3> QED BY <1>5, <3>1 DEF JobOK
  <2> QED BY <2>1, <2>2
<1>10. \A y \in Actors : JobOK(job[y], Tracked)'
  BY <1>9 DEF JobOK
<1> QED BY <1>4, <1>5, <1>10 DEF Typed

LEMMA RunsTyped ==
  ASSUME CInv, CInv', Typed, OneProcess,
         \/ \E p \in Procs : \E d \in job[Loop(p)].due : TickRuns(p, d)
         \/ \E p \in Procs : \E a \in Autos : RunNow(p, a)
  PROVE  Typed'
<1>1. ASSUME NEW p \in Procs, NEW d \in job[Loop(p)].due, TickRuns(p, d) PROVE Typed'
  <2> DEFINE x == Loop(p)
             v == Visited(x, d)
  <2>1. x \in Actors /\ Visits(x, d) /\ d \in job[x].due /\ Enqueue(x, v, d[2]) /\ UNCHANGED <<file, runs, up>>
    BY <1>1, LoopActor DEF TickRuns
  <2>2. JobOK(v, Tracked) /\ IsJob(v) /\ v.auto \in Autos /\ d[2] \in Slots
    BY <2>1, VisitTyped
  <2> HIDE DEF x, v
  <2> QED BY <2>1, <2>2, EnqueueTyped
<1>2. ASSUME NEW p \in Procs, NEW a \in Autos, RunNow(p, a) PROVE Typed'
  <2> DEFINE x == Api(p)
             v == [Idle EXCEPT !.op = "run_now", !.auto = a, !.rec = file[a]]
  <2>1. x \in Actors /\ Enqueue(x, v, None) /\ UNCHANGED <<file, runs, up>> /\ None \in Slots
    BY <1>2, LoopActor DEF RunNow, Slots
  <2>2. file[a] \in AutoFiles
    BY DEF Typed
  <2>3. JobOK(v, Tracked) /\ IsJob(v) /\ v.auto \in Autos
    BY <2>2, IdleTyped DEF JobOK, IsJob, Idle
  <2> HIDE DEF x, v
  <2> QED BY <2>1, <2>3, EnqueueTyped
<1> QED BY <1>1, <1>2

LEMMA SavesTyped ==
  ASSUME CInv, Typed, NEW x \in Actors, SaveRun(x) \/ SaveAutomation(x) \/ WriteFails(x)
  PROVE  Typed'
<1>0. JobOK(job[x], Tracked) /\ IsJob(job[x])
  BY DEF Typed, CInv, IInv, Shapes
<1>1. CASE SaveRun(x)
  <2> DEFINE j == [job[x] EXCEPT !.pc = "auto", !.run = NoRun]
  <2>1. job' = [job EXCEPT ![x] = j] /\ runs' = runs \cup {job[x].run} /\ UNCHANGED <<tasks, file, up>>
    BY <1>1 DEF SaveRun, world, CInv, IInv, Shapes
  <2>2. JobOK(j, Tracked)
    BY <1>0 DEF JobOK, IsJob
  <2> HIDE DEF j
  <2>3. JobOK(job'[x], Tracked) /\ \A y \in Actors : y # x => job'[y] = job[y]
    BY <2>1, <2>2 DEF CInv, IInv, Shapes
  <2>4. job[x].run \in Tracked
    BY <1>0, <1>1 DEF SaveRun, JobOK
  <2> QED BY <2>1, <2>3, <2>4, ActorTyped DEF Typed
<1>2. CASE SaveAutomation(x) \/ WriteFails(x)
  <2> DEFINE next == [Idle EXCEPT !.pc = "visit", !.op = "tick", !.due = job[x].due]
  <2>1. /\ JobOK(Idle, Tracked) /\ JobOK(next, Tracked)
        /\ JobOK([Idle EXCEPT !.due = {}], Tracked) /\ JobOK([next EXCEPT !.due = {}], Tracked)
    BY <1>0, IdleTyped DEF JobOK, Idle
  <2>2. PICK j \in {Idle, next} : Proceed(x) = [job EXCEPT ![x] = j]
    BY DEF Proceed
  <2> HIDE DEF next
  <2>3. job' = [job EXCEPT ![x] = j] \/ job' = [job EXCEPT ![x] = [j EXCEPT !.due = {}]]
    BY <1>2, <2>2 DEF SaveAutomation, WriteFails, CInv, IInv, Shapes
  <2>4. JobOK(job'[x], Tracked) /\ \A y \in Actors : y # x => job'[y] = job[y]
    BY <2>1, <2>2, <2>3 DEF CInv, IInv, Shapes
  <2>5. UNCHANGED <<tasks, runs, up>> /\ file' \in [Autos -> AutoFiles]
    BY <1>0, <1>2 DEF SaveAutomation, WriteFails, world, JobOK, Typed
  <2> QED BY <2>4, <2>5, ActorTyped DEF Typed
<1> QED BY <1>1, <1>2

LEMMA MirrorTyped ==
  ASSUME CInv, Typed, NEW p \in Procs, NEW r \in job[Loop(p)].pending, Reconcile(p, r)
  PROVE  Typed'
<1> DEFINE x == Loop(p)
           rest == IF owner[r.id] = p /\ task[r.id] \in Final /\ ~Exists(r.auto)
                   THEN {} ELSE job[x].pending \ {r}
           j == [job[x] EXCEPT !.pending = rest]
<1>1. x \in Actors /\ UNCHANGED <<tasks, file, up>>
  BY LoopActor DEF Reconcile, world
<1>2. JobOK(job[x], Tracked) /\ IsJob(job[x])
  BY <1>1 DEF Typed, CInv, IInv, Shapes
<1>3. r \in Tracked /\ r.task
  BY <1>2 DEF JobOK
<1>4. Mirrored(r) \in Tracked
  <2>1. r \in RunRecords /\ task[r.id] \in Statuses
    BY <1>3 DEF Tracked, RunRecords, Typed
  <2>2. Mirrored(r) \in RunRecords /\ Mirrored(r).id = r.id
    BY <2>1 DEF Mirrored, RunRecords
  <2> QED BY <1>3, <2>2 DEF Tracked
<1>5. runs' \subseteq Tracked
  BY <1>4 DEF Reconcile, Typed
<1>6. rest \subseteq job[x].pending
  OBVIOUS
<1> HIDE DEF rest
<1>7. job' = [job EXCEPT ![x] = j]
  BY <1>1, <1>2 DEF Reconcile, CInv, IInv, Shapes, IsJob, rest
<1>8. JobOK(j, Tracked)
  BY <1>2, <1>6 DEF JobOK, IsJob
<1> HIDE DEF x, j
<1>9. JobOK(job'[x], Tracked) /\ \A y \in Actors : y # x => job'[y] = job[y]
  BY <1>1, <1>7, <1>8 DEF CInv, IInv, Shapes
<1> QED BY <1>1, <1>5, <1>9, ActorTyped DEF Typed

LEMMA ApiTyped ==
  ASSUME CInv, Typed, NEW p \in Procs,
         DeleteRuns(p) \/ \E a \in Autos : Pause(p, a) \/ Resume(p, a) \/ Delete(p, a)
  PROVE  Typed'
<1> DEFINE x == Api(p)
<1>1. x \in Actors /\ UNCHANGED <<tasks, up>>
  BY LoopActor DEF DeleteRuns, Pause, Resume, Delete, world
<1>2. runs' \subseteq Tracked
  BY DEF DeleteRuns, Pause, Resume, Delete, Typed
<1>3. file' \in [Autos -> AutoFiles]
  <2>1. NextAfter(now) \in 1..(MaxNow + 1)
    BY AutomationBounds DEF NextAfter, CInv, Scheduled
  <2>2. /\ Active(NextAfter(now)) \in AutoFiles /\ NoFile \in AutoFiles
        /\ [state |-> "paused", next |-> None] \in AutoFiles
    BY <2>1, ActiveFile DEF AutoFiles, NoFile, Slots
  <2> QED BY <2>2 DEF DeleteRuns, Pause, Resume, Delete, Typed
<1>4. \E j : JobOK(j, Tracked) /\ job' = [job EXCEPT ![x] = j]
  <2>1. ASSUME NEW a \in Autos PROVE JobOK([Idle EXCEPT !.pc = "runs", !.op = "delete", !.auto = a], Tracked)
    BY IdleTyped DEF JobOK, Idle
  <2>2. ASSUME NEW a \in Autos, Pause(p, a) \/ Resume(p, a)
        PROVE  JobOK(job[x], Tracked) /\ job' = [job EXCEPT ![x] = job[x]]
    BY <1>1, <2>2 DEF Pause, Resume, Typed, CInv, IInv, Shapes
  <2>3. ASSUME NEW a \in Autos, Delete(p, a)
        PROVE  job' = [job EXCEPT ![x] = [Idle EXCEPT !.pc = "runs", !.op = "delete", !.auto = a]]
    BY <2>3 DEF Delete
  <2>4. ASSUME DeleteRuns(p) PROVE job' = [job EXCEPT ![x] = Idle]
    BY <2>4 DEF DeleteRuns
  <2>5. CASE DeleteRuns(p)
    <3>1. JobOK(Idle, Tracked)
      BY IdleTyped
    <3> QED BY <2>4, <2>5, <3>1
  <2>6. ASSUME NEW a \in Autos, Pause(p, a) \/ Resume(p, a)
        PROVE  \E j : JobOK(j, Tracked) /\ job' = [job EXCEPT ![x] = j]
    BY <2>2, <2>6
  <2>7. ASSUME NEW a \in Autos, Delete(p, a)
        PROVE  \E j : JobOK(j, Tracked) /\ job' = [job EXCEPT ![x] = j]
    BY <2>1, <2>3, <2>7
  <2> QED BY <2>5, <2>6, <2>7
<1> HIDE DEF x
<1>5. JobOK(job'[x], Tracked) /\ \A y \in Actors : y # x => job'[y] = job[y]
  BY <1>1, <1>4 DEF CInv, IInv, Shapes
<1>6. up' \subseteq Procs
  BY <1>1 DEF Typed
<1> QED BY <1>1, <1>2, <1>3, <1>5, <1>6, ActorTyped

(* The task manager, time, and the process itself. *)
LEMMA WorldTyped ==
  ASSUME Typed, UNCHANGED <<file, runs>>, up' \subseteq Procs,
         \A x \in Actors : job'[x] \in {job[x], Idle},
         task' \in [Ids -> Statuses \cup {"none"}], owner' \in [Ids -> Procs \cup {None}],
         \A i \in Ids : task[i] # "none" => task'[i] # "none"
  PROVE  Typed'
<1>1. Tracked \subseteq Tracked'
  BY TrackedGrows
<1>2. ASSUME NEW x \in Actors PROVE JobOK(job'[x], Tracked')
  <2>1. JobOK(job[x], Tracked')
    BY <1>1 DEF Typed, JobOK
  <2>2. JobOK(Idle, Tracked')
    BY IdleTyped
  <2> QED BY <2>1, <2>2
<1>3. \A x \in Actors : JobOK(job[x], Tracked)'
  BY <1>2 DEF JobOK
<1> QED BY <1>1, <1>3 DEF Typed

LEMMA TypedStep ==
  ASSUME OneProcess, CInv, CInv', Typed, [Next]_vars
  PROVE  Typed'
<1>1. ASSUME NEW p \in Procs, JobStep(p) PROVE Typed'
  <2>1. ASSUME NEW d \in job[Loop(p)].due, TickKnows(p, d) \/ TickRuns(p, d) PROVE Typed'
    BY <2>1, TickKnowsTyped, RunsTyped
  <2>2. ASSUME NEW x \in Actors, SaveRun(x) \/ SaveAutomation(x) PROVE Typed'
    BY <2>2, SavesTyped
  <2> QED BY <1>1, <2>1, <2>2, LoopTyped, MirrorTyped, ApiTyped DEF JobStep, LoopStep
<1>2. ASSUME NEW p \in Procs, TickBegin(p) \/ ReconcileFails(p) PROVE Typed'
  BY <1>2, LoopTyped
<1>3. ASSUME NEW p \in Procs, NEW a \in Autos, Pause(p, a) \/ Resume(p, a) \/ RunNow(p, a) \/ Delete(p, a)
      PROVE  Typed'
  BY <1>3, ApiTyped, RunsTyped
<1>4. ASSUME NEW x \in Actors, WriteFails(x) PROVE Typed'
  BY <1>4, SavesTyped
<1>5. ASSUME NEW p \in Procs, Crash(p) PROVE Typed'
  <2>1. /\ UNCHANGED <<file, runs, task, owner>> /\ up' \subseteq up
        /\ \A x \in Actors : job'[x] \in {job[x], Idle}
    BY <1>5 DEF Crash, tasks
  <2> QED BY <2>1, WorldTyped DEF Typed
<1>6. ASSUME NEW p \in Procs, Boot(p) PROVE Typed'
  <2>1. /\ UNCHANGED <<file, runs, job>> /\ up' \subseteq Procs
        /\ task' \in [Ids -> Statuses \cup {"none"}] /\ owner' \in [Ids -> Procs \cup {None}]
        /\ \A i \in Ids : task[i] # "none" => task'[i] # "none"
    BY <1>6 DEF Boot, Typed, Statuses, Final
  <2> QED BY <2>1, WorldTyped
<1>7. ASSUME NEW i \in Ids, TaskMoves(i), Outcomes \subseteq Final PROVE Typed'
  <2>1. PICK s \in Statuses : task' = [task EXCEPT ![i] = s]
    BY <1>7 DEF TaskMoves, Statuses, Final
  <2>2. /\ UNCHANGED <<file, runs, job, owner, up>>
        /\ task' \in [Ids -> Statuses \cup {"none"}]
        /\ \A k \in Ids : task[k] # "none" => task'[k] # "none"
    BY <1>7, <2>1 DEF TaskMoves, world, Typed, Statuses, Final
  <2> QED BY <2>2, WorldTyped DEF Typed
<1>8. CASE SlotPasses \/ UNCHANGED vars
  <2>1. UNCHANGED <<file, runs, job, task, owner, up>>
    BY <1>8 DEF SlotPasses, vars, tasks
  <2> QED BY <2>1, WorldTyped DEF Typed
<1>9. Outcomes \subseteq Final
  BY AutomationBounds DEF Final
<1> QED BY <1>1, <1>2, <1>3, <1>4, <1>5, <1>6, <1>7, <1>8, <1>9 DEF Next

LEMMA TypedInit == Init => Typed
<1> SUFFICES ASSUME Init PROVE Typed
  OBVIOUS
<1>1. Active(1) \in AutoFiles
  BY AutomationBounds, ActiveFile
<1>2. \A x \in Actors : JobOK(job[x], Tracked)
  BY IdleTyped DEF Init
<1> QED BY <1>1, <1>2 DEF Init, Typed

LEMMA TypedCounted ==
  ASSUME OneProcess, Procs # {}, CInv, Typed
  PROVE  TypeOK
<1>1. Spent \in SUBSET (Autos \X (1..now))
  BY DEF Spent
<1> HIDE DEF Spent
<1>2. made \in 0..Cardinality(Ids)
  BY <1>1, EnoughIds DEF CInv, Counted, Scheduled
<1>3. now \in 0..MaxNow /\ byHand \in 0..MaxByHand /\ faults \in 0..MaxFaults
  BY DEF CInv, Counted, Scheduled
<1>4. Tracked \subseteq RunRecords
  BY DEF Tracked
<1>5. ASSUME NEW x \in Actors
      PROVE  /\ job[x].pc \in {"idle", "visit", "run", "auto", "runs", "reconcile"}
             /\ job[x].op \in {"none", "tick", "run_now", "delete"}
             /\ job[x].auto \in Autos \cup {None} /\ job[x].rec \in AutoFiles
             /\ job[x].run \in RunRecords \cup {NoRun}
             /\ job[x].due \subseteq Autos \X Slots /\ job[x].pending \subseteq RunRecords
  BY <1>4 DEF Typed, JobOK
<1> QED BY <1>2, <1>3, <1>4, <1>5 DEF Typed, TypeOK

(* Never more runs than were asked for by hand, than slots came due, and   *)
(* than faults cut one off from its slot.                                  *)
RunsAreDue == made <= byHand + faults + Cardinality(Autos) * now

LEMMA CountedDue == CInv => RunsAreDue
<1> SUFFICES ASSUME CInv PROVE RunsAreDue
  OBVIOUS
<1>1. now \in Nat /\ byHand \in Nat /\ faults \in Nat
  BY AutomationBounds DEF CInv, Scheduled, Counted
<1>2. IsFiniteSet(1..now) /\ Cardinality(1..now) = now
  BY <1>1, FS_Interval
<1>3. IsFiniteSet(Autos \X (1..now)) /\ Cardinality(Autos \X (1..now)) = Cardinality(Autos) * now
  BY <1>2, AutosAssumption, FS_Product
<1>4. Spent \subseteq Autos \X (1..now)
  BY DEF Spent
<1>5. IsFiniteSet(Spent) /\ Cardinality(Spent) <= Cardinality(Autos \X (1..now))
  BY <1>3, <1>4, FS_Subset
<1> DEFINE most == Cardinality(Autos) * now
<1>6. Cardinality(Spent) \in Nat /\ Cardinality(Autos) \in Nat /\ most \in Nat
  BY <1>1, <1>5, AutosAssumption, FS_CardinalityType
<1>7. Cardinality(Spent) <= most
  BY <1>3, <1>5
<1> HIDE DEF most
<1>8. made <= byHand + faults + most
  BY <1>1, <1>6, <1>7 DEF CInv, Counted
<1> QED BY <1>8 DEF RunsAreDue, most

-----------------------------------------------------------------------------

(* A pause or a deletion is not undone by a save of what was read before   *)
(* it: the handlers and the tick hold the mutex from the read to the save  *)
(* (automation_manager.rs 466-571, 683-743), whatever write fails and      *)
(* whenever the process dies, as long as it is the only one.               *)
THEOREM PausesCorrect ==
  ASSUME OneProcess
  PROVE  Spec => PauseAndDeleteStick
<1> QED BY InitInv, StepKeeps, StepsStick, PTL DEF Spec, PauseAndDeleteStick

(* next_run_at leaves a slot for the one after it, and only once a run of  *)
(* the slot is on disk (scheduler_tick, automation_manager.rs 703-739), or *)
(* an operator resumes the automation.                                     *)
THEOREM SlotsCorrect ==
  ASSUME OneProcess
  PROVE  Spec => NoSlotSkipped
<1> QED BY InitInv, StepKeeps, StepsSkipNone, PTL DEF Spec, NoSlotSkipped

(* A slot has one run unless Limit others of its automation were made in   *)
(* between, whatever write failed and wherever the process died between    *)
(* the task, the run and the schedule (scheduler_tick,                     *)
(* automation_manager.rs 703-739).                                         *)
THEOREM OneRunCorrect ==
  ASSUME OneProcess
  PROVE  Spec => []SlotHasOneRun
<1> QED BY RunsInit, RunsStep, PTL DEF Spec, RInv

(* Never more runs than slots came due, than were asked for by hand, and   *)
(* than faults cut one off from its slot: no slot is run again but after a *)
(* fault, and no pause or resumption makes one come due twice              *)
(* (scheduler_tick, automation_manager.rs 683-743; run_now, 643-681).      *)
THEOREM RunsCorrect ==
  ASSUME OneProcess
  PROVE  Spec => []RunsAreDue
<1> QED BY CountInit, CountStep, CountedDue, PTL DEF Spec

(* Every reachable state is well typed; that the numbers of the runs       *)
(* suffice is the count above.                                             *)
THEOREM TypeCorrect ==
  ASSUME OneProcess, Procs # {}
  PROVE  Spec => []TypeOK
<1>1. Init => CInv /\ Typed
  BY CountInit, TypedInit
<1>2. CInv /\ Typed /\ [Next]_vars => (CInv /\ Typed)'
  BY CountStep, TypedStep
<1>3. CInv /\ Typed => TypeOK
  BY TypedCounted
<1> QED BY <1>1, <1>2, <1>3, PTL DEF Spec
=============================================================================

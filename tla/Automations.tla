---------------------------- MODULE Automations ----------------------------
(***************************************************************************)
(* Scheduled automations: a file per automation, a directory of run files  *)
(* for each, and in every process that serves them a loop (one tick, one   *)
(* reconciliation) and API handlers, which exclude each other by a mutex   *)
(* they hold from beginning to end.  What the mutex does not exclude stays:*)
(* a failed write or the death of the process between two files, tasks     *)
(* that move on, and the loop of another process on the same directory.    *)
(*                                                                         *)
(* Time is counted in slots of the schedule; every automation is hourly.   *)
(* A run and its task share a number; runs are ordered by it, as by        *)
(* created_at.                                                             *)
(***************************************************************************)
EXTENDS Naturals, FiniteSets

CONSTANTS
  Autos,       \* the automations
  Procs,       \* processes with the same automations directory
  Limit,       \* how many of the latest runs the tick looks at: 25
  RecLimit,    \* how many of the latest runs the reconciliation looks at: 100
  MaxNow,      \* bound: slots that become due
  MaxByHand,   \* bound: runs asked for by hand
  MaxFaults,   \* bound: failed writes and deaths of a process
  Outcomes,    \* bound: the statuses tasks end with
  None

ASSUME AutosAssumption == None \notin Autos /\ IsFiniteSet(Autos)
ASSUME LimitsAssumption == Limit \in Nat /\ RecLimit \in Nat
ASSUME AutomationBounds == {MaxNow, MaxByHand, MaxFaults} \subseteq Nat
                            /\ Outcomes \subseteq {"completed", "failed", "canceled"}

VARIABLES
  now,
  file,     \* AutomationRecord: status and next_run_at; gone once deleted
  runs,     \* AutomationRunRecord files, those a failed deletion left included
  task,     \* TaskStatus of a run's task, none without one
  owner,    \* the process whose task manager has the task
  job,      \* what each actor is doing: the loop and the handlers of each process
  up,       \* the processes that are up
  made, byHand, faults

vars == <<now, file, runs, task, owner, job, up, made, byHand, faults>>

Actors     == Procs \X {"loop", "api"}
Proc(x)    == x[1]
Final      == {"completed", "failed", "canceled"}
Statuses   == Final \cup {"queued", "running"}

\* Each slot of an automation, each run by hand and each fault makes at most one run in
\* a process: as many numbers as the other bounds let it draw.
Ids        == 1..((MaxNow * Cardinality(Autos) + MaxFaults) * Cardinality(Procs) + MaxByHand)
Slots      == 1..(MaxNow + 1) \cup {None}
AutoFiles  == [state : {"active", "paused", "gone"}, next : Slots]
RunRecords == [id : Ids, auto : Autos, slot : Slots, status : Statuses, task : BOOLEAN]
NoRun      == [id |-> 1, auto |-> None, slot |-> None, status |-> "failed", task |-> FALSE]
NoFile     == [state |-> "gone", next |-> None]
Active(s)  == [state |-> "active", next |-> s]
Exists(a)  == file[a].state # "gone"

Idle == [pc |-> "idle", op |-> "none", auto |-> None, rec |-> NoFile, run |-> NoRun,
         due |-> {}, pending |-> {}]

(* The types of the state: automation_manager.rs 37-130. *)
TypeOK ==
  /\ now \in 0..MaxNow
  /\ file \in [Autos -> AutoFiles]
  /\ runs \subseteq RunRecords
  /\ task \in [Ids -> Statuses \cup {"none"}] /\ owner \in [Ids -> Procs \cup {None}]
  /\ \A x \in Actors :
       /\ job[x].pc \in {"idle", "visit", "run", "auto", "runs", "reconcile"}
       /\ job[x].op \in {"none", "tick", "run_now", "delete"}
       /\ job[x].auto \in Autos \cup {None} /\ job[x].rec \in AutoFiles
       /\ job[x].run \in RunRecords \cup {NoRun}
       /\ job[x].due \subseteq Autos \X Slots /\ job[x].pending \subseteq RunRecords
  /\ up \subseteq Procs
  /\ made \in 0..Cardinality(Ids) /\ byHand \in 0..MaxByHand /\ faults \in 0..MaxFaults

\* create_automation: every automation is active and due in the next slot.
Init ==
  /\ now = 0 /\ file = [a \in Autos |-> Active(1)]
  /\ runs = {} /\ task = [i \in Ids |-> "none"] /\ owner = [i \in Ids |-> None]
  /\ job = [x \in Actors |-> Idle] /\ up = Procs
  /\ made = 0 /\ byHand = 0 /\ faults = 0

tasks == <<task, owner>>
world == <<now, up, byHand, faults>>

---------------------------------------------------------------------------
(* What the handlers share. *)

(* Mutant: the mutex is given up while a handler waits for the task manager. *)
MayBegin_Unlocked(x) == Proc(x) \in up /\ job[x].pc = "idle"

\* The mutex of the actor's process is free.
MayBegin(x) ==
  Proc(x) \in up /\ \A y \in Actors : Proc(y) = Proc(x) => job[y].pc = "idle"

(* Mutant: the next slot is counted from now, not from the one that was due. *)
NextAfter_FromNow(slot) == IF slot < now THEN now + 1 ELSE slot + 1

\* AutomationSchedule::next_after of an hourly schedule.
NextAfter(slot) == slot + 1

RunsOf(a)    == {r \in runs : r.auto = a}
Newer(r)     == {s \in RunsOf(r.auto) : s.id > r.id}

\* list_runs with a limit.
Latest(a, n) == {r \in RunsOf(a) : Cardinality(Newer(r)) < n}

(* Mutant: a run that ended does not count. *)
RunExists_Open(a, slot) == \E r \in Latest(a, Limit) : r.slot = slot /\ r.status \notin Final

\* The tick's test for a run of the slot among the latest.
RunExists(a, slot) == \E r \in Latest(a, Limit) : r.slot = slot

\* enqueue_run_task of a new run: the task manager takes the task, or refuses it.
Enqueue(x, j, slot) ==
  LET run(s) == [id |-> made', auto |-> j.auto, slot |-> slot, status |-> s, task |-> s = "running"]
  IN /\ made' = made + 1
     /\ \/ /\ task' = [task EXCEPT ![made'] = "queued"]
           /\ owner' = [owner EXCEPT ![made'] = Proc(x)]
           /\ job' = [job EXCEPT ![x] = [j EXCEPT !.pc = "run", !.run = run("running")]]
           /\ UNCHANGED faults
        \/ /\ faults < MaxFaults /\ faults' = faults + 1
           /\ job' = [job EXCEPT ![x] = [j EXCEPT !.pc = "run", !.run = run("failed")]]
           /\ UNCHANGED tasks

\* The tick goes on with the next automation; a handler of the API is done.
Proceed(x) ==
  IF job[x].op = "tick"
  THEN [job EXCEPT ![x] = [Idle EXCEPT !.pc = "visit", !.op = "tick", !.due = job[x].due]]
  ELSE [job EXCEPT ![x] = Idle]

\* save_run
SaveRun(x) ==
  /\ job[x].pc = "run"
  /\ runs' = runs \cup {job[x].run} /\ job' = [job EXCEPT ![x].pc = "auto", ![x].run = NoRun]
  /\ UNCHANGED <<file, tasks, made, world>>

\* save_automation writes the record the handler read, with its changes.
SaveAutomation(x) ==
  /\ job[x].pc = "auto"
  /\ file' = [file EXCEPT ![job[x].auto] = job[x].rec]
  /\ job' = Proceed(x)
  /\ UNCHANGED <<runs, tasks, made, world>>

\* A write fails: a tick is over for the automations it has not come to.
WriteFails(x) ==
  /\ job[x].pc \in {"run", "auto", "runs"} /\ faults < MaxFaults /\ faults' = faults + 1
  /\ job' = [Proceed(x) EXCEPT ![x].due = {}]
  /\ UNCHANGED <<now, file, runs, tasks, up, made, byHand>>

---------------------------------------------------------------------------
(* The loop: scheduler_tick, then reconcile_run_statuses. *)

Loop(p) == <<p, "loop">>

\* The tick reads all automations; it has nothing to do for those that are paused or
\* whose next slot is still to come.
TickBegin(p) ==
  /\ MayBegin(Loop(p))
  /\ job' = [job EXCEPT ![Loop(p)] = [Idle EXCEPT !.pc = "visit", !.op = "tick", !.due =
       {<<a, file[a].next>> : a \in {b \in Autos : file[b].state = "active" /\ file[b].next <= now}}]]
  /\ UNCHANGED <<file, runs, tasks, made, world>>

\* The visit of an automation that is due, and what is to be saved of it afterwards.
Visits(x, d)  == job[x].pc = "visit" /\ d \in job[x].due
Visited(x, d) == [job[x] EXCEPT !.due = @ \ {d}, !.auto = d[1], !.rec = Active(NextAfter(d[2]))]

\* The slot has a run: only the schedule is behind.
TickKnows(p, d) ==
  /\ Visits(Loop(p), d) /\ RunExists(d[1], d[2])
  /\ job' = [job EXCEPT ![Loop(p)] = [Visited(Loop(p), d) EXCEPT !.pc = "auto"]]
  /\ UNCHANGED <<file, runs, tasks, made, world>>

TickRuns(p, d) ==
  /\ Visits(Loop(p), d) /\ ~RunExists(d[1], d[2])
  /\ Enqueue(Loop(p), Visited(Loop(p), d), d[2])
  /\ UNCHANGED <<now, file, runs, up, byHand>>

(* Mutant: a run that waits again in the queue is looked at no more. *)
Unsettled_Running(r) == r.task /\ r.status = "running"

\* The runs the reconciliation follows: not ended, and with a task.
Unsettled(r) == r.task /\ r.status \in {"queued", "running"}

\* The end of the tick, however it ended, and the first reads of the reconciliation.
ReconcileBegin(p) ==
  /\ job[Loop(p)].pc = "visit" /\ job[Loop(p)].due = {}
  /\ job' = [job EXCEPT ![Loop(p)] = [Idle EXCEPT !.pc = "reconcile", !.op = "tick", !.pending =
       UNION {{r \in Latest(a, RecLimit) : Unsettled(r)} : a \in {b \in Autos : Exists(b)}}]]
  /\ UNCHANGED <<file, runs, tasks, made, world>>

\* The run with the status of its task.
Mirrored(r) == [r EXCEPT !.status = task[r.id]]

\* A run takes its task's status, unless get_task does not know the task, which is
\* another process's; if the task ended, the automation is stamped, which ends the
\* reconciliation when it is deleted.
Reconcile(p, r) ==
  /\ job[Loop(p)].pc = "reconcile" /\ r \in job[Loop(p)].pending
  /\ runs' = IF owner[r.id] = p THEN (runs \ {r}) \cup {Mirrored(r)} ELSE runs
  /\ job' = [job EXCEPT ![Loop(p)].pending =
               IF owner[r.id] = p /\ task[r.id] \in Final /\ ~Exists(r.auto) THEN {} ELSE @ \ {r}]
  /\ UNCHANGED <<file, tasks, made, world>>

\* A failed write ends the reconciliation.
ReconcileFails(p) ==
  /\ job[Loop(p)].pc = "reconcile" /\ \E r \in job[Loop(p)].pending : owner[r.id] = p
  /\ faults < MaxFaults /\ faults' = faults + 1
  /\ job' = [job EXCEPT ![Loop(p)] = Idle]
  /\ UNCHANGED <<now, file, runs, tasks, up, made, byHand>>

ReconcileEnds(p) ==
  /\ job[Loop(p)].pc = "reconcile" /\ job[Loop(p)].pending = {}
  /\ job' = [job EXCEPT ![Loop(p)] = Idle]
  /\ UNCHANGED <<file, runs, tasks, made, world>>

---------------------------------------------------------------------------
(* The handlers of the API and of the automation tools. *)

Api(p) == <<p, "api">>

\* update_automation with a status, or with another schedule for an active automation.
Pause(p, a) ==
  /\ MayBegin(Api(p)) /\ Exists(a)
  /\ file' = [file EXCEPT ![a] = [state |-> "paused", next |-> None]]
  /\ UNCHANGED <<runs, tasks, job, made, world>>

Resume(p, a) ==
  /\ MayBegin(Api(p)) /\ Exists(a)
  /\ file' = [file EXCEPT ![a] = Active(NextAfter(now))]
  /\ UNCHANGED <<runs, tasks, job, made, world>>

\* run_now: a run that is of no slot; the automation is saved as it was read.
RunNow(p, a) ==
  /\ MayBegin(Api(p)) /\ Exists(a)
  /\ byHand < MaxByHand /\ byHand' = byHand + 1
  /\ Enqueue(Api(p), [Idle EXCEPT !.op = "run_now", !.auto = a, !.rec = file[a]], None)
  /\ UNCHANGED <<now, file, runs, up>>

\* delete_automation: first the file, then the directory of its runs.
Delete(p, a) ==
  /\ MayBegin(Api(p)) /\ Exists(a)
  /\ file' = [file EXCEPT ![a] = NoFile]
  /\ job' = [job EXCEPT ![Api(p)] = [Idle EXCEPT !.pc = "runs", !.op = "delete", !.auto = a]]
  /\ UNCHANGED <<runs, tasks, made, world>>

DeleteRuns(p) ==
  /\ job[Api(p)].pc = "runs"
  /\ runs' = runs \ RunsOf(job[Api(p)].auto) /\ job' = [job EXCEPT ![Api(p)] = Idle]
  /\ UNCHANGED <<file, tasks, made, world>>

---------------------------------------------------------------------------
(* The task manager, as TaskManager has it, time, and the processes. *)

TaskMoves(i) ==
  /\ owner[i] \in up
  /\ \/ task[i] = "queued" /\ \E s \in {"running"} \cup (Outcomes \cap {"canceled"}) : task' = [task EXCEPT ![i] = s]
     \/ task[i] = "running" /\ \E s \in Outcomes : task' = [task EXCEPT ![i] = s]
  /\ UNCHANGED <<file, runs, owner, job, made, world>>

SlotPasses ==
  /\ now < MaxNow /\ now' = now + 1
  /\ UNCHANGED <<file, runs, tasks, job, up, made, byHand, faults>>

Crash(p) ==
  /\ p \in up /\ faults < MaxFaults /\ faults' = faults + 1
  /\ up' = up \ {p}
  /\ job' = [x \in Actors |-> IF Proc(x) = p THEN Idle ELSE job[x]]
  /\ UNCHANGED <<now, file, runs, tasks, made, byHand>>

\* A process comes up, here when no other is up, and takes over the tasks on disk.
Boot(p) ==
  /\ up = {} /\ up' = {p}
  /\ task' = [i \in Ids |-> IF task[i] = "running" THEN "failed" ELSE task[i]]
  /\ owner' = [i \in Ids |-> IF owner[i] # None THEN p ELSE None]
  /\ UNCHANGED <<now, file, runs, job, made, byHand, faults>>

---------------------------------------------------------------------------
LoopStep(p) ==
  \/ ReconcileBegin(p) \/ ReconcileEnds(p)
  \/ \E d \in job[Loop(p)].due : TickKnows(p, d) \/ TickRuns(p, d)
  \/ \E r \in job[Loop(p)].pending : Reconcile(p, r)

JobStep(p) ==
  LoopStep(p) \/ DeleteRuns(p) \/ \E x \in Actors : Proc(x) = p /\ (SaveRun(x) \/ SaveAutomation(x))

Next ==
  \/ \E p \in Procs :
       \/ TickBegin(p) \/ JobStep(p) \/ ReconcileFails(p) \/ Crash(p) \/ Boot(p)
       \/ \E a \in Autos : Pause(p, a) \/ Resume(p, a) \/ RunNow(p, a) \/ Delete(p, a)
  \/ \E x \in Actors : WriteFails(x)
  \/ \E i \in Ids : TaskMoves(i)
  \/ SlotPasses

Spec == Init /\ [][Next]_vars

(* The loop ticks every 15 s and its mutex is handed out in order; what    *)
(* holds the mutex runs to its end; tasks end; the program is started again.*)
Fairness ==
  /\ \A p \in Procs : SF_vars(TickBegin(p)) /\ WF_vars(JobStep(p))
  /\ WF_vars(\E i \in Ids : TaskMoves(i)) /\ WF_vars(\E p \in Procs : Boot(p))

FairSpec == Spec /\ Fairness

---------------------------------------------------------------------------
(* A slot has one run, unless so many runs were made of its automation in  *)
(* between that the tick no longer saw the first (scheduler_tick, 703-712):*)
(* whatever write fails and wherever the process dies.                     *)
SlotHasOneRun ==
  \A r, s \in runs :
    r.auto = s.auto /\ r.slot = s.slot /\ r.slot # None /\ r.id < s.id =>
      Cardinality({q \in RunsOf(r.auto) : r.id < q.id /\ q.id < s.id}) >= Limit

(* No slot is passed over: next_run_at leaves a slot only once a run of it  *)
(* is saved, and to the slot after it, however long the loop was late or   *)
(* down, unless an operator resumes or reschedules the automation          *)
(* (scheduler_tick, 734-739).                                              *)
NoSlotSkipped ==
  [][\A a \in Autos :
       file[a].state = "active" /\ file'[a].state = "active" /\ file'[a] # file[a] =>
         \/ \E p \in Procs : Resume(p, a)
         \/ file'[a].next = file[a].next + 1 /\ \E r \in RunsOf(a) : r.slot = file[a].next]_vars

(* Nothing but a resumption makes a paused automation active, and nothing  *)
(* brings a deleted one back: whoever saves a record has read it under the *)
(* mutex that a pause or a deletion needs (683-743, 466-571).              *)
PauseAndDeleteStick ==
  [][\A a \in Autos :
       /\ file[a].state = "gone" => file'[a].state = "gone"
       /\ file[a].state = "paused" /\ file'[a].state = "active" =>
            \E p \in Procs : Resume(p, a)]_vars

(* Every saved run ends as its task did, unless its automation is deleted  *)
(* or the reconciliation no longer looks at runs so old (747-826): when no *)
(* more runs are made, none is left behind.                                *)
Settled(r) ==
  \/ r.status = task[r.id] /\ r.status \in Final
  \/ Cardinality(Newer(r)) >= RecLimit
  \/ ~Exists(r.auto)
RunsSettle == []<>(\A r \in runs : r.task => Settled(r))
=============================================================================

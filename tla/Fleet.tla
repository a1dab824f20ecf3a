------------------------------- MODULE Fleet -------------------------------
(***************************************************************************)
(* One fleet run: an append-only ledger file that several processes fold   *)
(* and append to, the loop of `fleet run` that leases tasks to workers and *)
(* watches their subprocesses, and the operator's commands (interrupt,     *)
(* restart, stop, resume), each a process of its own.                      *)
(*                                                                         *)
(* An append is atomic; a decision is taken on a fold of the file and its  *)
(* records are appended afterwards.  The variables of the ledger are what  *)
(* a fold of the file returns; whoever appends keeps the records it still  *)
(* has to write in a plan, so that others can append between two of them.  *)
(* Orders the ledger's keys decide (which task first) are left open.       *)
(***************************************************************************)
EXTENDS Naturals, Sequences, FiniteSets

CONSTANTS
  Tasks,        \* the tasks of the run
  Scored,       \* those with a scorer
  Workers,      \* the worker ids of the run, as many as it may use
  Commands,     \* the operator's commands, each issued once
  Ops,          \* which operations they may be
  MaxAttempts,  \* retry_policy.max_attempts of each task
  Polite,       \* one command at a time, resume only when the loop is gone
  MaxFaults,    \* bound: subprocesses that do not start, deaths of the loop or a command
  None

ASSUME TasksAssumption == None \notin Tasks /\ Scored \subseteq Tasks
ASSUME WorkersAssumption == None \notin Workers /\ IsFiniteSet(Workers)
ASSUME OpsAssumption == Ops \subseteq {"interrupt", "restart", "stop", "resume"}
ASSUME FleetBounds == /\ MaxAttempts \in [Tasks -> Nat] /\ Polite \in BOOLEAN
                      /\ MaxFaults \in Nat

VARIABLES
  status, worker, attempts,  \* FleetTaskState: status, leased_to, entry.attempts
  beat,                      \* the latest heartbeat of a worker: none, fresh or old
  receipt,                   \* the result in the latest receipt of a task
  alerts,                    \* alert records of a task
  loop,                      \* the loop: where it is, what it still has to append or visit
  proc,                      \* FleetExecutor.streams: the subprocess a worker id stands for
  cmd,                       \* each command: where it is, what it still has to append
  faults,
  starts,                    \* history: subprocesses started for a task
  restarts,                  \* history: restarts the operator asked for
  outcomeOf                  \* history: whose exits were taken for the outcome of a task

ledger  == <<status, worker, attempts, beat, receipt, alerts>>
history == <<starts, restarts, outcomeOf>>
vars    == <<ledger, loop, proc, cmd, faults, history>>

Ended   == {"Completed", "Failed", "Cancelled"}
Results == {"pass", "partial", "fail"}
NoProc  == [task |-> None, state |-> "none"]

Open(t)        == status[t] \in {"Enqueued", "Leased"}
Active(t, w)   == status[t] = "Leased" /\ worker[t] = w
Busy(w)        == \E t \in Tasks : Active(t, w)
Tracked(w)     == proc[w] # NoProc

\* The records of the ledger that change what a fold returns of a task.
Leased(t, w)    == [kind |-> "leased", task |-> t, worker |-> w, value |-> "Leased"]
End(t, w, s)    == [kind |-> "ended", task |-> t, worker |-> w, value |-> s]
Beat(w)         == [kind |-> "beat", task |-> None, worker |-> w, value |-> "fresh"]
Receipt(t, r)   == [kind |-> "receipt", task |-> t, worker |-> None, value |-> r]
Alert(t)        == [kind |-> "alert", task |-> t, worker |-> None, value |-> "sent"]

Records ==
  {Leased(t, w) : t \in Tasks, w \in Workers}
    \cup {End(t, w, s) : t \in Tasks, w \in Workers \cup {None}, s \in Ended}
    \cup {Beat(w) : w \in Workers}
    \cup {Receipt(t, r) : t \in Tasks, r \in Results}
    \cup {Alert(t) : t \in Tasks}

(* The types of the state: ledger.rs 56-113, executor.rs 187-200. *)
LedgerTypeOK ==
  /\ status \in [Tasks -> Ended \cup {"Enqueued", "Leased"}]
  /\ worker \in [Tasks -> Workers \cup {None}]
  /\ attempts \in [Tasks -> Nat] /\ alerts \in [Tasks -> Nat]
  /\ beat \in [Workers -> {"none", "fresh", "old"}]
  /\ receipt \in [Tasks -> Results \cup {"none"}]

LoopTypeOK ==
  /\ loop \in [pc : {"beats", "pick", "spawn", "start", "poll", "done", "crashed"},
               plan : Seq(Records), todo : SUBSET (Tasks \cup Workers)]
  /\ proc \in [Workers -> [task : Tasks \cup {None}, state : {"none", "running", "ok", "bad"}]]

CmdTypeOK ==
  cmd \in [Commands -> [issued : BOOLEAN, plan : Seq(Records), todo : SUBSET Seq(Records)]]

HistoryTypeOK ==
  /\ faults \in 0..MaxFaults
  /\ starts \in [Tasks -> Nat] /\ restarts \in Nat
  /\ outcomeOf \in [Tasks -> SUBSET (Tasks \cup {None})]

TypeOK == LedgerTypeOK /\ LoopTypeOK /\ CmdTypeOK /\ HistoryTypeOK

\* create_run: the run and its tasks are in the ledger, schedule_run comes next.
Init ==
  /\ status = [t \in Tasks |-> "Enqueued"] /\ worker = [t \in Tasks |-> None]
  /\ attempts = [t \in Tasks |-> 0] /\ alerts = [t \in Tasks |-> 0]
  /\ beat = [w \in Workers |-> "none"] /\ receipt = [t \in Tasks |-> "none"]
  /\ loop = [pc |-> "beats", plan |-> <<>>, todo |-> {}]
  /\ proc = [w \in Workers |-> NoProc]
  /\ cmd = [c \in Commands |-> [issued |-> FALSE, plan |-> <<>>, todo |-> {}]]
  /\ faults = 0
  /\ starts = [t \in Tasks |-> 0] /\ restarts = 0 /\ outcomeOf = [t \in Tasks |-> {}]

---------------------------------------------------------------------------
(* The ledger. *)

(* Mutant: an end that names no worker takes the task from the one it has. *)
Record_TakesEmpty(r) ==
  /\ status' = IF r.kind \in {"leased", "ended"}
                 THEN [status EXCEPT ![r.task] = r.value] ELSE status
  /\ worker' = IF r.kind \in {"leased", "ended"}
                 THEN [worker EXCEPT ![r.task] = r.worker] ELSE worker
  /\ attempts' = IF r.kind = "leased" THEN [attempts EXCEPT ![r.task] = @ + 1] ELSE attempts
  /\ beat' = IF r.kind = "beat" THEN [beat EXCEPT ![r.worker] = "fresh"] ELSE beat
  /\ receipt' = IF r.kind = "receipt" THEN [receipt EXCEPT ![r.task] = r.value] ELSE receipt
  /\ alerts' = IF r.kind = "alert" THEN [alerts EXCEPT ![r.task] = @ + 1] ELSE alerts

\* apply_record: a lease makes its task leased whatever it was, an end keeps the
\* worker if it names none.
Record(r) ==
  /\ status' = IF r.kind \in {"leased", "ended"}
                 THEN [status EXCEPT ![r.task] = r.value] ELSE status
  /\ worker' = IF r.kind \in {"leased", "ended"} /\ r.worker # None
                 THEN [worker EXCEPT ![r.task] = r.worker] ELSE worker
  /\ attempts' = IF r.kind = "leased" THEN [attempts EXCEPT ![r.task] = @ + 1] ELSE attempts
  /\ beat' = IF r.kind = "beat" THEN [beat EXCEPT ![r.worker] = "fresh"] ELSE beat
  /\ receipt' = IF r.kind = "receipt" THEN [receipt EXCEPT ![r.task] = r.value] ELSE receipt
  /\ alerts' = IF r.kind = "alert" THEN [alerts EXCEPT ![r.task] = @ + 1] ELSE alerts

\* The loop has returned, or its process is gone.
LoopGone == loop.pc \in {"done", "crashed"}

\* Time passes without a heartbeat of w.  Only resume looks: as long as it waits for
\* the loop to be gone, a heartbeat may as well age then.
Age(w) ==
  /\ beat[w] = "fresh" /\ (Polite => LoopGone)
  /\ beat' = [beat EXCEPT ![w] = "old"]
  /\ UNCHANGED <<status, worker, attempts, receipt, alerts, loop, proc, cmd, faults, history>>

\* task_is_stale of the scheduler.  A worker without a heartbeat leaves it to the
\* deadline of the lease: the loop sets none, one a resume set may have passed.
Stale(t) == worker[t] = None \/ beat[worker[t]] # "fresh"

---------------------------------------------------------------------------
(* The loop: run_to_completion. *)

\* The loop is at l and has written all it had decided to write.
At(l) == loop.pc = l /\ loop.plan = <<>>

\* A record the loop decided on is appended.
LoopAppend ==
  /\ loop.pc # "crashed" /\ loop.plan # <<>>
  /\ Record(Head(loop.plan)) /\ loop' = [loop EXCEPT !.plan = Tail(@)]
  /\ UNCHANGED <<proc, cmd, faults, history>>

\* schedule_run begins with a heartbeat for every worker that holds a lease.
BeatForBusy ==
  /\ At("beats")
  /\ beat' = [w \in Workers |-> IF Busy(w) THEN "fresh" ELSE beat[w]]
  /\ loop' = [loop EXCEPT !.pc = "pick"]
  /\ UNCHANGED <<status, worker, attempts, receipt, alerts, proc, cmd, faults, history>>

\* schedule_run: a free worker is given a queued task (start_worker_task).
Pick(w, t) ==
  /\ At("pick") /\ ~Busy(w) /\ status[t] = "Enqueued"
  /\ loop' = [loop EXCEPT !.plan = <<Leased(t, w), Beat(w)>>]
  /\ UNCHANGED <<ledger, proc, cmd, faults, history>>

\* schedule_run: no free worker or nothing queued.
PickNone ==
  /\ At("pick")
  /\ (\A w \in Workers : Busy(w)) \/ (\A t \in Tasks : status[t] # "Enqueued")
  /\ loop' = [loop EXCEPT !.pc = "spawn"]
  /\ UNCHANGED <<ledger, proc, cmd, faults, history>>

\* start_leased_workers folds the ledger once, and then visits the leased tasks.
Spawn ==
  /\ At("spawn")
  /\ loop' = [loop EXCEPT !.pc = "start", !.todo = {t \in Tasks : status[t] = "Leased"}]
  /\ UNCHANGED <<ledger, proc, cmd, faults, history>>

(* Mutant: a failed verification leaves the task completed. *)
Outcome_Unmarked(t, w, exit, verdict) ==
  <<End(t, w, IF exit = "ok" THEN "Completed" ELSE "Failed"), Receipt(t, verdict)>>

\* record_task_outcome: the terminal event, the receipt, and the second end of a
\* task whose verification failed.
Outcome(t, w, exit, verdict) ==
  <<End(t, w, IF exit = "ok" THEN "Completed" ELSE "Failed"), Receipt(t, verdict)>>
    \o (IF t \in Scored /\ verdict = "fail" THEN <<End(t, w, "Failed")>> ELSE <<>>)

\* The scorer's verdict; without one an exit with 0 is a partial result.
Verdicts(t, exit) ==
  IF t \in Scored THEN Results ELSE IF exit = "ok" THEN {"partial"} ELSE {"fail"}

(* Mutant: a worker id that stands for a process is given a second one. *)
StartProc_Untracked(t) ==
  /\ At("start") /\ t \in loop.todo
  /\ proc' = [proc EXCEPT ![worker[t]] = [task |-> t, state |-> "running"]]
  /\ starts' = [starts EXCEPT ![t] = @ + 1]
  /\ loop' = [loop EXCEPT !.todo = @ \ {t}]
  /\ UNCHANGED <<ledger, cmd, faults, restarts, outcomeOf>>

\* start_leased_workers: a subprocess for a task that was leased when the ledger was
\* folded, unless its worker id stands for one already.
StartProc(t) ==
  /\ At("start") /\ t \in loop.todo /\ ~Tracked(worker[t])
  /\ proc' = [proc EXCEPT ![worker[t]] = [task |-> t, state |-> "running"]]
  /\ starts' = [starts EXCEPT ![t] = @ + 1]
  /\ loop' = [loop EXCEPT !.todo = @ \ {t}]
  /\ UNCHANGED <<ledger, cmd, faults, restarts, outcomeOf>>

StartSkips(t) ==
  /\ At("start") /\ t \in loop.todo /\ Tracked(worker[t])
  /\ loop' = [loop EXCEPT !.todo = @ \ {t}]
  /\ UNCHANGED <<ledger, proc, cmd, faults, history>>

\* The host refuses the subprocess: a failed outcome, if the task is still leased.
StartFails(t) ==
  /\ At("start") /\ t \in loop.todo /\ ~Tracked(worker[t]) /\ faults < MaxFaults
  /\ faults' = faults + 1
  /\ \E v \in Verdicts(t, "bad") :
       loop' = [loop EXCEPT !.todo = @ \ {t},
                            !.plan = IF status[t] = "Leased"
                                     THEN Outcome(t, worker[t], "bad", v) ELSE <<>>]
  /\ UNCHANGED <<ledger, proc, cmd, history>>

\* drive_executor_tick goes on with the worker ids that stand for a process.
StartDone ==
  /\ At("start") /\ loop.todo = {}
  /\ loop' = [loop EXCEPT !.pc = "poll", !.todo = {w \in Workers : Tracked(w)}]
  /\ UNCHANGED <<ledger, proc, cmd, faults, history>>

\* executor_task_context: the task w holds a lease of, else the latest it had.  The
\* stamps that order the latter have a resolution of a second.
Context(w) ==
  IF Busy(w) THEN {t \in Tasks : Active(t, w)} ELSE {t \in Tasks : worker[t] = w}

\* A running subprocess: what it printed is an event and a heartbeat of the task.
PollRunning(w) ==
  /\ At("poll") /\ w \in loop.todo /\ proc[w].state = "running"
  /\ loop' = [loop EXCEPT !.todo = @ \ {w}, !.plan = IF Context(w) # {} THEN <<Beat(w)>> ELSE <<>>]
  /\ UNCHANGED <<ledger, proc, cmd, faults, history>>

(* Mutant: a worker id whose exit was nobody's outcome is not forgotten, and polled
   no more, since an exit is reported once. *)
PollExited_Kept(w) ==
  /\ At("poll") /\ w \in loop.todo /\ proc[w].state \in {"ok", "bad"}
  /\ \E t \in Context(w) \cup {x \in {None} : Context(w) = {}} :
       IF t # None /\ status[t] = "Leased"
       THEN /\ \E v \in Verdicts(t, proc[w].state) :
                 loop' = [loop EXCEPT !.todo = @ \ {w},
                                      !.plan = Outcome(t, w, proc[w].state, v)]
            /\ outcomeOf' = [outcomeOf EXCEPT ![t] = @ \cup {proc[w].task}]
            /\ proc' = [proc EXCEPT ![w] = NoProc]
       ELSE /\ loop' = [loop EXCEPT !.todo = @ \ {w}] /\ UNCHANGED outcomeOf
            /\ proc' = [proc EXCEPT ![w].state = "none"]
  /\ UNCHANGED <<ledger, cmd, faults, starts, restarts>>

\* The subprocess ended: its exit is the outcome of the task the worker id stands for
\* in the ledger now, if that task is leased; the worker id is forgotten.
PollExited(w) ==
  /\ At("poll") /\ w \in loop.todo /\ proc[w].state \in {"ok", "bad"}
  /\ \E t \in Context(w) \cup {x \in {None} : Context(w) = {}} :
       IF t # None /\ status[t] = "Leased"
       THEN /\ \E v \in Verdicts(t, proc[w].state) :
                 loop' = [loop EXCEPT !.todo = @ \ {w},
                                      !.plan = Outcome(t, w, proc[w].state, v)]
            /\ outcomeOf' = [outcomeOf EXCEPT ![t] = @ \cup {proc[w].task}]
       ELSE loop' = [loop EXCEPT !.todo = @ \ {w}] /\ UNCHANGED outcomeOf
  /\ proc' = [proc EXCEPT ![w] = NoProc]
  /\ UNCHANGED <<ledger, cmd, faults, starts, restarts>>

\* run_has_open_work: another round, or the end.
TestOpen ==
  /\ At("poll") /\ loop.todo = {}
  /\ loop' = [loop EXCEPT !.pc = IF \E t \in Tasks : Open(t) THEN "beats" ELSE "done"]
  /\ UNCHANGED <<ledger, proc, cmd, faults, history>>

\* The subprocess of w ends.
Exit(w) ==
  /\ proc[w].state = "running"
  /\ \E e \in {"ok", "bad"} : proc' = [proc EXCEPT ![w].state = e]
  /\ UNCHANGED <<ledger, loop, cmd, faults, history>>

\* The loop's process dies, or an append fails and ends run_to_completion: nobody
\* watches the subprocesses any more, and no command starts another loop for the run.
LoopCrash ==
  /\ ~LoopGone /\ faults < MaxFaults
  /\ faults' = faults + 1
  /\ loop' = [loop EXCEPT !.pc = "crashed", !.todo = {}]
  /\ proc' = [w \in Workers |-> NoProc]
  /\ UNCHANGED <<ledger, cmd, history>>

---------------------------------------------------------------------------
(* The operator's commands: interrupt_worker, restart_worker, stop_all,    *)
(* resume_run.  Each folds the ledger, decides, then appends.  A plan is   *)
(* what it appends for one task; the plans are written in any order.       *)

Decides(c, plans) == cmd' = [cmd EXCEPT ![c] = [issued |-> TRUE, plan |-> <<>>, todo |-> plans]]

UnderWay(c) == cmd[c].plan # <<>> \/ cmd[c].todo # {}

MayIssue(c, op) ==
  /\ ~cmd[c].issued /\ op \in Ops
  /\ Polite => \A d \in Commands : ~UnderWay(d)

\* interrupt_worker: the task the worker holds is cancelled in the ledger; nothing
\* reaches its subprocess.
Interrupt(c, w) ==
  /\ MayIssue(c, "interrupt")
  /\ \E t \in Tasks : Active(t, w) /\ Decides(c, {<<End(t, w, "Cancelled")>>})
  /\ UNCHANGED <<ledger, loop, proc, faults, history>>

\* restart_worker: the task it holds, else the latest it had, is leased to it anew.
Restart(c, w) ==
  /\ MayIssue(c, "restart")
  /\ \E t \in Context(w) : Decides(c, {<<Leased(t, w), Beat(w)>>})
  /\ restarts' = restarts + 1
  /\ UNCHANGED <<ledger, loop, proc, faults, starts, outcomeOf>>

\* stop_all, stop_run: every open task is marked cancelled.
Stop(c) ==
  /\ MayIssue(c, "stop")
  /\ Decides(c, {<<End(t, worker[t], "Cancelled")>> : t \in {x \in Tasks : Open(x)}})
  /\ UNCHANGED <<ledger, loop, proc, faults, history>>

(* Mutant: one attempt more than the policy allows. *)
RetryOrFail_Late(t) ==
  IF attempts[t] <= MaxAttempts[t]
  THEN <<Leased(t, worker[t]), Beat(worker[t])>>
  ELSE <<End(t, worker[t], "Failed"), Alert(t)>>

\* retry_or_fail: another lease for the same worker, or failure and its alerts.
RetryOrFail(t) ==
  IF attempts[t] < MaxAttempts[t]
  THEN <<Leased(t, worker[t]), Beat(worker[t])>>
  ELSE <<End(t, worker[t], "Failed"), Alert(t)>>

(* Mutant: failed tasks are reconsidered, as tick_run does. *)
Reclaimed_Failed == {t \in Tasks : status[t] = "Failed" \/ (status[t] = "Leased" /\ Stale(t))}

\* reconcile_stale_leases: only leases whose worker stopped beating.
Reclaimed == {t \in Tasks : status[t] = "Leased" /\ Stale(t)}

Resume(c) ==
  /\ MayIssue(c, "resume")
  /\ Polite => LoopGone
  /\ Decides(c, {RetryOrFail(t) : t \in Reclaimed})
  /\ UNCHANGED <<ledger, loop, proc, faults, history>>

\* A command appends the first record of its next plan.
CmdBegins(c) ==
  /\ cmd[c].plan = <<>>
  /\ \E p \in cmd[c].todo :
       /\ Record(Head(p))
       /\ cmd' = [cmd EXCEPT ![c].plan = Tail(p), ![c].todo = @ \ {p}]
  /\ UNCHANGED <<loop, proc, faults, history>>

\* It appends another record of the plan it is in.
CmdAppend(c) ==
  /\ cmd[c].plan # <<>>
  /\ Record(Head(cmd[c].plan)) /\ cmd' = [cmd EXCEPT ![c].plan = Tail(@)]
  /\ UNCHANGED <<loop, proc, faults, history>>

\* The command's process dies, or an append fails and its `?` ends it.
CmdDies(c) ==
  /\ UnderWay(c) /\ faults < MaxFaults
  /\ faults' = faults + 1
  /\ cmd' = [cmd EXCEPT ![c].plan = <<>>, ![c].todo = {}]
  /\ UNCHANGED <<ledger, loop, proc, history>>

---------------------------------------------------------------------------
LoopStep ==
  \/ LoopAppend \/ BeatForBusy \/ PickNone \/ Spawn \/ StartDone \/ TestOpen
  \/ \E w \in Workers : PollRunning(w) \/ PollExited(w) \/ (\E t \in Tasks : Pick(w, t))
  \/ \E t \in Tasks : StartProc(t) \/ StartSkips(t) \/ StartFails(t)

CmdStep(c) ==
  \/ Stop(c) \/ Resume(c) \/ CmdBegins(c) \/ CmdAppend(c) \/ CmdDies(c)
  \/ \E w \in Workers : Interrupt(c, w) \/ Restart(c, w)

Next ==
  \/ LoopStep \/ LoopCrash
  \/ \E w \in Workers : Exit(w) \/ Age(w)
  \/ \E c \in Commands : CmdStep(c)

Spec == Init /\ [][Next]_vars

(* The loop sleeps and goes on; a subprocess has a bounded number of turns. *)
FairSpec == Spec /\ WF_vars(LoopStep) /\ \A w \in Workers : WF_vars(Exit(w))

---------------------------------------------------------------------------
(* A task stays with the worker it was first leased to, whatever lease or  *)
(* end is appended on a fold that is no longer true (ledger.rs 435-449,    *)
(* 488-515): the executor knows a subprocess by its worker id only.        *)
TasksStay == [][\A t \in Tasks : worker[t] # None => worker'[t] = worker[t]]_vars

(* A task that is completed in the ledger has a receipt that does not say  *)
(* it failed, or the loop is, or died, before writing what it still owed   *)
(* (record_task_outcome, manager.rs 866-960): events, receipts and the     *)
(* second end of a failed verification are separate records.               *)
Owed(t) == \E i \in DOMAIN loop.plan : loop.plan[i].task = t
CompletedIsReceipted ==
  \A t \in Tasks : status[t] = "Completed" => receipt[t] \in {"pass", "partial"} \/ Owed(t)

(* What a subprocess reports is the outcome of the task it was started     *)
(* for: "The subprocess exit is the task-completion authority"             *)
(* (manager.rs 411-414).                                                   *)
OwnExit == \A t \in Tasks : outcomeOf[t] \subseteq {t}

(* A subprocess is started for a task once, and once more for each restart *)
(* the operator asked for (start_leased_workers, manager.rs 765-839), as   *)
(* long as exits are their own task's, and commands are issued one at a    *)
(* time and resume only without a loop.                                    *)
StartedOnce == Polite /\ OwnExit => \A t \in Tasks : starts[t] <= 1 + restarts

(* The leases of a task stay within its retry policy, but for the ones the *)
(* operator asked for (retry_or_fail, scheduler.rs 239-270).               *)
WithinBudget ==
  Polite => \A t \in Tasks :
    attempts[t] <= restarts + (IF MaxAttempts[t] = 0 THEN 1 ELSE MaxAttempts[t])

(* A task that failed for good is escalated once, however often the run is *)
(* resumed: "a terminally failed task is never failed or escalated twice"  *)
(* (resume_run, scheduler.rs 80-92), unless it was restarted since.        *)
EscalatedOnce == Polite => \A t \in Tasks : alerts[t] <= 1 + restarts

(* The loop comes to an end, whatever the operator does meanwhile, unless  *)
(* it dies: no worker id stays taken by a subprocess that ended, no leased *)
(* task is passed over for ever (run_to_completion, manager.rs 380-399).   *)
LoopEnds == <>LoopGone
=============================================================================

---------------------------- MODULE Fleet_proofs ----------------------------
(***************************************************************************)
(* Proofs about Fleet for any tasks, workers and commands, retry policies  *)
(* and number of faults.                                                   *)
(*                                                                         *)
(* The first half holds whether or not the commands come one at a time. It *)
(* rests on what the loop and the commands still have to append: every     *)
(* record in their hands names the worker its task has, and only the loop, *)
(* in an order of its own, writes ends that say completed and receipts.    *)
(*                                                                         *)
(* The second half is about commands that come one at a time (CInv), and   *)
(* about the subprocesses (Starts); the last part about an operator who    *)
(* only resumes, whose exits are then all their own task's (Alone).        *)
(***************************************************************************)
EXTENDS Fleet, SequenceTheorems, TLAPS

(* A task has a worker from its first lease on. *)
LeasedHasWorker == \A t \in Tasks : /\ status[t] = "Leased" => worker[t] \in Workers
                                    /\ status[t] = "Enqueued" => worker[t] = None

(* What a command may append: nothing that completes a task or moves it.   *)
Harmless ==
  {r \in Records :
     /\ r.kind # "receipt" /\ (r.kind = "ended" => r.value # "Completed")
     /\ r.kind \in {"leased", "ended"} /\ r.worker # None => worker[r.task] = r.worker}

CmdsHarmless ==
  \A c \in Commands : /\ cmd[c].plan \in Seq(Harmless)
                      /\ \A p \in cmd[c].todo : p \in Seq(Harmless) /\ p # <<>>

(* What the loop has in hand: a first lease, a heartbeat, or what is left  *)
(* of an outcome.                                                          *)
Leasing(t, w) == loop.plan = <<Leased(t, w), Beat(w)>> /\ worker[t] \in {None, w}
Ending(t, w)  ==
  /\ worker[t] = w
  /\ \/ loop.plan = <<End(t, w, "Failed")>>
     \/ \E v \in Results :
          \/ \E s \in {"Completed", "Failed"} :
               \/ loop.plan = <<End(t, w, s), Receipt(t, v)>> /\ (s = "Completed" => v # "fail")
               \/ loop.plan = <<End(t, w, s), Receipt(t, v), End(t, w, "Failed")>>
          \/ loop.plan = <<Receipt(t, v)>> /\ (v = "fail" => status[t] # "Completed")
          \/ loop.plan = <<Receipt(t, v), End(t, w, "Failed")>>

LoopInOrder ==
  \/ loop.plan = <<>>
  \/ \E w \in Workers : \/ loop.plan = <<Beat(w)>>
                        \/ \E t \in Tasks : Leasing(t, w) \/ Ending(t, w)

IInv == TypeOK /\ LeasedHasWorker /\ CmdsHarmless /\ LoopInOrder /\ CompletedIsReceipted

-----------------------------------------------------------------------------
(* Records.                                                                *)

LEMMA RecordTypes ==
  /\ \A t \in Tasks, w \in Workers : Leased(t, w) \in Records
  /\ \A t \in Tasks, w \in Workers \cup {None}, s \in Ended : End(t, w, s) \in Records
  /\ \A w \in Workers : Beat(w) \in Records
  /\ \A t \in Tasks, r \in Results : Receipt(t, r) \in Records
  /\ \A t \in Tasks : Alert(t) \in Records
BY DEF Records

LEMMA RecordKinds ==
  ASSUME NEW r \in Records
  PROVE  /\ r.kind \in {"leased", "ended", "beat", "receipt", "alert"}
         /\ r.kind # "beat" => r.task \in Tasks
         /\ r.kind = "leased" => r.worker \in Workers /\ r.value = "Leased"
         /\ r.kind = "ended" => r.worker \in Workers \cup {None} /\ r.value \in Ended
         /\ r.kind = "beat" => r.worker \in Workers
         /\ r.kind = "receipt" => r.value \in Results
BY DEF Records, Leased, End, Beat, Receipt, Alert

LEMMA RecordKeeps ==
  ASSUME LedgerTypeOK, LeasedHasWorker, NEW r \in Records, Record(r)
  PROVE  LedgerTypeOK' /\ LeasedHasWorker'
<1>1. LedgerTypeOK'
  BY RecordKinds DEF LedgerTypeOK, Record
<1>2. LeasedHasWorker'
  BY RecordKinds DEF LedgerTypeOK, LeasedHasWorker, Record, Ended
<1> QED BY <1>1, <1>2

(* A record that keeps its task where it is keeps harmless what others     *)
(* have in hand.                                                           *)
Stays == \A t \in Tasks : worker[t] # None => worker'[t] = worker[t]

LEMMA HarmlessStays ==
  ASSUME Stays
  PROVE  Harmless \subseteq Harmless'
<1> SUFFICES ASSUME NEW r \in Harmless PROVE r \in Harmless'
  OBVIOUS
<1> QED BY RecordKinds DEF Harmless, Stays

LEMMA SeqGrows ==
  ASSUME NEW S, NEW T, S \subseteq T, NEW s \in Seq(S)
  PROVE  s \in Seq(T)
OBVIOUS

LEMMA CmdsStand ==
  ASSUME CmdsHarmless, Stays, cmd' = cmd
  PROVE  CmdsHarmless'
<1> SUFFICES ASSUME NEW c \in Commands
             PROVE  /\ cmd[c].plan \in Seq(Harmless')
                    /\ \A p \in cmd[c].todo : p \in Seq(Harmless') /\ p # <<>>
  BY DEF CmdsHarmless
<1> QED BY HarmlessStays, SeqGrows DEF CmdsHarmless

-----------------------------------------------------------------------------
(* A harmless record leaves the loop's plan in order.                      *)

LEMMA HarmlessKeeps ==
  ASSUME IInv, NEW r \in Harmless, Record(r), loop' = loop
  PROVE  /\ LedgerTypeOK' /\ LeasedHasWorker' /\ LoopInOrder' /\ CompletedIsReceipted'
         /\ Stays
<1> USE DEF IInv, TypeOK
<1>1. r \in Records
  BY DEF Harmless
<1>2. LedgerTypeOK' /\ LeasedHasWorker'
  BY <1>1, RecordKeeps
<1>3. Stays
  BY <1>1, RecordKinds DEF Stays, Harmless, Record, LedgerTypeOK
<1>4. \A t \in Tasks : /\ worker[t] = None => worker'[t] = None
                       /\ status'[t] = "Completed" => status[t] = "Completed"
                       /\ receipt'[t] = receipt[t]
  BY <1>1, RecordKinds DEF Harmless, Record, LedgerTypeOK
<1>5. LoopInOrder'
  <2>1. ASSUME NEW w \in Workers, NEW t \in Tasks, Leasing(t, w) PROVE Leasing(t, w)'
    BY <1>3, <1>4, <2>1 DEF Leasing, Stays
  <2>2. ASSUME NEW w \in Workers, NEW t \in Tasks, Ending(t, w) PROVE Ending(t, w)'
    <3>1. worker'[t] = w
      BY <1>3, <2>2, WorkersAssumption DEF Ending, Stays
    <3> QED BY <1>4, <2>2, <3>1 DEF Ending
  <2> QED BY <2>1, <2>2 DEF LoopInOrder
<1>6. CompletedIsReceipted'
  BY <1>4 DEF CompletedIsReceipted, Owed
<1> QED BY <1>2, <1>3, <1>5, <1>6

-----------------------------------------------------------------------------
(* The loop appends.                                                       *)

LEMMA AppendTypes ==
  ASSUME IInv, LoopAppend
  PROVE  /\ Head(loop.plan) \in Records /\ Record(Head(loop.plan))
         /\ LedgerTypeOK' /\ LoopTypeOK' /\ CmdTypeOK' /\ HistoryTypeOK' /\ LeasedHasWorker'
         /\ loop'.plan = Tail(loop.plan) /\ cmd' = cmd
<1> USE DEF IInv, TypeOK, LoopAppend
<1>1. Head(loop.plan) \in Records /\ Tail(loop.plan) \in Seq(Records)
  BY DEF LoopTypeOK
<1>2. LedgerTypeOK' /\ LeasedHasWorker'
  BY <1>1, RecordKeeps
<1>3. LoopTypeOK' /\ loop'.plan = Tail(loop.plan)
  BY <1>1 DEF LoopTypeOK
<1>4. CmdTypeOK' /\ HistoryTypeOK'
  BY DEF CmdTypeOK, HistoryTypeOK, history
<1> QED BY <1>1, <1>2, <1>3, <1>4

(* The first lease of a task, or another one of its own worker's. *)
LEMMA AppendLease ==
  ASSUME IInv, LoopAppend, NEW t \in Tasks, NEW w \in Workers, Leasing(t, w)
  PROVE  LoopInOrder' /\ CompletedIsReceipted' /\ Stays
<1> USE DEF IInv, TypeOK
<1>1. Head(loop.plan) = Leased(t, w) /\ loop'.plan = <<Beat(w)>>
  BY AppendTypes DEF Leasing
<1>2. Record(Leased(t, w))
  BY <1>1, AppendTypes
<1>3. Stays
  BY <1>2 DEF Leasing, Stays, Record, Leased, LedgerTypeOK
<1>4. CompletedIsReceipted'
  <2>1. \A u \in Tasks : Owed(u) => u = t
    BY TasksAssumption DEF Owed, Leasing, Leased, Beat
  <2> QED BY <1>1, <1>2, TasksAssumption
      DEF CompletedIsReceipted, Owed, Leasing, Record, Leased, Beat, LedgerTypeOK
<1> QED BY <1>1, <1>3, <1>4 DEF LoopInOrder

LEMMA AppendBeat ==
  ASSUME IInv, LoopAppend, NEW w \in Workers, loop.plan = <<Beat(w)>>
  PROVE  LoopInOrder' /\ CompletedIsReceipted' /\ Stays
<1> USE DEF IInv, TypeOK
<1>1. Head(loop.plan) = Beat(w) /\ loop'.plan = <<>>
  BY AppendTypes
<1>2. Record(Beat(w))
  BY <1>1, AppendTypes
<1>3. UNCHANGED <<status, worker, receipt>>
  BY <1>2 DEF Record, Beat
<1>4. \A u \in Tasks : ~Owed(u)
  BY TasksAssumption DEF Owed, Beat
<1>5. CompletedIsReceipted'
  BY <1>3, <1>4 DEF CompletedIsReceipted
<1> QED BY <1>1, <1>3, <1>5 DEF LoopInOrder, Stays

(* What is left of an outcome: the end, the receipt, the second end. *)
LEMMA AppendEnd ==
  ASSUME IInv, LoopAppend, NEW t \in Tasks, NEW w \in Workers, Ending(t, w)
  PROVE  LoopInOrder' /\ CompletedIsReceipted' /\ Stays
<1> USE DEF IInv, TypeOK
<1>1. \A u \in Tasks \ {t} : status[u] = "Completed" => receipt[u] \in {"pass", "partial"}
  <2>1. \A k \in DOMAIN loop.plan : loop.plan[k].task = t
    <3>1. CASE loop.plan = <<End(t, w, "Failed")>>
      BY <3>1 DEF End
    <3>2. ASSUME NEW v \in Results, NEW s \in {"Completed", "Failed"},
                 loop.plan = <<End(t, w, s), Receipt(t, v)>>
          PROVE  \A k \in DOMAIN loop.plan : loop.plan[k].task = t
      BY <3>2 DEF End, Receipt
    <3>3. ASSUME NEW v \in Results, NEW s \in {"Completed", "Failed"},
                 loop.plan = <<End(t, w, s), Receipt(t, v), End(t, w, "Failed")>>
          PROVE  \A k \in DOMAIN loop.plan : loop.plan[k].task = t
      BY <3>3 DEF End, Receipt
    <3>4. ASSUME NEW v \in Results, loop.plan = <<Receipt(t, v)>>
          PROVE  \A k \in DOMAIN loop.plan : loop.plan[k].task = t
      BY <3>4 DEF Receipt
    <3>5. ASSUME NEW v \in Results, loop.plan = <<Receipt(t, v), End(t, w, "Failed")>>
          PROVE  \A k \in DOMAIN loop.plan : loop.plan[k].task = t
      BY <3>5 DEF End, Receipt
    <3> QED BY <3>1, <3>2, <3>3, <3>4, <3>5 DEF Ending
  <2> QED BY <2>1 DEF CompletedIsReceipted, Owed
<1>2. worker[t] = w
  BY DEF Ending
<1>3. ASSUME NEW s \in Ended, Head(loop.plan) = End(t, w, s)
      PROVE  /\ Stays /\ worker' = worker /\ receipt' = receipt
             /\ status' = [status EXCEPT ![t] = s]
  <2>1. Record(End(t, w, s))
    BY <1>3, AppendTypes
  <2> QED BY <1>2, <2>1 DEF Stays, Record, End, LedgerTypeOK
<1>4. ASSUME NEW v \in Results, Head(loop.plan) = Receipt(t, v)
      PROVE  /\ Stays /\ worker' = worker /\ status' = status
             /\ receipt' = [receipt EXCEPT ![t] = v]
  <2>1. Record(Receipt(t, v))
    BY <1>4, AppendTypes
  <2> QED BY <2>1 DEF Stays, Record, Receipt
<1> DEFINE Fine == LoopInOrder' /\ CompletedIsReceipted' /\ Stays
<1>5. CASE loop.plan = <<End(t, w, "Failed")>>
  <2>1. Head(loop.plan) = End(t, w, "Failed") /\ loop'.plan = <<>>
    BY <1>5, AppendTypes
  <2>2. Stays /\ receipt' = receipt /\ status' = [status EXCEPT ![t] = "Failed"]
    BY <1>3, <2>1 DEF Ended
  <2> QED BY <1>1, <2>1, <2>2 DEF LoopInOrder, CompletedIsReceipted, LedgerTypeOK
<1>6. ASSUME NEW v \in Results, NEW s \in {"Completed", "Failed"},
             loop.plan = <<End(t, w, s), Receipt(t, v)>>, s = "Completed" => v # "fail"
      PROVE  Fine
  <2>1. Head(loop.plan) = End(t, w, s) /\ loop'.plan = <<Receipt(t, v)>>
    BY <1>6, AppendTypes
  <2>2. Stays /\ worker' = worker /\ receipt' = receipt /\ status' = [status EXCEPT ![t] = s]
    BY <1>3, <2>1 DEF Ended
  <2>3. Ending(t, w)'
    BY <1>2, <1>6, <2>1, <2>2 DEF Ending, LedgerTypeOK
  <2>4. Owed(t)'
    BY <2>1 DEF Owed, Receipt
  <2> QED BY <1>1, <2>2, <2>3, <2>4 DEF LoopInOrder, CompletedIsReceipted, LedgerTypeOK
<1>7. ASSUME NEW v \in Results, NEW s \in {"Completed", "Failed"},
             loop.plan = <<End(t, w, s), Receipt(t, v), End(t, w, "Failed")>>
      PROVE  Fine
  <2>1. Head(loop.plan) = End(t, w, s) /\ loop'.plan = <<Receipt(t, v), End(t, w, "Failed")>>
    BY <1>7, AppendTypes
  <2>2. Stays /\ worker' = worker /\ receipt' = receipt /\ status' = [status EXCEPT ![t] = s]
    BY <1>3, <2>1 DEF Ended
  <2>3. Ending(t, w)'
    BY <1>2, <2>1, <2>2 DEF Ending
  <2>4. Owed(t)'
    BY <2>1 DEF Owed, Receipt
  <2> QED BY <1>1, <2>2, <2>3, <2>4 DEF LoopInOrder, CompletedIsReceipted, LedgerTypeOK
<1>8. ASSUME NEW v \in Results, loop.plan = <<Receipt(t, v)>>, v = "fail" => status[t] # "Completed"
      PROVE  Fine
  <2>1. Head(loop.plan) = Receipt(t, v) /\ loop'.plan = <<>>
    BY <1>8, AppendTypes
  <2>2. Stays /\ status' = status /\ receipt' = [receipt EXCEPT ![t] = v]
    BY <1>4, <2>1
  <2> QED BY <1>1, <1>8, <2>1, <2>2 DEF LoopInOrder, CompletedIsReceipted, LedgerTypeOK, Results
<1>9. ASSUME NEW v \in Results, loop.plan = <<Receipt(t, v), End(t, w, "Failed")>>
      PROVE  Fine
  <2>1. Head(loop.plan) = Receipt(t, v) /\ loop'.plan = <<End(t, w, "Failed")>>
    BY <1>9, AppendTypes
  <2>2. Stays /\ worker' = worker /\ status' = status /\ receipt' = [receipt EXCEPT ![t] = v]
    BY <1>4, <2>1
  <2>3. Ending(t, w)'
    BY <1>2, <2>1, <2>2 DEF Ending
  <2>4. Owed(t)'
    BY <2>1 DEF Owed, End
  <2> QED BY <1>1, <2>2, <2>3, <2>4 DEF LoopInOrder, CompletedIsReceipted, LedgerTypeOK
<1> QED BY <1>5, <1>6, <1>7, <1>8, <1>9 DEF Ending

LEMMA AppendKeeps ==
  ASSUME IInv, LoopAppend
  PROVE  IInv' /\ Stays
<1>1. LoopInOrder' /\ CompletedIsReceipted' /\ Stays
  BY AppendLease, AppendBeat, AppendEnd DEF IInv, LoopInOrder, LoopAppend
<1>2. CmdsHarmless'
  BY <1>1, AppendTypes, CmdsStand DEF IInv
<1> QED BY <1>1, <1>2, AppendTypes DEF IInv, TypeOK

-----------------------------------------------------------------------------
(* The loop decides.                                                       *)

LEMMA NewPlan ==
  ASSUME IInv, loop.plan = <<>>, UNCHANGED <<ledger, cmd>>,
         LoopTypeOK', HistoryTypeOK', LoopInOrder'
  PROVE  IInv' /\ Stays
<1> USE DEF IInv, TypeOK
<1>1. Stays
  BY DEF Stays, ledger
<1>2. CompletedIsReceipted'
  BY DEF CompletedIsReceipted, Owed, ledger
<1>3. LedgerTypeOK' /\ LeasedHasWorker' /\ CmdTypeOK'
  BY DEF LedgerTypeOK, LeasedHasWorker, CmdTypeOK, ledger
<1>4. CmdsHarmless'
  BY <1>1, CmdsStand
<1> QED BY <1>1, <1>2, <1>3, <1>4

LEMMA SamePlan ==
  ASSUME IInv, loop'.plan = loop.plan, UNCHANGED <<status, worker, attempts, receipt, alerts, cmd>>,
         beat' \in [Workers -> {"none", "fresh", "old"}], LoopTypeOK', HistoryTypeOK'
  PROVE  IInv' /\ Stays
<1> USE DEF IInv, TypeOK
<1>1. Stays
  BY DEF Stays
<1>2. CompletedIsReceipted' /\ LoopInOrder'
  BY DEF CompletedIsReceipted, Owed, LoopInOrder, Leasing, Ending
<1>3. LedgerTypeOK' /\ LeasedHasWorker' /\ CmdTypeOK'
  BY DEF LedgerTypeOK, LeasedHasWorker, CmdTypeOK
<1>4. CmdsHarmless'
  BY <1>1, CmdsStand
<1> QED BY <1>1, <1>2, <1>3, <1>4

LEMMA PickKeeps ==
  ASSUME IInv, NEW w \in Workers, NEW t \in Tasks, Pick(w, t)
  PROVE  IInv' /\ Stays
<1> USE DEF IInv, TypeOK, Pick, At
<1>1. <<Leased(t, w), Beat(w)>> \in Seq(Records)
  BY RecordTypes
<1>2. LoopTypeOK' /\ HistoryTypeOK' /\ loop'.plan = <<Leased(t, w), Beat(w)>>
  BY <1>1 DEF LoopTypeOK, HistoryTypeOK, history
<1>3. Leasing(t, w)'
  BY <1>2 DEF Leasing, LeasedHasWorker, ledger
<1> QED BY <1>2, <1>3, NewPlan DEF LoopInOrder

(* The outcome of a task, from an exit or from a subprocess that did not   *)
(* start, with the verdict of its scorer.                                  *)
LEMMA Joined ==
  ASSUME NEW S, NEW a \in S, NEW b \in S, NEW c \in S
  PROVE  <<a, b>> \o <<c>> = <<a, b, c>>
<1> DEFINE s == <<a, b>>
           t == <<c>>
           u == <<a, b, c>>
<1>1. s \in Seq(S) /\ t \in Seq(S) /\ u \in Seq(S) /\ Len(s) = 2 /\ Len(t) = 1 /\ Len(u) = 3
  OBVIOUS
<1>2. s[1] = a /\ s[2] = b /\ t[1] = c /\ u[1] = a /\ u[2] = b /\ u[3] = c
  OBVIOUS
<1> HIDE DEF s, t, u
<1>3. /\ s \o t \in Seq(S) /\ Len(s \o t) = Len(s) + Len(t)
      /\ \A i \in 1..(Len(s) + Len(t)) : (s \o t)[i] = IF i <= Len(s) THEN s[i] ELSE t[i - Len(s)]
  BY <1>1, ConcatProperties
<1>4. Len(s \o t) = 3
  BY <1>1, <1>3
<1>5. (s \o t)[1] = a /\ (s \o t)[2] = b /\ (s \o t)[3] = c
  BY <1>1, <1>2, <1>3
<1>6. \A i \in 1..3 : (s \o t)[i] = u[i]
  <2>1. \A i \in 1..3 : i = 1 \/ i = 2 \/ i = 3
    OBVIOUS
  <2> QED BY <1>2, <1>5, <2>1
<1>7. s \o t = u
  BY <1>1, <1>3, <1>6, <1>4, SeqEqual
<1> QED BY <1>7 DEF s, t, u

LEMMA OutcomeOrder ==
  ASSUME NEW t \in Tasks, NEW w \in Workers, NEW e \in {"ok", "bad"}, NEW v \in Verdicts(t, e),
         worker'[t] = w, loop'.plan = Outcome(t, w, e, v)
  PROVE  Ending(t, w)' /\ loop'.plan \in Seq(Records)
<1> DEFINE s == IF e = "ok" THEN "Completed" ELSE "Failed"
<1>1. v \in Results /\ s \in {"Completed", "Failed"}
  BY DEF Verdicts, Results
<1>2. t \notin Scored /\ s = "Completed" => v # "fail"
  BY DEF Verdicts
<1>3. End(t, w, s) \in Records /\ Receipt(t, v) \in Records /\ End(t, w, "Failed") \in Records
  BY <1>1, RecordTypes DEF Ended
<1>4. CASE t \in Scored /\ v = "fail"
  <2>1. loop'.plan = <<End(t, w, s), Receipt(t, v)>> \o <<End(t, w, "Failed")>>
    BY <1>4 DEF Outcome
  <2> HIDE DEF s
  <2>2. loop'.plan = <<End(t, w, s), Receipt(t, v), End(t, w, "Failed")>>
    BY <1>3, <2>1, Joined
  <2> QED BY <1>1, <1>3, <2>2 DEF Ending
<1>5. CASE ~(t \in Scored /\ v = "fail")
  <2>1. loop'.plan = <<End(t, w, s), Receipt(t, v)>> \o <<>>
    BY <1>5 DEF Outcome
  <2>2. s = "Completed" => v # "fail"
    BY <1>2, <1>5
  <2> HIDE DEF s
  <2>3. loop'.plan = <<End(t, w, s), Receipt(t, v)>>
    BY <2>1
  <2> QED BY <1>1, <1>3, <2>2, <2>3 DEF Ending
<1> QED BY <1>4, <1>5

LEMMA StartFailsKeeps ==
  ASSUME IInv, NEW t \in Tasks, StartFails(t)
  PROVE  IInv' /\ Stays
<1> USE DEF IInv, TypeOK, StartFails, At
<1>1. HistoryTypeOK' /\ worker' = worker
  BY FleetBounds DEF HistoryTypeOK, history, ledger
<1>2. CASE status[t] = "Leased"
  <2>1. PICK v \in Verdicts(t, "bad") :
          loop' = [loop EXCEPT !.todo = @ \ {t}, !.plan = Outcome(t, worker[t], "bad", v)]
    BY <1>2
  <2>2. loop'.plan = Outcome(t, worker[t], "bad", v) /\ worker[t] \in Workers
    BY <1>2, <2>1 DEF LoopTypeOK, LeasedHasWorker
  <2>3. Ending(t, worker[t])' /\ loop'.plan \in Seq(Records)
    BY <1>1, <2>2, OutcomeOrder
  <2>4. LoopTypeOK'
    BY <2>1, <2>2, <2>3 DEF LoopTypeOK
  <2>5. LoopInOrder'
    BY <1>1, <2>2, <2>3 DEF LoopInOrder
  <2> QED BY <1>1, <2>4, <2>5, NewPlan
<1>3. CASE status[t] # "Leased"
  <2>1. loop' = [loop EXCEPT !.todo = @ \ {t}, !.plan = <<>>]
    BY <1>3
  <2>2. LoopTypeOK' /\ LoopInOrder'
    BY <2>1 DEF LoopTypeOK, LoopInOrder
  <2> QED BY <1>1, <2>2, NewPlan
<1> QED BY <1>2, <1>3

LEMMA PollKeeps ==
  ASSUME IInv, NEW w \in Workers, PollRunning(w) \/ PollExited(w)
  PROVE  IInv' /\ Stays
<1> USE DEF IInv, TypeOK, At
<1>1. CASE PollRunning(w)
  <2>1. <<Beat(w)>> \in Seq(Records)
    BY RecordTypes
  <2>2. loop'.plan \in {<<>>, <<Beat(w)>>}
    BY <1>1 DEF PollRunning, LoopTypeOK
  <2>3. LoopTypeOK' /\ HistoryTypeOK'
    BY <1>1, <2>1 DEF PollRunning, LoopTypeOK, HistoryTypeOK, history
  <2>4. LoopInOrder'
    BY <2>2 DEF LoopInOrder
  <2> QED BY <1>1, <2>3, <2>4, NewPlan DEF PollRunning
<1>2. CASE PollExited(w)
  <2> USE <1>2 DEF PollExited
  <2> DEFINE e == proc[w].state
  <2>1. e \in {"ok", "bad"} /\ proc[w].task \in Tasks \cup {None}
    BY DEF LoopTypeOK
  <2>2. proc' \in [Workers -> [task : Tasks \cup {None}, state : {"none", "running", "ok", "bad"}]]
    BY DEF LoopTypeOK, NoProc
  <2> DEFINE Reports(t, v) ==
               /\ t \in Context(w)
               /\ loop' = [loop EXCEPT !.todo = @ \ {w}, !.plan = Outcome(t, w, e, v)]
               /\ outcomeOf' = [outcomeOf EXCEPT ![t] = @ \cup {proc[w].task}]
  <2>3. CASE \E t \in Tasks : \E v \in Verdicts(t, e) : Reports(t, v)
    <3>1. PICK t \in Tasks : \E v \in Verdicts(t, e) : Reports(t, v)
      BY <2>3
    <3>0. PICK v \in Verdicts(t, e) : Reports(t, v)
      BY <3>1
    <3>2. worker[t] = w /\ worker' = worker
      BY <3>0 DEF Context, Active, ledger
    <3>3. loop'.plan = Outcome(t, w, e, v)
      BY <3>0 DEF LoopTypeOK
    <3>4. Ending(t, w)' /\ loop'.plan \in Seq(Records)
      BY <2>1, <3>2, <3>3, OutcomeOrder
    <3>5. LoopTypeOK'
      BY <2>2, <3>0, <3>3, <3>4 DEF LoopTypeOK
    <3>6. HistoryTypeOK'
      BY <2>1, <3>0 DEF HistoryTypeOK
    <3> QED BY <3>4, <3>5, <3>6, NewPlan DEF LoopInOrder
  <2>4. CASE loop' = [loop EXCEPT !.todo = @ \ {w}] /\ UNCHANGED outcomeOf
    <3>1. LoopTypeOK' /\ HistoryTypeOK' /\ loop'.plan = <<>>
      BY <2>2, <2>4 DEF LoopTypeOK, HistoryTypeOK
    <3> QED BY <3>1, NewPlan DEF LoopInOrder
  <2>5. \A t \in Context(w) : t \in Tasks
    BY DEF Context
  <2> QED BY <2>3, <2>4, <2>5
<1> QED BY <1>1, <1>2

(* The rest of the loop, its subprocesses and its death leave its plan. *)
LEMMA LoopGoesOn ==
  ASSUME IInv,
         \/ BeatForBusy \/ PickNone \/ Spawn \/ StartDone \/ TestOpen \/ LoopCrash
         \/ \E t \in Tasks : StartProc(t) \/ StartSkips(t)
         \/ \E w \in Workers : Exit(w) \/ Age(w)
  PROVE  IInv' /\ Stays
<1> USE DEF IInv, TypeOK
<1>1. ASSUME BeatForBusy \/ PickNone \/ Spawn \/ StartDone \/ TestOpen PROVE IInv' /\ Stays
  <2>1. beat' \in [Workers -> {"none", "fresh", "old"}]
    BY <1>1 DEF BeatForBusy, PickNone, Spawn, StartDone, TestOpen, LedgerTypeOK, ledger
  <2>2. LoopTypeOK' /\ loop'.plan = loop.plan
    <3>1. CASE BeatForBusy \/ PickNone \/ TestOpen
      BY <3>1 DEF BeatForBusy, PickNone, TestOpen, LoopTypeOK
    <3>2. CASE Spawn
      BY <3>2 DEF Spawn, LoopTypeOK
    <3>3. CASE StartDone
      BY <3>3 DEF StartDone, LoopTypeOK
    <3> QED BY <1>1, <3>1, <3>2, <3>3
  <2>3. HistoryTypeOK'
    BY <1>1 DEF BeatForBusy, PickNone, Spawn, StartDone, TestOpen, HistoryTypeOK, history
  <2> QED BY <1>1, <2>1, <2>2, <2>3, SamePlan DEF BeatForBusy, PickNone, Spawn, StartDone, TestOpen, ledger
<1>2. ASSUME LoopCrash PROVE IInv' /\ Stays
  <2>0. proc' \in [Workers -> [task : Tasks \cup {None}, state : {"none", "running", "ok", "bad"}]]
    BY <1>2 DEF LoopCrash, LoopTypeOK, NoProc
  <2>1. LoopTypeOK' /\ HistoryTypeOK' /\ loop'.plan = loop.plan
    <3>1. loop' \in [pc : {"crashed"}, plan : Seq(Records), todo : {{}}] /\ loop'.plan = loop.plan
      BY <1>2 DEF LoopCrash, LoopTypeOK
    <3>2. LoopTypeOK'
      BY <2>0, <3>1 DEF LoopTypeOK
    <3>3. HistoryTypeOK'
      BY <1>2, FleetBounds DEF LoopCrash, HistoryTypeOK, history
    <3> QED BY <3>1, <3>2, <3>3
  <2>2. beat' \in [Workers -> {"none", "fresh", "old"}]
    BY <1>2 DEF LoopCrash, LedgerTypeOK, ledger
  <2> QED BY <1>2, <2>1, <2>2, SamePlan DEF LoopCrash, ledger
<1>3. ASSUME NEW t \in Tasks, StartProc(t) \/ StartSkips(t) PROVE IInv' /\ Stays
  <2>0. proc' \in [Workers -> [task : Tasks \cup {None}, state : {"none", "running", "ok", "bad"}]]
    BY <1>3 DEF StartProc, StartSkips, LoopTypeOK
  <2>1. LoopTypeOK' /\ loop'.plan = loop.plan
    BY <1>3, <2>0 DEF StartProc, StartSkips, LoopTypeOK
  <2>3. HistoryTypeOK'
    BY <1>3 DEF StartProc, StartSkips, HistoryTypeOK, history
  <2>2. beat' \in [Workers -> {"none", "fresh", "old"}]
    BY <1>3 DEF StartProc, StartSkips, LedgerTypeOK, ledger
  <2> QED BY <1>3, <2>1, <2>2, <2>3, SamePlan DEF StartProc, StartSkips, ledger
<1>4. ASSUME NEW w \in Workers, Exit(w) PROVE IInv' /\ Stays
  <2>0. proc' \in [Workers -> [task : Tasks \cup {None}, state : {"none", "running", "ok", "bad"}]]
    BY <1>4 DEF Exit, LoopTypeOK
  <2>1. LoopTypeOK' /\ HistoryTypeOK' /\ loop'.plan = loop.plan
    BY <1>4, <2>0 DEF Exit, LoopTypeOK, HistoryTypeOK, history
  <2>2. beat' \in [Workers -> {"none", "fresh", "old"}]
    BY <1>4 DEF Exit, LedgerTypeOK, ledger
  <2> QED BY <1>4, <2>1, <2>2, SamePlan DEF Exit, ledger
<1>5. ASSUME NEW w \in Workers, Age(w) PROVE IInv' /\ Stays
  <2>1. LoopTypeOK' /\ HistoryTypeOK' /\ loop'.plan = loop.plan
    BY <1>5 DEF Age, LoopTypeOK, HistoryTypeOK, history
  <2> QED BY <1>5, <2>1, SamePlan DEF Age, LedgerTypeOK
<1> QED BY <1>1, <1>2, <1>3, <1>4, <1>5

-----------------------------------------------------------------------------
(* The commands.                                                           *)

LEMMA HarmlessPlans ==
  ASSUME IInv, NEW t \in Tasks, NEW w \in Workers \cup {None}, worker[t] = w
  PROVE  /\ \A s \in {"Failed", "Cancelled"} : <<End(t, w, s)>> \in Seq(Harmless)
         /\ w # None => /\ <<Leased(t, w), Beat(w)>> \in Seq(Harmless)
                        /\ <<End(t, w, "Failed"), Alert(t)>> \in Seq(Harmless)
<1>1. \A s \in {"Failed", "Cancelled"} : End(t, w, s) \in Harmless
  BY RecordTypes DEF Harmless, End, Ended
<1>2. Alert(t) \in Harmless
  BY RecordTypes DEF Harmless, Alert
<1>3. w # None => Leased(t, w) \in Harmless /\ Beat(w) \in Harmless
  BY RecordTypes DEF Harmless, Leased, Beat
<1> QED BY <1>1, <1>2, <1>3

LEMMA DecisionKeeps ==
  ASSUME IInv, NEW c \in Commands, NEW plans, Decides(c, plans), HistoryTypeOK',
         \A p \in plans : p \in Seq(Harmless) /\ p # <<>>,
         UNCHANGED <<ledger, loop, proc>>
  PROVE  IInv' /\ Stays
<1> USE DEF IInv, TypeOK
<1>1. Stays
  BY DEF Stays, ledger
<1>2. LedgerTypeOK' /\ LoopTypeOK' /\ LeasedHasWorker' /\ LoopInOrder' /\ CompletedIsReceipted'
  BY DEF LedgerTypeOK, LoopTypeOK, LeasedHasWorker, LoopInOrder, Leasing, Ending,
         CompletedIsReceipted, Owed, ledger
<1>3. Harmless \subseteq Records /\ Harmless' = Harmless
  BY DEF Harmless, ledger
<1>4. plans \subseteq Seq(Records)
  BY <1>3, SeqGrows
<1>5. CmdTypeOK'
  BY <1>4 DEF CmdTypeOK, Decides
<1>6. ASSUME NEW d \in Commands
      PROVE  cmd'[d].plan \in Seq(Harmless) /\ \A p \in cmd'[d].todo : p \in Seq(Harmless) /\ p # <<>>
  <2>1. CASE d = c
    <3>1. cmd'[d].plan = <<>> /\ cmd'[d].todo = plans
      BY <2>1 DEF Decides, CmdTypeOK
    <3> QED BY <3>1
  <2>2. CASE d # c
    BY <2>2 DEF Decides, CmdTypeOK, CmdsHarmless
  <2> QED BY <2>1, <2>2
<1>7. CmdsHarmless'
  BY <1>3, <1>6 DEF CmdsHarmless
<1> QED BY <1>1, <1>2, <1>5, <1>7

LEMMA DecidedKeeps ==
  ASSUME IInv, NEW c \in Commands,
         Stop(c) \/ Resume(c) \/ \E w \in Workers : Interrupt(c, w) \/ Restart(c, w)
  PROVE  IInv' /\ Stays
<1> USE DEF IInv, TypeOK
<1>1. ASSUME NEW w \in Workers, Interrupt(c, w) PROVE IInv' /\ Stays
  <2>1. PICK t \in Tasks : Active(t, w) /\ Decides(c, {<<End(t, w, "Cancelled")>>})
    BY <1>1 DEF Interrupt
  <2>2. <<End(t, w, "Cancelled")>> \in Seq(Harmless) /\ <<End(t, w, "Cancelled")>> # <<>>
    BY <2>1, HarmlessPlans DEF Active
  <2> DEFINE plans == {<<End(t, w, "Cancelled")>>}
  <2>3. Decides(c, plans) /\ \A p \in plans : p \in Seq(Harmless) /\ p # <<>>
    BY <2>1, <2>2
  <2> HIDE DEF plans
  <2>4. HistoryTypeOK'
    BY <1>1 DEF Interrupt, HistoryTypeOK, history
  <2> QED BY <1>1, <2>3, <2>4, DecisionKeeps DEF Interrupt
<1>2. ASSUME NEW w \in Workers, Restart(c, w) PROVE IInv' /\ Stays
  <2>1. PICK t \in Context(w) : Decides(c, {<<Leased(t, w), Beat(w)>>})
    BY <1>2 DEF Restart
  <2>2. t \in Tasks /\ worker[t] = w
    BY DEF Context, Active
  <2>3. <<Leased(t, w), Beat(w)>> \in Seq(Harmless) /\ <<Leased(t, w), Beat(w)>> # <<>>
    BY <2>2, HarmlessPlans, WorkersAssumption
  <2> DEFINE plans == {<<Leased(t, w), Beat(w)>>}
  <2>4. Decides(c, plans) /\ \A p \in plans : p \in Seq(Harmless) /\ p # <<>>
    BY <2>1, <2>3
  <2> HIDE DEF plans
  <2>5. HistoryTypeOK'
    BY <1>2 DEF Restart, HistoryTypeOK
  <2> QED BY <1>2, <2>4, <2>5, DecisionKeeps DEF Restart
<1>3. CASE Stop(c)
  <2> DEFINE plans == {<<End(t, worker[t], "Cancelled")>> : t \in {x \in Tasks : Open(x)}}
  <2>1. \A t \in Tasks : worker[t] \in Workers \cup {None}
    BY DEF LedgerTypeOK
  <2>2. ASSUME NEW t \in Tasks
        PROVE  <<End(t, worker[t], "Cancelled")>> \in Seq(Harmless) /\ <<End(t, worker[t], "Cancelled")>> # <<>>
    BY <2>1, HarmlessPlans
  <2>4. \A p \in plans : p \in Seq(Harmless) /\ p # <<>>
    BY <2>2
  <2> HIDE DEF plans
  <2>3. Decides(c, plans)
    BY <1>3 DEF Stop, plans
  <2>5. HistoryTypeOK'
    BY <1>3 DEF Stop, HistoryTypeOK, history
  <2> QED BY <1>3, <2>3, <2>4, <2>5, DecisionKeeps DEF Stop
<1>4. CASE Resume(c)
  <2> DEFINE plans == {RetryOrFail(t) : t \in Reclaimed}
  <2>1. \A t \in Reclaimed : t \in Tasks /\ worker[t] \in Workers
    BY DEF Reclaimed, LeasedHasWorker
  <2>2. \A t \in Reclaimed : RetryOrFail(t) \in Seq(Harmless) /\ RetryOrFail(t) # <<>>
    BY <2>1, HarmlessPlans, WorkersAssumption DEF RetryOrFail
  <2>3. \A p \in plans : p \in Seq(Harmless) /\ p # <<>>
    BY <2>2
  <2> HIDE DEF plans
  <2>4. Decides(c, plans)
    BY <1>4 DEF Resume, plans
  <2> QED BY <1>4, <2>3, <2>4, DecisionKeeps DEF Resume, HistoryTypeOK, history
<1> QED BY <1>1, <1>2, <1>3, <1>4

(* A command appends one record of a harmless plan and keeps the rest. *)
LEMMA WritesKeeps ==
  ASSUME IInv, NEW c \in Commands, NEW p \in Seq(Harmless), p # <<>>, Record(Head(p)),
         NEW todo \in SUBSET cmd[c].todo,
         cmd' = [cmd EXCEPT ![c].plan = Tail(p), ![c].todo = todo],
         UNCHANGED <<loop, proc, faults, history>>
  PROVE  IInv' /\ Stays
<1> USE DEF IInv, TypeOK
<1>1. Head(p) \in Harmless /\ Tail(p) \in Seq(Harmless)
  OBVIOUS
<1>2. /\ LedgerTypeOK' /\ LeasedHasWorker' /\ LoopInOrder' /\ CompletedIsReceipted'
      /\ Stays
  BY <1>1, HarmlessKeeps
<1>3. LoopTypeOK' /\ HistoryTypeOK'
  BY DEF LoopTypeOK, HistoryTypeOK, history
<1>4. Tail(p) \in Seq(Records)
  <2>1. Harmless \subseteq Records
    BY DEF Harmless
  <2> QED BY <1>1, <2>1, SeqGrows
<1>5. CmdTypeOK'
  BY <1>4 DEF CmdTypeOK
<1>6. CmdsHarmless'
  <2>1. ASSUME NEW d \in Commands
        PROVE  /\ cmd'[d].plan \in Seq(Harmless)
               /\ \A q \in cmd'[d].todo : q \in Seq(Harmless) /\ q # <<>>
    <3>1. CASE d = c
      <4>1. cmd'[d].plan = Tail(p) /\ cmd'[d].todo = todo
        BY <3>1 DEF CmdTypeOK
      <4> QED BY <1>1, <4>1 DEF CmdsHarmless
    <3>2. CASE d # c
      BY <3>2 DEF CmdsHarmless, CmdTypeOK
    <3> QED BY <3>1, <3>2
  <2> QED BY <1>2, <2>1, HarmlessStays, SeqGrows DEF CmdsHarmless
<1> QED BY <1>2, <1>3, <1>5, <1>6

LEMMA CmdKeeps ==
  ASSUME IInv, NEW c \in Commands, CmdStep(c)
  PROVE  IInv' /\ Stays
<1> USE DEF IInv, TypeOK
<1>1. CASE CmdBegins(c)
  <2>1. PICK p \in cmd[c].todo :
          /\ Record(Head(p))
          /\ cmd' = [cmd EXCEPT ![c].plan = Tail(p), ![c].todo = @ \ {p}]
    BY <1>1 DEF CmdBegins
  <2> DEFINE rest == cmd[c].todo \ {p}
  <2>2. cmd' = [cmd EXCEPT ![c].plan = Tail(p), ![c].todo = rest] /\ rest \in SUBSET cmd[c].todo
    BY <2>1 DEF CmdTypeOK
  <2>3. p \in Seq(Harmless) /\ p # <<>>
    BY DEF CmdsHarmless
  <2> HIDE DEF rest
  <2>4. UNCHANGED <<loop, proc, faults, history>>
    BY <1>1 DEF CmdBegins
  <2> QED BY <2>1, <2>2, <2>3, <2>4, WritesKeeps
<1>2. CASE CmdAppend(c)
  <2>1. cmd' = [cmd EXCEPT ![c].plan = Tail(cmd[c].plan), ![c].todo = cmd[c].todo]
    BY <1>2 DEF CmdAppend, CmdTypeOK
  <2>2. cmd[c].plan \in Seq(Harmless) /\ cmd[c].plan # <<>> /\ Record(Head(cmd[c].plan))
    BY <1>2 DEF CmdAppend, CmdsHarmless
  <2> QED BY <1>2, <2>1, <2>2, WritesKeeps DEF CmdAppend
<1>3. CASE CmdDies(c)
  <2>1. Stays /\ LedgerTypeOK' /\ LoopTypeOK' /\ LeasedHasWorker' /\ LoopInOrder'
    BY <1>3 DEF CmdDies, Stays, LedgerTypeOK, LoopTypeOK, LeasedHasWorker, LoopInOrder,
                Leasing, Ending, ledger
  <2>2. CompletedIsReceipted' /\ Harmless' = Harmless
    BY <1>3 DEF CmdDies, CompletedIsReceipted, Owed, Harmless, ledger
  <2>3. HistoryTypeOK'
    BY <1>3, FleetBounds DEF CmdDies, HistoryTypeOK, history
  <2>4. CmdTypeOK'
    <3> DEFINE States == [issued : BOOLEAN, plan : Seq(Records), todo : SUBSET Seq(Records)]
               quiet  == [cmd EXCEPT ![c].plan = <<>>]
    <3>1. <<>> \in Seq(Records) /\ {} \in SUBSET Seq(Records)
      OBVIOUS
    <3>2. quiet \in [Commands -> States]
      BY <3>1 DEF CmdTypeOK
    <3>3. cmd' = [quiet EXCEPT ![c].todo = {}]
      BY <1>3 DEF CmdDies, CmdTypeOK
    <3> HIDE DEF quiet
    <3>4. cmd' \in [Commands -> States]
      BY <3>1, <3>2, <3>3
    <3> QED BY <3>4 DEF CmdTypeOK
  <2>5. CmdsHarmless'
    <3>1. ASSUME NEW d \in Commands
          PROVE  /\ cmd'[d].plan \in Seq(Harmless)
                 /\ \A q \in cmd'[d].todo : q \in Seq(Harmless) /\ q # <<>>
      BY <1>3 DEF CmdDies, CmdTypeOK, CmdsHarmless
    <3> QED BY <2>2, <3>1 DEF CmdsHarmless
  <2> QED BY <2>1, <2>2, <2>3, <2>4, <2>5
<1> QED BY <1>1, <1>2, <1>3, DecidedKeeps DEF CmdStep

-----------------------------------------------------------------------------

LEMMA InitInv == Init => IInv
<1> SUFFICES ASSUME Init PROVE IInv
  OBVIOUS
<1> USE DEF Init
<1>1. LedgerTypeOK /\ HistoryTypeOK
  BY FleetBounds DEF LedgerTypeOK, HistoryTypeOK, Ended
<1>2. LoopTypeOK /\ CmdTypeOK
  BY DEF LoopTypeOK, CmdTypeOK, NoProc
<1>3. LeasedHasWorker /\ CmdsHarmless /\ LoopInOrder /\ CompletedIsReceipted
  <2>1. LeasedHasWorker /\ LoopInOrder /\ CompletedIsReceipted
    BY DEF LeasedHasWorker, LoopInOrder, CompletedIsReceipted
  <2>2. \A c \in Commands : cmd[c].plan = <<>> /\ cmd[c].todo = {}
    OBVIOUS
  <2>3. <<>> \in Seq(Harmless)
    OBVIOUS
  <2>4. CmdsHarmless
    BY <2>2, <2>3 DEF CmdsHarmless
  <2> QED BY <2>1, <2>4
<1> QED BY <1>1, <1>2, <1>3 DEF IInv, TypeOK

LEMMA StepKeeps == IInv /\ [Next]_vars => IInv' /\ (Stays \/ UNCHANGED vars)
<1> SUFFICES ASSUME IInv, [Next]_vars PROVE IInv' /\ (Stays \/ UNCHANGED vars)
  OBVIOUS
<1>1. CASE LoopStep
  BY <1>1, AppendKeeps, PickKeeps, PollKeeps, StartFailsKeeps, LoopGoesOn DEF LoopStep
<1>2. CASE LoopCrash \/ \E w \in Workers : Exit(w) \/ Age(w)
  BY <1>2, LoopGoesOn
<1>3. ASSUME NEW c \in Commands, CmdStep(c) PROVE IInv' /\ Stays
  BY <1>3, CmdKeeps
<1>4. CASE UNCHANGED vars
  <2>1. Harmless' = Harmless
    BY <1>4 DEF vars, ledger, Harmless
  <2>2. TypeOK'
    BY <1>4 DEF vars, ledger, history, IInv, TypeOK, LedgerTypeOK, LoopTypeOK, CmdTypeOK, HistoryTypeOK
  <2>3. LeasedHasWorker' /\ LoopInOrder' /\ CompletedIsReceipted'
    BY <1>4 DEF vars, ledger, IInv, LeasedHasWorker, LoopInOrder, Leasing, Ending,
                CompletedIsReceipted, Owed
  <2>4. CmdsHarmless'
    BY <1>4, <2>1 DEF vars, IInv, CmdsHarmless
  <2> QED BY <1>4, <2>2, <2>3, <2>4 DEF IInv
<1> QED BY <1>1, <1>2, <1>3, <1>4 DEF Next

(* Whatever the loop and the commands decide and append, in any order, the *)
(* fold of the ledger and the plans in hand stay well formed               *)
(* (ledger.rs 56-113, apply_record).                                       *)
THEOREM TypeCorrect == Spec => []TypeOK
<1> QED BY InitInv, StepKeeps, PTL DEF Spec, IInv

(* record_task_outcome writes the end, the receipt and the second end of a *)
(* failed verification as three records (manager.rs 866-960): a completed  *)
(* task has a receipt that does not say it failed, or the loop still owes  *)
(* it, however many commands append in between.                            *)
THEOREM ReceiptsCorrect == Spec => []CompletedIsReceipted
<1> QED BY InitInv, StepKeeps, PTL DEF Spec, IInv

(* No lease and no end moves a task to another worker (apply_record,       *)
(* ledger.rs 435-449 and 488-515), though each is decided on a fold that   *)
(* may no longer be true when it is appended.                              *)
THEOREM StaysCorrect == Spec => TasksStay
<1>1. IInv /\ [Next]_vars => [\A t \in Tasks : worker[t] # None => worker'[t] = worker[t]]_vars
  BY StepKeeps DEF Stays
<1> QED BY <1>1, InitInv, StepKeeps, PTL DEF Spec, TasksStay
-----------------------------------------------------------------------------
(* Commands that come one at a time.  What they have in hand is then a     *)
(* plan per task, decided on a fold that stays true for that task but for  *)
(* what the loop appends.                                                  *)

LeaseOf(t, w)   == <<Leased(t, w), Beat(w)>>
FailureOf(t, w) == <<End(t, w, "Failed"), Alert(t)>>
CancelOf(t, w)  == <<End(t, w, "Cancelled")>>

OneCommand == \A c, d \in Commands : UnderWay(c) /\ UnderWay(d) => c = d

InHand ==
  \A c \in Commands :
    /\ \/ cmd[c].plan = <<>>
       \/ \E w \in Workers : cmd[c].plan = <<Beat(w)>>
       \/ \E t \in Tasks : cmd[c].plan = <<Alert(t)>>
    /\ \A p \in cmd[c].todo : \E t \in Tasks :
         \/ \E w \in Workers \cup {None} : p = CancelOf(t, w)
         \/ \E w \in Workers : p = LeaseOf(t, w) \/ p = FailureOf(t, w)
    /\ \A p, q \in cmd[c].todo : p[1].task = q[1].task => p = q

(* Who is about to lease a task, to fail it, or to escalate it. *)
Releases(t)   == \E c \in Commands, w \in Workers : LeaseOf(t, w) \in cmd[c].todo
Fails(t)      == \E c \in Commands, w \in Workers : FailureOf(t, w) \in cmd[c].todo
Alerts(t)     == \E c \in Commands : cmd[c].plan = <<Alert(t)>>
LoopLeases(t) == loop.pc # "crashed" /\ \E w \in Workers : loop.plan = LeaseOf(t, w)

(* The loop leases tasks that nobody leased before. *)
Unleased ==
  /\ loop.pc = "done" => loop.plan = <<>>
  /\ \A t \in Tasks : LoopLeases(t) \/ status[t] = "Enqueued" => attempts[t] = 0 /\ worker[t] = None

(* A retry is a resume's, for which the loop is gone. *)
Allowed(t) == IF LoopGone /\ MaxAttempts[t] # 0 THEN MaxAttempts[t] ELSE 1

Leases ==
  \A t \in Tasks : /\ attempts[t] <= restarts + Allowed(t)
                   /\ Releases(t) => attempts[t] + 1 <= restarts + Allowed(t)

Resuming ==
  \A t \in Tasks : /\ Fails(t) \/ Alerts(t) => LoopGone
                   /\ Alerts(t) => ~Open(t) /\ ~Releases(t) /\ ~Fails(t)

(* A task that may still fail for good has an escalation to spare. *)
Live(t) == Open(t) \/ LoopLeases(t) \/ Releases(t) \/ Fails(t) \/ Alerts(t)

Escalations ==
  \A t \in Tasks : alerts[t] <= 1 + restarts /\ (Live(t) => alerts[t] <= restarts)

CInv == OneCommand /\ InHand /\ Unleased /\ Leases /\ Resuming /\ Escalations

(* The plans are told apart by their records. *)
LEMMA Plans ==
  ASSUME NEW t \in Tasks, NEW w \in Workers
  PROVE  /\ LeaseOf(t, w)[1].task = t /\ FailureOf(t, w)[1].task = t
         /\ Head(LeaseOf(t, w)) = Leased(t, w) /\ Tail(LeaseOf(t, w)) = <<Beat(w)>>
         /\ Head(FailureOf(t, w)) = End(t, w, "Failed") /\ Tail(FailureOf(t, w)) = <<Alert(t)>>
         /\ LeaseOf(t, w) # <<>> /\ FailureOf(t, w) # <<>>
BY DEF LeaseOf, FailureOf, Leased, End

LEMMA CancelPlans ==
  ASSUME NEW t \in Tasks, NEW w \in Workers \cup {None}
  PROVE  /\ CancelOf(t, w)[1].task = t /\ CancelOf(t, w) # <<>>
         /\ Head(CancelOf(t, w)) = End(t, w, "Cancelled") /\ Tail(CancelOf(t, w)) = <<>>
BY DEF CancelOf, End

LEMMA PlansDiffer ==
  ASSUME NEW t \in Tasks, NEW w \in Workers, NEW u \in Tasks, NEW x \in Workers
  PROVE  /\ LeaseOf(t, w) # FailureOf(u, x)
         /\ LeaseOf(t, w) = LeaseOf(u, x) => t = u /\ w = x
         /\ FailureOf(t, w) = FailureOf(u, x) => t = u
         /\ \A y \in Workers \cup {None} :
              CancelOf(u, y) # LeaseOf(t, w) /\ CancelOf(u, y) # FailureOf(t, w)
<1>1. LeaseOf(t, w)[1] = Leased(t, w) /\ FailureOf(u, x)[1] = End(u, x, "Failed")
      /\ LeaseOf(u, x)[1] = Leased(u, x) /\ FailureOf(t, w)[1] = End(t, w, "Failed")
  BY DEF LeaseOf, FailureOf
<1>2. Leased(t, w).kind = "leased" /\ End(u, x, "Failed").kind = "ended"
      /\ Leased(t, w).task = t /\ Leased(u, x).task = u
      /\ Leased(t, w).worker = w /\ Leased(u, x).worker = x
      /\ End(t, w, "Failed").task = t /\ End(u, x, "Failed").task = u
  BY DEF Leased, End
<1>3. \A y \in Workers \cup {None} :
        CancelOf(u, y) # LeaseOf(t, w) /\ CancelOf(u, y) # FailureOf(t, w)
  BY DEF CancelOf, LeaseOf, FailureOf
<1> QED BY <1>1, <1>2, <1>3

LEMMA OneRecordPlans ==
  ASSUME NEW t \in Tasks, NEW u \in Tasks, NEW w \in Workers
  PROVE  /\ <<Beat(w)>> # <<Alert(t)>> /\ <<Beat(w)>> # <<>> /\ <<Alert(t)>> # <<>>
         /\ <<Alert(t)>> = <<Alert(u)>> => t = u
         /\ Head(<<Beat(w)>>) = Beat(w) /\ Tail(<<Beat(w)>>) = <<>>
         /\ Head(<<Alert(t)>>) = Alert(t) /\ Tail(<<Alert(t)>>) = <<>>
<1>1. <<Beat(w)>>[1].kind = "beat" /\ <<Alert(t)>>[1].kind = "alert"
      /\ <<Alert(t)>>[1].task = t /\ <<Alert(u)>>[1].task = u
  BY DEF Beat, Alert
<1> QED BY <1>1

(* What a record does to the fold. *)
LEMMA RecordsLease ==
  ASSUME LedgerTypeOK, NEW t \in Tasks, NEW w \in Workers, Record(Leased(t, w))
  PROVE  /\ status' = [status EXCEPT ![t] = "Leased"] /\ worker' = [worker EXCEPT ![t] = w]
         /\ attempts' = [attempts EXCEPT ![t] = @ + 1] /\ alerts' = alerts
BY WorkersAssumption DEF Record, Leased, LedgerTypeOK

LEMMA RecordsEnd ==
  ASSUME LedgerTypeOK, NEW t \in Tasks, NEW w \in Workers \cup {None}, NEW s \in Ended,
         Record(End(t, w, s))
  PROVE  /\ status' = [status EXCEPT ![t] = s] /\ attempts' = attempts /\ alerts' = alerts
         /\ \A u \in Tasks \ {t} : worker'[u] = worker[u]
BY DEF Record, End, LedgerTypeOK

LEMMA RecordsAlert ==
  ASSUME LedgerTypeOK, NEW t \in Tasks, Record(Alert(t))
  PROVE  /\ UNCHANGED <<status, worker, attempts>> /\ alerts' = [alerts EXCEPT ![t] = @ + 1]
BY DEF Record, Alert, LedgerTypeOK

LEMMA RecordsBeat ==
  ASSUME LedgerTypeOK, NEW w \in Workers, Record(Beat(w))
  PROVE  UNCHANGED <<status, worker, attempts, alerts>>
BY DEF Record, Beat, LedgerTypeOK

(* A lease a command is about to append is of a task that was leased. *)
LEMMA ReleasesLeased ==
  ASSUME IInv, CInv, NEW t \in Tasks, NEW c \in Commands, NEW w \in Workers,
         LeaseOf(t, w) \in cmd[c].todo
  PROVE  /\ worker[t] = w /\ ~LoopLeases(t) /\ status[t] # "Enqueued"
<1>1. LeaseOf(t, w) \in Seq(Harmless) /\ LeaseOf(t, w) # <<>>
  BY DEF IInv, CmdsHarmless
<1>2. Leased(t, w) \in Harmless
  BY <1>1, Plans
<1>3. worker[t] = w /\ w # None
  BY <1>2, WorkersAssumption DEF Harmless, Leased
<1> QED BY <1>3 DEF CInv, Unleased

(* Steps by which nothing is leased, escalated or restarted. *)
LEMMA CalmKeeps ==
  ASSUME IInv, CInv, OneCommand', InHand',
         UNCHANGED <<attempts, alerts, restarts>>,
         \A t \in Tasks : status'[t] = status[t] \/ status'[t] \in Ended,
         \A t \in Tasks : worker[t] = None => worker'[t] = None,
         LoopGone => LoopGone', loop'.pc = "done" => loop'.plan = <<>>,
         \A t \in Tasks : LoopLeases(t)' => LoopLeases(t) \/ status[t] = "Enqueued",
         \A t \in Tasks : Releases(t)' => Releases(t),
         \A t \in Tasks : Fails(t)' => Fails(t),
         \A t \in Tasks : Alerts(t)' =>
           Alerts(t) \/ (Fails(t) /\ ~Open(t)' /\ ~Releases(t)' /\ ~Fails(t)')
  PROVE  CInv'
<1>1. Unleased'
  BY DEF CInv, Unleased, Ended
<1>2. Leases'
  <2> SUFFICES ASSUME NEW t \in Tasks
               PROVE  /\ attempts[t] <= restarts + Allowed(t)'
                      /\ Releases(t) => attempts[t] + 1 <= restarts + Allowed(t)'
    BY DEF Leases
  <2>1. /\ attempts[t] <= restarts + Allowed(t)
        /\ Releases(t) => attempts[t] + 1 <= restarts + Allowed(t)
    BY DEF CInv, Leases
  <2>2. Allowed(t) = Allowed(t)' \/ (Allowed(t) = 1 /\ Allowed(t)' \in Nat \ {0})
    BY FleetBounds DEF Allowed
  <2>3. attempts[t] \in Nat /\ restarts \in Nat /\ Allowed(t) \in Nat /\ Allowed(t)' \in Nat
    BY FleetBounds DEF IInv, TypeOK, LedgerTypeOK, HistoryTypeOK, Allowed
  <2> QED BY <2>1, <2>2, <2>3
<1>3. \A t \in Tasks : Open(t)' => Open(t)
  BY DEF Open, Ended
<1>4. Resuming'
  BY <1>3 DEF CInv, Resuming
<1>5. Escalations'
  <2>1. \A t \in Tasks : Live(t)' => Live(t)
    BY <1>3 DEF Live, Open
  <2> QED BY <2>1 DEF CInv, Escalations
<1> QED BY <1>1, <1>2, <1>4, <1>5 DEF CInv

(* The loop, but for the lease it appends. *)
LEMMA LoopPlan ==
  ASSUME IInv, LoopAppend, \A t \in Tasks, w \in Workers : loop.plan # LeaseOf(t, w)
  PROVE  /\ \A t \in Tasks : ~LoopLeases(t)'
         /\ \/ \E w \in Workers : Head(loop.plan) = Beat(w)
            \/ \E t \in Tasks, v \in Results : Head(loop.plan) = Receipt(t, v)
            \/ \E t \in Tasks, w \in Workers, s \in {"Completed", "Failed"} :
                 Head(loop.plan) = End(t, w, s)
<1>1. loop'.plan = Tail(loop.plan)
  BY AppendTypes
<1> DEFINE Shape ==
      \/ \E w \in Workers : Head(loop.plan) = Beat(w)
      \/ \E t \in Tasks, v \in Results : Head(loop.plan) = Receipt(t, v)
      \/ \E t \in Tasks, w \in Workers, s \in {"Completed", "Failed"} : Head(loop.plan) = End(t, w, s)
    Rest == loop'.plan = <<>> \/ \E t \in Tasks, v \in Results, w \in Workers, s \in {"Completed", "Failed"} :
              \/ loop'.plan = <<Receipt(t, v)>>
              \/ loop'.plan = <<Receipt(t, v), End(t, w, s)>>
              \/ loop'.plan = <<End(t, w, s)>>
<1>2. Shape /\ Rest
  <2>1. loop.plan # <<>>
    BY DEF LoopAppend
  <2>2. ASSUME NEW w \in Workers, loop.plan = <<Beat(w)>> PROVE Shape /\ Rest
    BY <1>1, <2>2
  <2>3. ASSUME NEW w \in Workers, NEW t \in Tasks, Leasing(t, w) PROVE Shape /\ Rest
    BY <2>3 DEF Leasing, LeaseOf
  <2>4. ASSUME NEW w \in Workers, NEW t \in Tasks, Ending(t, w) PROVE Shape /\ Rest
    <3>1. CASE loop.plan = <<End(t, w, "Failed")>>
      BY <1>1, <3>1
    <3>2. ASSUME NEW v \in Results, NEW s \in {"Completed", "Failed"},
                 loop.plan = <<End(t, w, s), Receipt(t, v)>>
          PROVE  Shape /\ Rest
      <4>1. Head(loop.plan) = End(t, w, s) /\ loop'.plan = <<Receipt(t, v)>>
        BY <1>1, <3>2
      <4> QED BY <4>1
    <3>3. ASSUME NEW v \in Results, NEW s \in {"Completed", "Failed"},
                 loop.plan = <<End(t, w, s), Receipt(t, v), End(t, w, "Failed")>>
          PROVE  Shape /\ Rest
      <4>1. Head(loop.plan) = End(t, w, s) /\ loop'.plan = <<Receipt(t, v), End(t, w, "Failed")>>
        BY <1>1, <3>3
      <4> QED BY <4>1
    <3>4. ASSUME NEW v \in Results, loop.plan = <<Receipt(t, v)>>
          PROVE  Shape /\ Rest
      BY <1>1, <3>4
    <3>5. ASSUME NEW v \in Results, loop.plan = <<Receipt(t, v), End(t, w, "Failed")>>
          PROVE  Shape /\ Rest
      <4>1. Head(loop.plan) = Receipt(t, v) /\ loop'.plan = <<End(t, w, "Failed")>>
        BY <1>1, <3>5
      <4> QED BY <4>1
    <3> QED BY <2>4, <3>1, <3>2, <3>3, <3>4, <3>5 DEF Ending
  <2> QED BY <2>1, <2>2, <2>3, <2>4 DEF IInv, LoopInOrder
<1>3. ASSUME NEW t \in Tasks, LoopLeases(t)' PROVE FALSE
  <2>1. PICK w \in Workers : loop'.plan = <<Leased(t, w), Beat(w)>>
    BY <1>3 DEF LoopLeases, LeaseOf
  <2>2. loop'.plan[1].kind = "leased"
    BY <2>1 DEF Leased
  <2>3. \A u \in Tasks, v \in Results, x \in Workers, s \in {"Completed", "Failed"} :
          Receipt(u, v).kind # "leased" /\ End(u, x, s).kind # "leased"
    BY DEF Receipt, End
  <2> QED BY <1>2, <2>1, <2>2, <2>3
<1> QED BY <1>2, <1>3

LEMMA CalmAppend ==
  ASSUME IInv, CInv, LoopAppend, \A t \in Tasks, w \in Workers : loop.plan # LeaseOf(t, w)
  PROVE  CInv'
<1>1. /\ \A t \in Tasks : ~LoopLeases(t)'
      /\ UNCHANGED <<cmd, restarts>> /\ loop'.pc = loop.pc /\ loop.pc # "done"
  BY LoopPlan DEF LoopAppend, history, CInv, Unleased, IInv, TypeOK, LoopTypeOK
<1>2. LedgerTypeOK
  BY DEF IInv, TypeOK
<1>3. Record(Head(loop.plan))
  BY DEF LoopAppend
<1>4. /\ UNCHANGED <<attempts, alerts>>
      /\ \A t \in Tasks : status'[t] = status[t] \/ status'[t] \in Ended
      /\ \A t \in Tasks : worker[t] = None => worker'[t] = None
  <2>1. ASSUME NEW w \in Workers, Head(loop.plan) = Beat(w)
        PROVE  UNCHANGED <<status, worker, attempts, alerts>>
    BY <1>2, <1>3, <2>1, RecordsBeat
  <2>2. ASSUME NEW t \in Tasks, NEW v \in Results, Head(loop.plan) = Receipt(t, v)
        PROVE  UNCHANGED <<status, worker, attempts, alerts>>
    BY <1>3, <2>2 DEF Record, Receipt
  <2>3. ASSUME NEW t \in Tasks, NEW w \in Workers, NEW s \in {"Completed", "Failed"},
               Head(loop.plan) = End(t, w, s)
        PROVE  /\ UNCHANGED <<attempts, alerts>>
               /\ status' = [status EXCEPT ![t] = s]
               /\ \A u \in Tasks \ {t} : worker'[u] = worker[u]
               /\ worker[t] # None
    <3>1. s \in Ended
      BY DEF Ended
    <3>2. Record(End(t, w, s))
      BY <1>3, <2>3
    <3>3. /\ status' = [status EXCEPT ![t] = s] /\ attempts' = attempts /\ alerts' = alerts
          /\ \A u \in Tasks \ {t} : worker'[u] = worker[u]
      BY <1>2, <3>1, <3>2, RecordsEnd
    <3>4. ASSUME NEW x \in Workers, NEW u \in Tasks, Ending(u, x)
          PROVE  Head(loop.plan).task = u /\ worker[u] = x
      <4>1. worker[u] = x
        BY <3>4 DEF Ending
      <4>2. \A s1 \in {"Completed", "Failed"} : End(u, x, s1).task = u
        BY DEF End
      <4>3. \A v1 \in Results : Receipt(u, v1).task = u
        BY DEF Receipt
      <4>4. \/ \E s1 \in {"Completed", "Failed"} : Head(loop.plan) = End(u, x, s1)
            \/ \E v1 \in Results : Head(loop.plan) = Receipt(u, v1)
        BY <3>4 DEF Ending
      <4> QED BY <4>1, <4>2, <4>3, <4>4
    <3>5. ASSUME NEW x \in Workers, loop.plan = <<Beat(x)>>
          PROVE  FALSE
      <4>1. Head(loop.plan).kind = "beat"
        BY <3>5 DEF Beat
      <4> QED BY <2>3, <4>1 DEF End
    <3>6. ASSUME NEW x \in Workers, NEW u \in Tasks, Leasing(u, x)
          PROVE  FALSE
      BY <3>6 DEF Leasing, LeaseOf
    <3>7. loop.plan # <<>>
      BY DEF LoopAppend
    <3>8. worker[t] # None
      <4>1. PICK x \in Workers, u \in Tasks : Ending(u, x)
        BY <3>5, <3>6, <3>7 DEF IInv, LoopInOrder
      <4>2. Head(loop.plan).task = t
        BY <2>3 DEF End
      <4> QED BY <3>4, <4>1, <4>2, WorkersAssumption
    <3> QED BY <3>3, <3>8
  <2>4. \A t \in Tasks, w \in Workers, s \in {"Completed", "Failed"} :
          Head(loop.plan) = End(t, w, s) =>
            /\ UNCHANGED <<attempts, alerts>>
            /\ \A u \in Tasks : status'[u] = status[u] \/ status'[u] \in Ended
            /\ \A u \in Tasks : worker[u] = None => worker'[u] = None
    BY <1>2, <2>3 DEF LedgerTypeOK, Ended
  <2> QED BY <2>1, <2>2, <2>4, LoopPlan
<1>5. OneCommand' /\ InHand'
  BY <1>1 DEF CInv, OneCommand, UnderWay, InHand
<1>6. \A t \in Tasks : Releases(t)' = Releases(t) /\ Fails(t)' = Fails(t) /\ Alerts(t)' = Alerts(t)
  BY <1>1 DEF Releases, Fails, Alerts
<1> QED BY <1>1, <1>4, <1>5, <1>6, CalmKeeps DEF LoopGone

(* The loop appends a first lease: no command had one in hand, or an       *)
(* escalation.                                                             *)
LEMMA LeaseAppend ==
  ASSUME IInv, CInv, LoopAppend, NEW t \in Tasks, NEW w \in Workers, loop.plan = LeaseOf(t, w)
  PROVE  CInv'
<1>1. /\ UNCHANGED <<cmd, restarts>> /\ loop'.pc = loop.pc /\ loop.pc # "crashed"
      /\ loop'.plan = <<Beat(w)>> /\ LoopLeases(t)
  BY Plans DEF LoopAppend, history, IInv, TypeOK, LoopTypeOK, LoopLeases
<1>2. loop.pc # "done" /\ ~LoopGone
  BY <1>1, Plans DEF CInv, Unleased, LoopGone
<1>3. \A u \in Tasks : ~LoopLeases(u)'
  BY <1>1 DEF LoopLeases, LeaseOf
<1>4. /\ status' = [status EXCEPT ![t] = "Leased"] /\ worker' = [worker EXCEPT ![t] = w]
      /\ attempts' = [attempts EXCEPT ![t] = @ + 1] /\ alerts' = alerts
  BY Plans, RecordsLease DEF LoopAppend, IInv, TypeOK
<1>5. OneCommand' /\ InHand'
  BY <1>1 DEF CInv, OneCommand, UnderWay, InHand
<1>6. \A u \in Tasks : Releases(u)' = Releases(u) /\ Fails(u)' = Fails(u) /\ Alerts(u)' = Alerts(u)
  BY <1>1 DEF Releases, Fails, Alerts
<1>7. /\ attempts[t] = 0 /\ ~Releases(t)
      /\ \A u \in Tasks : ~Fails(u) /\ ~Alerts(u)
  BY <1>1, <1>2, ReleasesLeased DEF CInv, Unleased, Resuming, Releases
<1>8. /\ status'[t] = "Leased" /\ attempts'[t] = 1
      /\ \A u \in Tasks \ {t} : status'[u] = status[u] /\ worker'[u] = worker[u] /\ attempts'[u] = attempts[u]
  BY <1>4, <1>7 DEF IInv, TypeOK, LedgerTypeOK
<1>9. Unleased'
  BY <1>1, <1>2, <1>3, <1>8 DEF CInv, Unleased
<1>10. Leases'
  <2>1. \A u \in Tasks : Allowed(u)' = Allowed(u) /\ Allowed(u) = 1
    BY <1>1, <1>2 DEF Allowed, LoopGone
  <2>2. restarts \in Nat
    BY DEF IInv, TypeOK, HistoryTypeOK
  <2> QED BY <1>1, <1>6, <1>7, <1>8, <2>1, <2>2 DEF CInv, Leases
<1>11. Resuming'
  BY <1>6, <1>7 DEF Resuming
<1>12. Escalations'
  <2>1. \A u \in Tasks : Live(u)' => Live(u)
    BY <1>1, <1>3, <1>6, <1>8 DEF Live, Open
  <2> QED BY <1>1, <1>4, <2>1 DEF CInv, Escalations
<1> QED BY <1>5, <1>9, <1>10, <1>11, <1>12 DEF CInv

(* The rest of the loop, which leaves the fold and the commands alone. *)
LEMMA QuietKeeps ==
  ASSUME IInv, CInv, UNCHANGED <<status, worker, attempts, alerts, restarts, cmd>>,
         LoopGone => LoopGone', loop'.pc = "done" => loop'.plan = <<>>,
         \A t \in Tasks : LoopLeases(t)' => LoopLeases(t) \/ status[t] = "Enqueued"
  PROVE  CInv'
<1>1. OneCommand' /\ InHand'
  BY DEF CInv, OneCommand, UnderWay, InHand
<1>2. \A t \in Tasks : Releases(t)' = Releases(t) /\ Fails(t)' = Fails(t) /\ Alerts(t)' = Alerts(t)
  BY DEF Releases, Fails, Alerts
<1> QED BY <1>1, <1>2, CalmKeeps

LEMMA OutcomeBegins ==
  ASSUME NEW t \in Tasks, NEW w \in Workers, NEW e \in {"ok", "bad"}, NEW v \in Verdicts(t, e)
  PROVE  /\ Outcome(t, w, e, v) # <<>>
         /\ Head(Outcome(t, w, e, v)).kind = "ended" /\ Head(Outcome(t, w, e, v)).task = t
         /\ \A u \in Tasks, x \in Workers : Outcome(t, w, e, v) # LeaseOf(u, x)
<1> DEFINE s == IF e = "ok" THEN "Completed" ELSE "Failed"
           o == <<End(t, w, s), Receipt(t, v)>>
           rest == IF t \in Scored /\ v = "fail" THEN <<End(t, w, "Failed")>> ELSE <<>>
<1>1. s \in {"Completed", "Failed"} /\ v \in Results
  BY DEF Verdicts, Results
<1>2. End(t, w, s) \in Records /\ Receipt(t, v) \in Records /\ End(t, w, "Failed") \in Records
  BY <1>1, RecordTypes DEF Ended
<1>3. o \in Seq(Records) /\ Len(o) = 2 /\ o[1] = End(t, w, s)
  BY <1>2
<1>4. rest \in Seq(Records)
  BY <1>2
<1>5. Outcome(t, w, e, v) = o \o rest
  BY DEF Outcome
<1> HIDE DEF o, rest, s
<1>6. /\ o \o rest \in Seq(Records) /\ Len(o \o rest) = 2 + Len(rest) /\ Len(rest) \in Nat
      /\ (o \o rest)[1] = End(t, w, s)
  <2>1. /\ o \o rest \in Seq(Records) /\ Len(o \o rest) = Len(o) + Len(rest)
        /\ \A i \in 1..(Len(o) + Len(rest)) : (o \o rest)[i] = IF i <= Len(o) THEN o[i] ELSE rest[i - Len(o)]
    BY <1>3, <1>4, ConcatProperties
  <2>2. Len(rest) \in Nat
    BY <1>4, LenProperties
  <2> QED BY <1>3, <2>1, <2>2
<1>7. o \o rest # <<>> /\ Head(o \o rest) = End(t, w, s)
  BY <1>6
<1>8. \A u \in Tasks, x \in Workers : LeaseOf(u, x)[1].kind = "leased"
  BY DEF LeaseOf, Leased
<1>9. End(t, w, s).kind = "ended" /\ End(t, w, s).task = t
  BY DEF End
<1> QED BY <1>5, <1>6, <1>7, <1>8, <1>9

LEMMA LoopCourteous ==
  ASSUME IInv, CInv,
         \/ LoopStep \/ LoopCrash \/ (\E w \in Workers : Exit(w) \/ Age(w))
         \/ UNCHANGED vars
  PROVE  CInv'
<1> DEFINE Quiet == /\ UNCHANGED <<status, worker, attempts, alerts, restarts, cmd>>
                    /\ LoopGone => LoopGone'
                    /\ loop'.pc = "done" => loop'.plan = <<>>
                    /\ \A t \in Tasks : LoopLeases(t)' => LoopLeases(t) \/ status[t] = "Enqueued"
<1>0. \A u \in Tasks, x \in Workers : <<>> # LeaseOf(u, x) /\ (\A y \in Workers : <<Beat(y)>> # LeaseOf(u, x))
  BY DEF LeaseOf
<1>l. LoopTypeOK /\ (loop.pc = "done" => loop.plan = <<>>)
  BY DEF IInv, TypeOK, CInv, Unleased
<1>1. CASE LoopAppend
  BY <1>1, CalmAppend, LeaseAppend
<1>2. ASSUME BeatForBusy \/ PickNone \/ Spawn \/ StartDone \/ TestOpen
      PROVE  Quiet
  BY <1>2, <1>0, <1>l DEF BeatForBusy, PickNone, Spawn, StartDone, TestOpen, At, ledger, history,
                    LoopGone, LoopTypeOK, LoopLeases
<1>3. ASSUME NEW w \in Workers, NEW t \in Tasks, Pick(w, t)
      PROVE  Quiet
  <2>1. loop'.plan = LeaseOf(t, w) /\ loop'.pc = "pick" /\ status[t] = "Enqueued"
    BY <1>3, <1>l DEF Pick, At, LoopTypeOK, LeaseOf
  <2>2. \A u \in Tasks : LoopLeases(u)' => u = t
    BY <2>1, PlansDiffer DEF LoopLeases
  <2>3. ~LoopGone /\ UNCHANGED <<status, worker, attempts, alerts, restarts, cmd>>
    BY <1>3 DEF Pick, At, ledger, history, LoopGone
  <2> QED BY <2>1, <2>2, <2>3
<1>4. ASSUME NEW t \in Tasks, StartProc(t) \/ StartSkips(t)
      PROVE  Quiet
  BY <1>4, <1>0, <1>l DEF StartProc, StartSkips, At, ledger, history, LoopGone, LoopTypeOK, LoopLeases
<1>5. ASSUME NEW t \in Tasks, StartFails(t)
      PROVE  Quiet
  <2>1. /\ UNCHANGED <<status, worker, attempts, alerts, restarts, cmd>>
        /\ loop'.pc = "start" /\ ~LoopGone
    BY <1>5, <1>l DEF StartFails, At, ledger, history, LoopGone, LoopTypeOK
  <2>2. \/ loop'.plan = <<>>
        \/ worker[t] \in Workers /\ \E v \in Verdicts(t, "bad") : loop'.plan = Outcome(t, worker[t], "bad", v)
    BY <1>5, <1>l DEF StartFails, At, LoopTypeOK, IInv, LeasedHasWorker
  <2>3. \A u \in Tasks, x \in Workers : loop'.plan # LeaseOf(u, x)
    BY <1>0, <2>2, OutcomeBegins
  <2> QED BY <2>1, <2>3 DEF LoopLeases
<1>6. ASSUME NEW w \in Workers, PollRunning(w)
      PROVE  Quiet
  BY <1>6, <1>0, <1>l DEF PollRunning, At, ledger, history, LoopGone, LoopTypeOK, LoopLeases
<1>7. ASSUME NEW w \in Workers, PollExited(w)
      PROVE  Quiet
  <2>1. /\ UNCHANGED <<status, worker, attempts, alerts, restarts, cmd>>
        /\ loop.plan = <<>> /\ loop.pc = "poll" /\ proc[w].state \in {"ok", "bad"}
    BY <1>7 DEF PollExited, At, ledger
  <2>2. /\ loop'.pc = "poll"
        /\ \/ loop'.plan = <<>>
           \/ \E t \in Tasks : \E v \in Verdicts(t, proc[w].state) :
                loop'.plan = Outcome(t, w, proc[w].state, v)
    <3>1. PICK t \in Context(w) \cup {x \in {None} : Context(w) = {}} :
            IF t # None /\ status[t] = "Leased"
            THEN \E v \in Verdicts(t, proc[w].state) :
                   loop' = [loop EXCEPT !.todo = @ \ {w}, !.plan = Outcome(t, w, proc[w].state, v)]
            ELSE loop' = [loop EXCEPT !.todo = @ \ {w}]
      BY <1>7 DEF PollExited
    <3>2. t # None => t \in Tasks
      BY DEF Context
    <3>3. CASE t # None /\ status[t] = "Leased"
      <4>1. PICK v \in Verdicts(t, proc[w].state) :
              loop' = [loop EXCEPT !.todo = @ \ {w}, !.plan = Outcome(t, w, proc[w].state, v)]
        BY <3>1, <3>3
      <4>2. loop'.pc = "poll" /\ loop'.plan = Outcome(t, w, proc[w].state, v)
        BY <1>l, <2>1, <4>1 DEF LoopTypeOK
      <4> QED BY <3>2, <3>3, <4>2
    <3>4. CASE ~(t # None /\ status[t] = "Leased")
      BY <1>l, <2>1, <3>1, <3>4 DEF LoopTypeOK
    <3> QED BY <3>3, <3>4
  <2>3. \A u \in Tasks, x \in Workers : loop'.plan # LeaseOf(u, x)
    BY <1>0, <2>1, <2>2, OutcomeBegins
  <2> QED BY <2>1, <2>2, <2>3 DEF LoopLeases, LoopGone
<1>8. ASSUME LoopCrash PROVE Quiet
  BY <1>8, <1>l DEF LoopCrash, ledger, history, LoopGone, LoopTypeOK, LoopLeases
<1>9. ASSUME NEW w \in Workers, Exit(w) \/ Age(w) PROVE Quiet
  BY <1>9, <1>l DEF Exit, Age, ledger, history, LoopGone, LoopLeases
<1>10. ASSUME UNCHANGED vars PROVE Quiet
  BY <1>10, <1>l DEF vars, ledger, history, LoopGone, LoopLeases
<1>11. Quiet => CInv'
  BY QuietKeeps
<1> HIDE DEF Quiet
<1> QED BY <1>1, <1>2, <1>3, <1>4, <1>5, <1>6, <1>7, <1>8, <1>9, <1>10, <1>11 DEF LoopStep

(* A command decides when no other has anything in hand. *)
LEMMA Decided ==
  ASSUME IInv, CInv, Polite, NEW c \in Commands, NEW op, MayIssue(c, op),
         NEW plans, Decides(c, plans),
         \A p \in plans : \E t \in Tasks :
           \/ \E w \in Workers \cup {None} : p = CancelOf(t, w)
           \/ \E w \in Workers : p = LeaseOf(t, w) \/ p = FailureOf(t, w),
         \A p, q \in plans : p[1].task = q[1].task => p = q
  PROVE  /\ OneCommand' /\ InHand'
         /\ \A t \in Tasks : ~Alerts(t)' /\ ~Releases(t) /\ ~Fails(t) /\ ~Alerts(t)
         /\ \A t \in Tasks : Releases(t)' => \E w \in Workers : LeaseOf(t, w) \in plans
         /\ \A t \in Tasks : Fails(t)' => \E w \in Workers : FailureOf(t, w) \in plans
<1>1. \A d \in Commands : cmd[d].plan = <<>> /\ cmd[d].todo = {}
  BY DEF MayIssue, UnderWay
<1>2. /\ cmd'[c].plan = <<>> /\ cmd'[c].todo = plans
      /\ \A d \in Commands \ {c} : cmd'[d].plan = <<>> /\ cmd'[d].todo = {}
  BY <1>1 DEF Decides, IInv, TypeOK, CmdTypeOK
<1>3. OneCommand'
  BY <1>2 DEF OneCommand, UnderWay
<1>4. InHand'
  BY <1>2 DEF InHand
<1>5. \A t \in Tasks : ~Alerts(t)' /\ ~Alerts(t)
  BY <1>1, <1>2 DEF Alerts
<1>6. \A t \in Tasks : ~Releases(t) /\ ~Fails(t)
  BY <1>1 DEF Releases, Fails
<1>7. \A t \in Tasks : /\ Releases(t)' => \E w \in Workers : LeaseOf(t, w) \in plans
                       /\ Fails(t)' => \E w \in Workers : FailureOf(t, w) \in plans
  BY <1>2 DEF Releases, Fails
<1> QED BY <1>3, <1>4, <1>5, <1>6, <1>7

LEMMA CancelsCourteous ==
  ASSUME IInv, CInv, Polite, NEW c \in Commands,
         Stop(c) \/ \E w \in Workers : Interrupt(c, w)
  PROVE  CInv'
<1>1. PICK op, plans :
        /\ MayIssue(c, op) /\ Decides(c, plans)
        /\ \A p \in plans : \E t \in Tasks, w \in Workers \cup {None} : p = CancelOf(t, w)
        /\ \A p, q \in plans : p[1].task = q[1].task => p = q
  <2>1. CASE Stop(c)
    <3> DEFINE plans == {<<End(t, worker[t], "Cancelled")>> : t \in {x \in Tasks : Open(x)}}
    <3>1. MayIssue(c, "stop") /\ Decides(c, plans)
      BY <2>1 DEF Stop
    <3>2. \A p \in plans : \E t \in Tasks : p = CancelOf(t, worker[t]) /\ worker[t] \in Workers \cup {None}
      BY DEF CancelOf, IInv, TypeOK, LedgerTypeOK
    <3> HIDE DEF plans
    <3>3. \A p, q \in plans : p[1].task = q[1].task => p = q
      BY <3>2, CancelPlans
    <3> QED BY <3>1, <3>2, <3>3
  <2>2. ASSUME NEW w \in Workers, Interrupt(c, w)
        PROVE  \E op, plans :
                 /\ MayIssue(c, op) /\ Decides(c, plans)
                 /\ \A p \in plans : \E t \in Tasks, x \in Workers \cup {None} : p = CancelOf(t, x)
                 /\ \A p, q \in plans : p[1].task = q[1].task => p = q
    <3>1. PICK t \in Tasks : Decides(c, {CancelOf(t, w)})
      BY <2>2 DEF Interrupt, CancelOf
    <3>2. MayIssue(c, "interrupt")
      BY <2>2 DEF Interrupt
    <3> DEFINE plans == {CancelOf(t, w)}
    <3>3. Decides(c, plans) /\ (\A p \in plans : p = CancelOf(t, w)) /\ (\A p, q \in plans : p = q)
      BY <3>1
    <3> HIDE DEF plans
    <3> QED BY <3>2, <3>3
  <2> QED BY <2>1, <2>2
<1>2. UNCHANGED <<ledger, loop, restarts>>
  BY DEF Stop, Interrupt, history
<1>3. \A t \in Tasks, w \in Workers : LeaseOf(t, w) \notin plans /\ FailureOf(t, w) \notin plans
  BY <1>1, PlansDiffer
<1>4. /\ OneCommand' /\ InHand'
      /\ \A t \in Tasks : ~Alerts(t)' /\ ~Releases(t)' /\ ~Fails(t)'
  BY <1>1, <1>3, Decided
<1>5. LoopGone' = LoopGone /\ (loop'.pc = "done" => loop'.plan = <<>>)
      /\ \A t \in Tasks : LoopLeases(t)' = LoopLeases(t)
  BY <1>2 DEF LoopGone, LoopLeases, CInv, Unleased
<1> QED BY <1>2, <1>4, <1>5, CalmKeeps DEF ledger

LEMMA RestartCourteous ==
  ASSUME IInv, CInv, Polite, NEW c \in Commands, NEW w \in Workers, Restart(c, w)
  PROVE  CInv'
<1>1. PICK t \in Context(w) : Decides(c, {LeaseOf(t, w)})
  BY DEF Restart, LeaseOf
<1>2. t \in Tasks /\ MayIssue(c, "restart")
  BY DEF Context, Restart
<1> DEFINE plans == {LeaseOf(t, w)}
<1>3. Decides(c, plans) /\ (\A p \in plans : p = LeaseOf(t, w)) /\ (\A p, q \in plans : p = q)
  BY <1>1
<1> HIDE DEF plans
<1>4. \A u \in Tasks, x \in Workers : FailureOf(u, x) \notin plans
  BY <1>2, <1>3, PlansDiffer
<1>5. /\ OneCommand' /\ InHand'
      /\ \A u \in Tasks : ~Alerts(u)' /\ ~Fails(u)'
  BY <1>2, <1>3, <1>4, Decided
<1>6. UNCHANGED <<ledger, loop>> /\ restarts' = restarts + 1 /\ restarts \in Nat
  BY DEF Restart, IInv, TypeOK, HistoryTypeOK
<1>7. LoopGone' = LoopGone /\ \A u \in Tasks : LoopLeases(u)' = LoopLeases(u) /\ Allowed(u)' = Allowed(u)
  BY <1>6 DEF LoopGone, LoopLeases, Allowed
<1>8. Unleased'
  BY <1>6, <1>7 DEF CInv, Unleased, ledger
<1>9. Leases'
  <2>1. \A u \in Tasks : attempts[u] \in Nat /\ Allowed(u) \in Nat
    BY FleetBounds DEF IInv, TypeOK, LedgerTypeOK, Allowed
  <2>2. ASSUME NEW u \in Tasks
        PROVE  attempts[u] <= (restarts + 1) + Allowed(u) /\ attempts[u] + 1 <= (restarts + 1) + Allowed(u)
    <3>1. attempts[u] <= restarts + Allowed(u)
      BY DEF CInv, Leases
    <3> QED BY <1>6, <2>1, <3>1
  <2> QED BY <1>6, <1>7, <2>2 DEF Leases, ledger
<1>10. Resuming'
  BY <1>5 DEF Resuming
<1>11. Escalations'
  <2>1. \A u \in Tasks : alerts[u] \in Nat /\ alerts[u] <= 1 + restarts
    BY DEF IInv, TypeOK, LedgerTypeOK, CInv, Escalations
  <2> QED BY <1>6, <2>1 DEF Escalations, ledger
<1> QED BY <1>5, <1>8, <1>9, <1>10, <1>11 DEF CInv

LEMMA ResumeCourteous ==
  ASSUME IInv, CInv, Polite, NEW c \in Commands, Resume(c)
  PROVE  CInv'
<1> DEFINE plans == {RetryOrFail(t) : t \in Reclaimed}
<1>1. MayIssue(c, "resume") /\ Decides(c, plans) /\ LoopGone /\ UNCHANGED <<ledger, loop, restarts>>
  BY DEF Resume, history
<1>2. \A t \in Reclaimed : t \in Tasks /\ worker[t] \in Workers /\ status[t] = "Leased"
  BY DEF Reclaimed, IInv, LeasedHasWorker
<1>3. \A t \in Reclaimed :
        RetryOrFail(t) = IF attempts[t] < MaxAttempts[t] THEN LeaseOf(t, worker[t]) ELSE FailureOf(t, worker[t])
  BY DEF RetryOrFail, LeaseOf, FailureOf
<1>4. \A p \in plans : \E t \in Reclaimed :
        \/ p = LeaseOf(t, worker[t]) /\ attempts[t] < MaxAttempts[t]
        \/ p = FailureOf(t, worker[t])
  BY <1>3
<1>5. \A p, q \in plans : p[1].task = q[1].task => p = q
  <2>1. \A t \in Reclaimed : RetryOrFail(t)[1].task = t
    BY <1>2, <1>3, Plans
  <2> QED BY <2>1
<1> HIDE DEF plans
<1>6. /\ OneCommand' /\ InHand'
      /\ \A t \in Tasks : ~Alerts(t)'
      /\ \A t \in Tasks : Releases(t)' => \E w \in Workers : LeaseOf(t, w) \in plans
      /\ \A t \in Tasks : Fails(t)' => \E w \in Workers : FailureOf(t, w) \in plans
  <2>1. \A p \in plans : \E t \in Tasks :
           \/ \E w \in Workers \cup {None} : p = CancelOf(t, w)
           \/ \E w \in Workers : p = LeaseOf(t, w) \/ p = FailureOf(t, w)
    BY <1>2, <1>4
  <2> QED BY <1>1, <1>5, <2>1, Decided
<1>7. \A t \in Tasks, w \in Workers :
        /\ LeaseOf(t, w) \in plans => status[t] = "Leased" /\ attempts[t] < MaxAttempts[t]
        /\ FailureOf(t, w) \in plans => status[t] = "Leased"
  BY <1>2, <1>4, PlansDiffer
<1>8. LoopGone' /\ \A u \in Tasks : LoopLeases(u)' = LoopLeases(u) /\ Allowed(u)' = Allowed(u)
  BY <1>1 DEF LoopGone, LoopLeases, Allowed
<1>9. Unleased'
  BY <1>1, <1>8 DEF CInv, Unleased, ledger
<1>10. Leases'
  <2> SUFFICES ASSUME NEW t \in Tasks
               PROVE  /\ attempts[t] <= restarts + Allowed(t)
                      /\ Releases(t)' => attempts[t] + 1 <= restarts + Allowed(t)
    BY <1>1, <1>8 DEF Leases, ledger
  <2>1. attempts[t] <= restarts + Allowed(t)
    BY DEF CInv, Leases
  <2>2. ASSUME Releases(t)' PROVE attempts[t] + 1 <= restarts + Allowed(t)
    <3>1. attempts[t] < MaxAttempts[t]
      BY <1>6, <1>7, <2>2
    <3>2. attempts[t] \in Nat /\ restarts \in Nat /\ MaxAttempts[t] \in Nat
      BY FleetBounds DEF IInv, TypeOK, LedgerTypeOK, HistoryTypeOK
    <3>3. Allowed(t) = MaxAttempts[t]
      BY <1>1, <3>1, <3>2 DEF Allowed
    <3> QED BY <3>1, <3>2, <3>3
  <2> QED BY <2>1, <2>2
<1>11. Resuming'
  BY <1>6, <1>8 DEF Resuming
<1>12. Escalations'
  <2>1. \A t \in Tasks : Live(t)' => Live(t)
    BY <1>1, <1>6, <1>7, <1>8 DEF Live, Open, ledger
  <2> QED BY <1>1, <2>1 DEF CInv, Escalations, ledger
<1> QED BY <1>6, <1>9, <1>10, <1>11, <1>12 DEF CInv

(* What a command has left when it has begun with a plan. *)
LEMMA Begun ==
  ASSUME IInv, CInv, NEW c \in Commands, NEW p \in cmd[c].todo, NEW left, Polite, cmd[c].plan = <<>>,
         cmd' = [cmd EXCEPT ![c].plan = left, ![c].todo = @ \ {p}],
         \/ left = <<>>
         \/ \E w \in Workers : left = <<Beat(w)>>
         \/ \E t \in Tasks : left = <<Alert(t)>>
  PROVE  /\ OneCommand' /\ InHand'
         /\ \A t \in Tasks : Releases(t)' => Releases(t) /\ \A w \in Workers : p # LeaseOf(t, w)
         /\ \A t \in Tasks : Fails(t)' => Fails(t) /\ \A w \in Workers : p # FailureOf(t, w)
         /\ \A t \in Tasks : ~Alerts(t)
         /\ \A t \in Tasks : Alerts(t)' <=> left = <<Alert(t)>>
         /\ \A t \in Tasks, w \in Workers : p \in {LeaseOf(t, w), FailureOf(t, w)} => ~Releases(t)' /\ ~Fails(t)'
<1>1. /\ cmd'[c].plan = left /\ cmd'[c].todo = cmd[c].todo \ {p}
      /\ \A d \in Commands \ {c} : cmd'[d] = cmd[d]
  BY DEF IInv, TypeOK, CmdTypeOK
<1>2. \A d \in Commands \ {c} : cmd[d].plan = <<>> /\ cmd[d].todo = {}
  BY DEF CInv, OneCommand, UnderWay
<1>3. OneCommand'
  <2>1. ASSUME NEW d \in Commands, UnderWay(d)' PROVE d = c
    BY <1>1, <1>2, <2>1 DEF UnderWay
  <2> QED BY <2>1 DEF OneCommand
<1>4. InHand'
  <2>1. \A d \in Commands : cmd'[d].todo \subseteq cmd[d].todo
    BY <1>1
  <2>2. ASSUME NEW d \in Commands
        PROVE  /\ \A q \in cmd'[d].todo : \E t \in Tasks :
                    \/ \E w \in Workers \cup {None} : q = CancelOf(t, w)
                    \/ \E w \in Workers : q = LeaseOf(t, w) \/ q = FailureOf(t, w)
               /\ \A q, r \in cmd'[d].todo : q[1].task = r[1].task => q = r
    <3>1. \A q \in cmd[d].todo : \E t \in Tasks :
            \/ \E w \in Workers \cup {None} : q = CancelOf(t, w)
            \/ \E w \in Workers : q = LeaseOf(t, w) \/ q = FailureOf(t, w)
      BY DEF CInv, InHand
    <3>2. \A q, r \in cmd[d].todo : q[1].task = r[1].task => q = r
      BY DEF CInv, InHand
    <3>3. cmd'[d].todo \subseteq cmd[d].todo
      BY <2>1
    <3>4. \A q \in cmd'[d].todo : q \in cmd[d].todo
      BY <3>3
    <3>5. \A q \in cmd'[d].todo : \E t \in Tasks :
            \/ \E w \in Workers \cup {None} : q = CancelOf(t, w)
            \/ \E w \in Workers : q = LeaseOf(t, w) \/ q = FailureOf(t, w)
      BY <3>1, <3>4
    <3>6. \A q, r \in cmd'[d].todo : q[1].task = r[1].task => q = r
      BY <3>2, <3>4
    <3> QED BY <3>5, <3>6
  <2>3. \A d \in Commands :
          \/ cmd'[d].plan = <<>>
          \/ \E w \in Workers : cmd'[d].plan = <<Beat(w)>>
          \/ \E t \in Tasks : cmd'[d].plan = <<Alert(t)>>
    BY <1>1, <1>2
  <2> QED BY <2>2, <2>3 DEF InHand
<1>5. \A t \in Tasks : /\ Releases(t)' => \E w \in Workers : LeaseOf(t, w) \in cmd[c].todo \ {p}
                       /\ Fails(t)' => \E w \in Workers : FailureOf(t, w) \in cmd[c].todo \ {p}
                       /\ Alerts(t)' <=> left = <<Alert(t)>>
  <2>1. ASSUME NEW d \in Commands, NEW q, q \in cmd'[d].todo PROVE q \in cmd[c].todo \ {p}
    BY <1>1, <1>2, <2>1
  <2>2. \A t \in Tasks, d \in Commands : cmd'[d].plan = <<Alert(t)>> <=> d = c /\ left = <<Alert(t)>>
    <3>1. ASSUME NEW t \in Tasks, NEW d \in Commands \ {c} PROVE cmd'[d].plan # <<Alert(t)>>
      <4>1. cmd'[d].plan = <<>>
        BY <1>1, <1>2
      <4>2. <<>> # <<Alert(t)>>
        OBVIOUS
      <4> QED BY <4>1, <4>2
    <3> QED BY <1>1, <3>1
  <2>3. \A t \in Tasks : Alerts(t)' <=> left = <<Alert(t)>>
    BY <2>2 DEF Alerts
  <2> QED BY <2>1, <2>3 DEF Releases, Fails
<1>6. \A q \in cmd[c].todo : q[1].task = p[1].task => q = p
  BY DEF CInv, InHand
<1>7. ASSUME NEW t \in Tasks, NEW w \in Workers, p \in {LeaseOf(t, w), FailureOf(t, w)}
      PROVE  ~Releases(t)' /\ ~Fails(t)'
  BY <1>5, <1>6, <1>7, Plans
<1>8. \A t \in Tasks : ~Alerts(t)
  BY <1>2 DEF Alerts
<1> QED BY <1>3, <1>4, <1>5, <1>7, <1>8 DEF Releases, Fails

LEMMA BeginsCourteous ==
  ASSUME IInv, CInv, Polite, NEW c \in Commands, CmdBegins(c)
  PROVE  CInv'
<1>1. PICK p \in cmd[c].todo :
        Record(Head(p)) /\ cmd' = [cmd EXCEPT ![c].plan = Tail(p), ![c].todo = @ \ {p}]
  BY DEF CmdBegins
<1>2. cmd[c].plan = <<>> /\ UNCHANGED <<loop, restarts>>
  BY DEF CmdBegins, history
<1>3. LedgerTypeOK
  BY DEF IInv, TypeOK
<1>4. /\ LoopGone' = LoopGone /\ (loop'.pc = "done" => loop'.plan = <<>>)
      /\ \A t \in Tasks : LoopLeases(t)' = LoopLeases(t) /\ Allowed(t)' = Allowed(t)
  BY <1>2 DEF LoopGone, LoopLeases, Allowed, CInv, Unleased
<1>5. PICK t \in Tasks :
        \/ \E w \in Workers \cup {None} : p = CancelOf(t, w)
        \/ \E w \in Workers : p = LeaseOf(t, w) \/ p = FailureOf(t, w)
  BY DEF CInv, InHand
<1>h. p[1] \in Harmless /\ Head(p) = p[1]
  BY DEF IInv, CmdsHarmless
<1>6. ASSUME NEW w \in Workers \cup {None}, NEW s \in Ended, Head(p) = End(t, w, s)
      PROVE  /\ status' = [status EXCEPT ![t] = s] /\ UNCHANGED <<attempts, alerts>>
             /\ \A u \in Tasks : worker[u] = None => worker'[u] = None
  <2>1. Record(End(t, w, s))
    BY <1>1, <1>6
  <2>2. worker[t] = None => w = None
    BY <1>6, <1>h, WorkersAssumption DEF Harmless, End
  <2>3. worker[t] = None => worker'[t] = None
    BY <1>3, <2>1, <2>2 DEF Record, End, LedgerTypeOK
  <2> QED BY <1>3, <2>1, <2>3, RecordsEnd
<1>7. ASSUME NEW w \in Workers \cup {None}, p = CancelOf(t, w)
      PROVE  CInv'
  <2>1. Head(p) = End(t, w, "Cancelled") /\ Tail(p) = <<>> /\ "Cancelled" \in Ended
    BY <1>7, CancelPlans DEF Ended
  <2>2. /\ OneCommand' /\ InHand'
        /\ \A u \in Tasks : (Releases(u)' => Releases(u)) /\ (Fails(u)' => Fails(u)) /\ ~Alerts(u)'
    <3>1. \A u \in Tasks : <<>> # <<Alert(u)>>
      OBVIOUS
    <3> QED BY <1>1, <1>2, <2>1, <3>1, Begun
  <2>3. \A u \in Tasks : status'[u] = status[u] \/ status'[u] \in Ended
    BY <1>3, <1>6, <2>1 DEF LedgerTypeOK
  <2> QED BY <1>2, <1>4, <1>6, <2>1, <2>2, <2>3, CalmKeeps
<1>8. ASSUME NEW w \in Workers, p = FailureOf(t, w)
      PROVE  CInv'
  <2>1. Head(p) = End(t, w, "Failed") /\ Tail(p) = <<Alert(t)>> /\ "Failed" \in Ended
    BY <1>8, Plans DEF Ended
  <2>2. /\ OneCommand' /\ InHand'
        /\ \A u \in Tasks : (Releases(u)' => Releases(u)) /\ (Fails(u)' => Fails(u))
        /\ \A u \in Tasks : Alerts(u)' => u = t
        /\ ~Releases(t)' /\ ~Fails(t)'
    <3>1. p \in {LeaseOf(t, w), FailureOf(t, w)}
      BY <1>8
    <3>2. cmd' = [cmd EXCEPT ![c].plan = <<Alert(t)>>, ![c].todo = @ \ {p}]
      BY <1>1, <2>1
    <3> DEFINE left == <<Alert(t)>>
    <3>3. cmd' = [cmd EXCEPT ![c].plan = left, ![c].todo = @ \ {p}]
      BY <3>2
    <3>4. (\E x \in Workers : left = <<Beat(x)>>) \/ (\E u \in Tasks : left = <<Alert(u)>>)
      OBVIOUS
    <3>5. \A u \in Tasks : left = <<Alert(u)>> => u = t
      BY OneRecordPlans
    <3> HIDE DEF left
    <3> QED BY <1>2, <3>1, <3>3, <3>4, <3>5, Begun
  <2>3. /\ \A u \in Tasks : status'[u] = status[u] \/ status'[u] \in Ended
        /\ ~Open(t)'
    BY <1>3, <1>6, <2>1 DEF LedgerTypeOK, Open, Ended
  <2>4. Fails(t)
    BY <1>8 DEF Fails
  <2> QED BY <1>2, <1>4, <1>6, <2>1, <2>2, <2>3, <2>4, CalmKeeps
<1>9. ASSUME NEW w \in Workers, p = LeaseOf(t, w)
      PROVE  CInv'
  <2>1. Head(p) = Leased(t, w) /\ Tail(p) = <<Beat(w)>>
    BY <1>9, Plans
  <2>2. /\ OneCommand' /\ InHand'
        /\ \A u \in Tasks : (Releases(u)' => Releases(u)) /\ (Fails(u)' => Fails(u)) /\ ~Alerts(u)'
        /\ ~Releases(t)' /\ ~Fails(t)'
    <3>1. p \in {LeaseOf(t, w), FailureOf(t, w)}
      BY <1>9
    <3>2. cmd' = [cmd EXCEPT ![c].plan = <<Beat(w)>>, ![c].todo = @ \ {p}]
      BY <1>1, <2>1
    <3> DEFINE left == <<Beat(w)>>
    <3>3. cmd' = [cmd EXCEPT ![c].plan = left, ![c].todo = @ \ {p}]
      BY <3>2
    <3>4. (\E x \in Workers : left = <<Beat(x)>>) \/ (\E u \in Tasks : left = <<Alert(u)>>)
      OBVIOUS
    <3>5. \A u \in Tasks : left = <<Alert(u)>> => FALSE
      BY OneRecordPlans
    <3> HIDE DEF left
    <3> QED BY <1>2, <3>1, <3>3, <3>4, <3>5, Begun
  <2>3. worker[t] = w /\ ~LoopLeases(t) /\ status[t] # "Enqueued" /\ Releases(t)
    BY <1>9, ReleasesLeased DEF Releases
  <2>4. /\ status' = [status EXCEPT ![t] = "Leased"] /\ worker' = [worker EXCEPT ![t] = w]
        /\ attempts' = [attempts EXCEPT ![t] = @ + 1] /\ alerts' = alerts
    BY <1>1, <1>3, <2>1, RecordsLease
  <2>5. /\ status'[t] = "Leased" /\ attempts'[t] = attempts[t] + 1
        /\ \A u \in Tasks \ {t} : status'[u] = status[u] /\ attempts'[u] = attempts[u]
        /\ \A u \in Tasks : worker'[u] = worker[u]
    BY <1>3, <2>3, <2>4 DEF LedgerTypeOK
  <2>6. Unleased'
    BY <1>4, <2>3, <2>5 DEF CInv, Unleased
  <2>7. Leases'
    BY <1>2, <1>4, <2>2, <2>3, <2>5 DEF CInv, Leases
  <2>8. Resuming'
    BY <1>4, <2>2 DEF CInv, Resuming
  <2>9. Escalations'
    <3>1. \A u \in Tasks : Live(u)' => Live(u)
      BY <1>4, <2>2, <2>3, <2>5 DEF Live, Open
    <3> QED BY <1>2, <2>4, <3>1 DEF CInv, Escalations
  <2> QED BY <2>2, <2>6, <2>7, <2>8, <2>9 DEF CInv
<1> QED BY <1>5, <1>7, <1>8, <1>9

LEMMA AppendsCourteous ==
  ASSUME IInv, CInv, Polite, NEW c \in Commands, CmdAppend(c) \/ CmdDies(c)
  PROVE  CInv'
<1>1. /\ UNCHANGED <<loop, restarts>> /\ UnderWay(c) /\ LedgerTypeOK
      /\ \A d \in Commands \ {c} : cmd[d].plan = <<>> /\ cmd[d].todo = {}
  <2>1. UnderWay(c)
    BY DEF CmdAppend, CmdDies, UnderWay
  <2> QED BY <2>1 DEF CmdAppend, CmdDies, history, CInv, OneCommand, UnderWay, IInv, TypeOK
<1>2. /\ LoopGone' = LoopGone /\ (loop'.pc = "done" => loop'.plan = <<>>)
      /\ \A t \in Tasks : LoopLeases(t)' = LoopLeases(t) /\ Allowed(t)' = Allowed(t)
  BY <1>1 DEF LoopGone, LoopLeases, Allowed, CInv, Unleased
<1>3. ASSUME cmd'[c].plan = <<>>, cmd'[c].todo \subseteq cmd[c].todo,
             \A d \in Commands \ {c} : cmd'[d] = cmd[d]
      PROVE  /\ OneCommand' /\ InHand'
             /\ \A t \in Tasks : (Releases(t)' => Releases(t)) /\ (Fails(t)' => Fails(t)) /\ ~Alerts(t)'
  <2>1. OneCommand'
    BY <1>1, <1>3 DEF OneCommand, UnderWay
  <2>2. InHand'
    BY <1>3 DEF CInv, InHand
  <2>3. \A t \in Tasks : (Releases(t)' => Releases(t)) /\ (Fails(t)' => Fails(t))
    BY <1>1, <1>3 DEF Releases, Fails
  <2>4. \A t \in Tasks : ~Alerts(t)'
    <3>1. \A t \in Tasks : <<>> # <<Alert(t)>>
      OBVIOUS
    <3> QED BY <1>1, <1>3, <3>1 DEF Alerts
  <2> QED BY <2>1, <2>2, <2>3, <2>4
<1>4. CASE CmdDies(c)
  <2>1. /\ cmd'[c].plan = <<>> /\ cmd'[c].todo = {}
        /\ \A d \in Commands \ {c} : cmd'[d] = cmd[d]
        /\ UNCHANGED <<status, worker, attempts, alerts>>
    BY <1>4 DEF CmdDies, ledger, IInv, TypeOK, CmdTypeOK
  <2> QED BY <1>1, <1>2, <1>3, <2>1, CalmKeeps
<1>5. ASSUME CmdAppend(c), NEW w \in Workers, cmd[c].plan = <<Beat(w)>>
      PROVE  CInv'
  <2>1. /\ cmd'[c].plan = <<>> /\ cmd'[c].todo = cmd[c].todo
        /\ \A d \in Commands \ {c} : cmd'[d] = cmd[d]
    BY <1>5, OneRecordPlans DEF CmdAppend, IInv, TypeOK, CmdTypeOK
  <2>2. UNCHANGED <<status, worker, attempts, alerts>>
    BY <1>1, <1>5, RecordsBeat DEF CmdAppend
  <2> QED BY <1>1, <1>2, <1>3, <2>1, <2>2, CalmKeeps
<1>6. ASSUME CmdAppend(c), NEW t \in Tasks, cmd[c].plan = <<Alert(t)>>
      PROVE  CInv'
  <2>1. /\ cmd'[c].plan = <<>> /\ cmd'[c].todo = cmd[c].todo
        /\ \A d \in Commands \ {c} : cmd'[d] = cmd[d]
    BY <1>6 DEF CmdAppend, IInv, TypeOK, CmdTypeOK
  <2>2. UNCHANGED <<status, worker, attempts>> /\ alerts' = [alerts EXCEPT ![t] = @ + 1]
    BY <1>1, <1>6, RecordsAlert DEF CmdAppend
  <2>3. Alerts(t)
    BY <1>6 DEF Alerts
  <2>4. LoopGone /\ ~Open(t) /\ ~Releases(t) /\ ~Fails(t)
    BY <2>3 DEF CInv, Resuming
  <2>5. ~LoopLeases(t)
    BY <2>4, Plans DEF CInv, Unleased, LoopGone, LoopLeases
  <2>6. /\ OneCommand' /\ InHand'
        /\ \A u \in Tasks : (Releases(u)' => Releases(u)) /\ (Fails(u)' => Fails(u)) /\ ~Alerts(u)'
    BY <1>3, <2>1
  <2>7. Unleased'
    BY <1>2, <2>2 DEF CInv, Unleased
  <2>8. Leases'
    BY <1>1, <1>2, <2>2, <2>6 DEF CInv, Leases
  <2>9. Resuming'
    BY <1>2, <2>6 DEF CInv, Resuming
  <2>10. Escalations'
    <3>1. \A u \in Tasks : Open(u)' = Open(u)
      BY <2>2 DEF Open
    <3>2. \A u \in Tasks : Live(u)' => Live(u) /\ u # t
      BY <1>2, <2>4, <2>5, <2>6, <3>1 DEF Live
    <3>3. alerts[t] <= restarts /\ alerts[t] \in Nat /\ restarts \in Nat
      BY <1>1, <2>3 DEF CInv, Escalations, Live, LedgerTypeOK, IInv, TypeOK, HistoryTypeOK
    <3>4. alerts'[t] = alerts[t] + 1 /\ \A u \in Tasks \ {t} : alerts'[u] = alerts[u]
      BY <1>1, <2>2 DEF LedgerTypeOK
    <3>5. \A u \in Tasks : alerts'[u] <= 1 + restarts
      BY <3>3, <3>4 DEF CInv, Escalations
    <3> QED BY <1>1, <3>2, <3>4, <3>5 DEF CInv, Escalations
  <2> QED BY <2>6, <2>7, <2>8, <2>9, <2>10 DEF CInv
<1>7. CmdAppend(c) => cmd[c].plan # <<>>
  BY DEF CmdAppend
<1> QED BY <1>4, <1>5, <1>6, <1>7 DEF CInv, InHand

LEMMA CourtesyKeeps == IInv /\ CInv /\ Polite /\ [Next]_vars => CInv'
<1> SUFFICES ASSUME IInv, CInv, Polite, [Next]_vars PROVE CInv'
  OBVIOUS
<1>1. ASSUME NEW c \in Commands, CmdStep(c) PROVE CInv'
  BY <1>1, CancelsCourteous, RestartCourteous, ResumeCourteous, BeginsCourteous, AppendsCourteous
     DEF CmdStep
<1> QED BY <1>1, LoopCourteous DEF Next

LEMMA CourtesyInit == Init => CInv
<1> SUFFICES ASSUME Init PROVE CInv
  OBVIOUS
<1>1. \A c \in Commands : cmd[c].plan = <<>> /\ cmd[c].todo = {}
  BY DEF Init
<1>2. OneCommand /\ InHand
  BY <1>1 DEF OneCommand, UnderWay, InHand
<1>3. \A t \in Tasks : /\ ~Releases(t) /\ ~Fails(t) /\ ~Alerts(t) /\ ~LoopLeases(t)
                       /\ attempts[t] = 0 /\ worker[t] = None /\ alerts[t] = 0
  <2>1. \A t \in Tasks, w \in Workers : <<>> # LeaseOf(t, w) /\ <<>> # <<Alert(t)>>
    BY Plans
  <2>2. loop.plan = <<>>
    BY DEF Init
  <2> QED BY <1>1, <2>1, <2>2 DEF Init, Releases, Fails, Alerts, LoopLeases
<1>4. Unleased /\ Resuming
  BY <1>3 DEF Init, Unleased, Resuming
<1>5. Leases
  <2>1. restarts = 0 /\ \A t \in Tasks : Allowed(t) \in Nat \ {0}
    BY FleetBounds DEF Init, Allowed
  <2> QED BY <1>3, <2>1 DEF Leases
<1>6. Escalations
  BY <1>3 DEF Init, Escalations
<1> QED BY <1>2, <1>4, <1>5, <1>6 DEF CInv

(* The leases of a task stay within its retry policy but for the restarts  *)
(* the operator asked for, through deaths of the loop and of commands in   *)
(* the middle of their records (retry_or_fail, scheduler.rs 239-270), for  *)
(* commands that come one at a time.                                       *)
THEOREM BudgetCorrect == Spec => []WithinBudget
<1>1. Init => IInv /\ (Polite => CInv)
  BY InitInv, CourtesyInit
<1>2. IInv /\ (Polite => CInv) /\ [Next]_vars => IInv' /\ (Polite => CInv)'
  BY StepKeeps, CourtesyKeeps
<1>3. IInv /\ (Polite => CInv) => WithinBudget
  <2> SUFFICES ASSUME IInv, CInv, NEW t \in Tasks
               PROVE  attempts[t] <= restarts + (IF MaxAttempts[t] = 0 THEN 1 ELSE MaxAttempts[t])
    BY DEF WithinBudget
  <2>1. attempts[t] <= restarts + Allowed(t) /\ attempts[t] \in Nat /\ restarts \in Nat
    BY DEF CInv, Leases, IInv, TypeOK, LedgerTypeOK, HistoryTypeOK
  <2> QED BY <2>1, FleetBounds DEF Allowed
<1> QED BY <1>1, <1>2, <1>3, PTL DEF Spec

(* A task that fails for good is escalated once for every time it could    *)
(* be run: "a terminally failed task is never failed or escalated twice"   *)
(* (resume_run, scheduler.rs 80-92), for commands that come one at a time. *)
THEOREM EscalatedCorrect == Spec => []EscalatedOnce
<1>1. Init => IInv /\ (Polite => CInv)
  BY InitInv, CourtesyInit
<1>2. IInv /\ (Polite => CInv) /\ [Next]_vars => IInv' /\ (Polite => CInv)'
  BY StepKeeps, CourtesyKeeps
<1>3. (Polite => CInv) => EscalatedOnce
  BY DEF EscalatedOnce, CInv, Escalations
<1> QED BY <1>1, <1>2, <1>3, PTL DEF Spec

-----------------------------------------------------------------------------
(* Subprocesses.  While exits are their own task's, a lease that was used  *)
(* for a subprocess is used up: its worker id stands for that subprocess   *)
(* until the exit is decided on, and then the loop ends the task.          *)

Runs(t) == Tracked(worker[t]) /\ proc[worker[t]].task = t

Occupied(t) ==
  Runs(t) \/ (loop.plan # <<>> /\ Head(loop.plan).kind = "ended" /\ Head(loop.plan).task = t)

Visited(t) == loop.pc = "start" /\ t \in loop.todo

Starts == OwnExit /\ loop.pc # "crashed" =>
  \A t \in Tasks :
    /\ starts[t] <= attempts[t]
    /\ status[t] = "Leased" /\ starts[t] = attempts[t] => Occupied(t)
    /\ Visited(t) => worker[t] \in Workers /\ (starts[t] = attempts[t] => Runs(t))

StartsBounded == OwnExit => \A t \in Tasks : starts[t] <= 1 + restarts

(* Steps that start nothing and take no exit. *)
LEMMA StartsIdle ==
  ASSUME Starts, UNCHANGED <<status, worker, attempts, proc, starts, outcomeOf>>,
         loop.plan = <<>> \/ loop'.plan = loop.plan,
         loop'.pc # "crashed" => loop.pc # "crashed",
         \A t \in Tasks : Visited(t)' => Visited(t)
  PROVE  Starts'
<1>1. \A t \in Tasks : Occupied(t) => Occupied(t)'
  BY DEF Occupied, Runs, Tracked
<1> QED BY <1>1 DEF Starts, OwnExit, Runs, Tracked

LEMMA StartsRecords ==
  ASSUME IInv, Starts, Stays, NEW r \in Records, Record(r),
         UNCHANGED <<proc, starts, outcomeOf>>,
         \/ loop'.plan = loop.plan
         \/ loop.plan # <<>> /\ r = Head(loop.plan),
         loop'.pc = loop.pc, loop'.todo = loop.todo
  PROVE  Starts'
<1> SUFFICES ASSUME OwnExit, loop.pc # "crashed", NEW t \in Tasks
             PROVE  /\ starts[t] <= attempts'[t]
                    /\ status'[t] = "Leased" /\ starts[t] = attempts'[t] => Occupied(t)'
                    /\ Visited(t) => worker'[t] \in Workers /\ (starts[t] = attempts'[t] => Runs(t)')
  BY DEF Starts, OwnExit, Visited
<1>1. /\ starts[t] <= attempts[t] /\ starts[t] \in Nat /\ attempts[t] \in Nat
      /\ status[t] = "Leased" /\ starts[t] = attempts[t] => Occupied(t)
      /\ Visited(t) => worker[t] \in Workers /\ (starts[t] = attempts[t] => Runs(t))
  BY DEF Starts, IInv, TypeOK, LedgerTypeOK, HistoryTypeOK
<1>2. CASE r.kind = "leased" /\ r.task = t
  <2>1. attempts'[t] = attempts[t] + 1
    BY <1>2 DEF Record, IInv, TypeOK, LedgerTypeOK
  <2> QED BY <1>1, <2>1, WorkersAssumption DEF Stays
<1>3. CASE ~(r.kind = "leased" /\ r.task = t)
  <2>1. attempts'[t] = attempts[t] /\ (status'[t] = "Leased" => status[t] = "Leased")
    BY <1>3, RecordKinds DEF Record, IInv, TypeOK, LedgerTypeOK, Ended
  <2>2. worker[t] \in Workers => worker'[t] = worker[t]
    BY WorkersAssumption DEF Stays
  <2>3. worker[t] \in Workers => Runs(t)' = Runs(t)
    BY <2>2 DEF Runs, Tracked
  <2>4. status[t] = "Leased" => worker[t] \in Workers
    BY DEF IInv, LeasedHasWorker
  <2>5. ASSUME status'[t] = "Leased", Occupied(t), ~Runs(t)
        PROVE  Occupied(t)'
    <3>1. CASE loop'.plan = loop.plan
      BY <2>5, <3>1 DEF Occupied
    <3>2. CASE loop.plan # <<>> /\ r = Head(loop.plan)
      <4>1. r.kind = "ended" /\ r.task = t
        BY <2>5, <3>2 DEF Occupied
      <4>2. status'[t] = r.value /\ r.value \in Ended
        BY <4>1, RecordKinds DEF Record, IInv, TypeOK, LedgerTypeOK
      <4> QED BY <2>5, <4>2 DEF Ended
    <3> QED BY <3>1, <3>2
  <2>6. Runs(t)' => Occupied(t)'
    BY DEF Occupied
  <2> QED BY <1>1, <2>1, <2>2, <2>3, <2>4, <2>5, <2>6
<1> QED BY <1>2, <1>3

(* The loop starts a subprocess. *)
LEMMA StartsOne ==
  ASSUME IInv, Starts, NEW t \in Tasks, StartProc(t)
  PROVE  Starts' /\ (OwnExit' => starts'[t] <= attempts[t])
<1>1. /\ loop.pc = "start" /\ loop.plan = <<>> /\ t \in loop.todo /\ ~Tracked(worker[t])
      /\ proc' = [proc EXCEPT ![worker[t]] = [task |-> t, state |-> "running"]]
      /\ starts' = [starts EXCEPT ![t] = @ + 1]
      /\ loop' = [loop EXCEPT !.todo = @ \ {t}]
      /\ UNCHANGED <<status, worker, attempts, outcomeOf>>
  BY DEF StartProc, At, ledger
<1>2. loop'.pc = "start" /\ loop'.plan = <<>> /\ t \notin loop'.todo /\ loop'.todo \subseteq loop.todo
  BY <1>1 DEF IInv, TypeOK, LoopTypeOK
<1> SUFFICES ASSUME OwnExit PROVE Starts' /\ starts'[t] <= attempts[t]
  BY <1>1, <1>2 DEF Starts, OwnExit
<1>3. \A u \in Tasks :
        /\ starts[u] <= attempts[u] /\ starts[u] \in Nat /\ attempts[u] \in Nat
        /\ status[u] = "Leased" /\ starts[u] = attempts[u] => Runs(u)
        /\ u \in loop.todo => worker[u] \in Workers /\ (starts[u] = attempts[u] => Runs(u))
  BY <1>1 DEF Starts, IInv, TypeOK, LedgerTypeOK, HistoryTypeOK, Visited, Occupied
<1>4. worker[t] \in Workers /\ starts[t] # attempts[t]
  BY <1>1, <1>3 DEF Runs
<1>5. starts'[t] = starts[t] + 1 /\ \A u \in Tasks \ {t} : starts'[u] = starts[u]
  BY <1>1 DEF IInv, TypeOK, HistoryTypeOK
<1>6. proc'[worker[t]] = [task |-> t, state |-> "running"]
      /\ \A w \in Workers \ {worker[t]} : proc'[w] = proc[w]
  BY <1>1, <1>4 DEF IInv, TypeOK, LoopTypeOK
<1>7. Runs(t)'
  BY <1>1, <1>6 DEF Runs, Tracked, NoProc
<1>8. ASSUME NEW u \in Tasks, Runs(u), worker[u] \in Workers PROVE Runs(u)'
  BY <1>1, <1>6, <1>8 DEF Runs, Tracked
<1>9. \A u \in Tasks : status[u] = "Leased" => worker[u] \in Workers
  BY DEF IInv, LeasedHasWorker
<1>10. starts'[t] <= attempts[t]
  BY <1>3, <1>4, <1>5
<1>11. ASSUME NEW u \in Tasks
       PROVE  /\ starts'[u] <= attempts[u]
              /\ status[u] = "Leased" /\ starts'[u] = attempts[u] => Runs(u)'
              /\ Visited(u)' => worker[u] \in Workers /\ (starts'[u] = attempts[u] => Runs(u)')
  <2>1. CASE u = t
    BY <1>4, <1>7, <1>10, <2>1
  <2>2. CASE u # t
    <3>1. starts'[u] = starts[u]
      BY <1>5, <2>2
    <3>2. Visited(u)' => u \in loop.todo
      BY <1>2 DEF Visited
    <3> QED BY <1>3, <1>8, <1>9, <3>1, <3>2
  <2> QED BY <2>1, <2>2
<1> QED BY <1>1, <1>10, <1>11 DEF Starts, Occupied

(* The loop takes an exit for the outcome of a task, its own. *)
LEMMA StartsExit ==
  ASSUME IInv, Starts, NEW w \in Workers, PollExited(w)
  PROVE  Starts' /\ (OwnExit' => OwnExit)
<1>1. /\ loop.pc = "poll" /\ loop.plan = <<>>
      /\ proc' = [proc EXCEPT ![w] = NoProc] /\ proc[w].state \in {"ok", "bad"}
      /\ UNCHANGED <<status, worker, attempts, starts>>
  BY DEF PollExited, At, ledger
<1>2. PICK t \in Context(w) \cup {x \in {None} : Context(w) = {}} :
        IF t # None /\ status[t] = "Leased"
        THEN /\ \E v \in Verdicts(t, proc[w].state) :
                 loop' = [loop EXCEPT !.todo = @ \ {w}, !.plan = Outcome(t, w, proc[w].state, v)]
             /\ outcomeOf' = [outcomeOf EXCEPT ![t] = @ \cup {proc[w].task}]
        ELSE loop' = [loop EXCEPT !.todo = @ \ {w}] /\ UNCHANGED outcomeOf
  BY DEF PollExited
<1>3. t # None => t \in Context(w) /\ t \in Tasks
  BY DEF Context
<1>4. OwnExit' => OwnExit
  <2>1. \A u \in Tasks : outcomeOf[u] \subseteq outcomeOf'[u]
    BY <1>2, <1>3 DEF IInv, TypeOK, HistoryTypeOK
  <2> QED BY <2>1 DEF OwnExit
<1>5. loop'.pc = "poll"
  BY <1>1, <1>2 DEF IInv, TypeOK, LoopTypeOK
<1> SUFFICES ASSUME OwnExit' PROVE Starts'
  BY <1>4 DEF Starts
<1>6. ASSUME NEW u \in Tasks, status[u] = "Leased", starts[u] = attempts[u]
      PROVE  Occupied(u)'
  <2>1. Runs(u) /\ worker[u] \in Workers
    BY <1>1, <1>4, <1>6 DEF Starts, Occupied, IInv, LeasedHasWorker
  <2>2. CASE worker[u] # w
    BY <1>1, <2>1, <2>2 DEF Occupied, Runs, Tracked, IInv, TypeOK, LoopTypeOK
  <2>3. CASE worker[u] = w
    <3>1. proc[w].task = u
      BY <2>1, <2>3 DEF Runs
    <3>2. Active(u, w) /\ Busy(w)
      BY <1>6, <2>3 DEF Active, Busy
    <3>3. t \in Context(w) /\ Active(t, w)
      BY <1>2, <3>2 DEF Context
    <3>4. t \in Tasks /\ status[t] = "Leased" /\ t # None
      BY <3>3, TasksAssumption DEF Context, Active
    <3>5. outcomeOf' = [outcomeOf EXCEPT ![t] = @ \cup {u}]
      BY <1>2, <3>1, <3>4
    <3>6. u \in outcomeOf'[t]
      BY <3>4, <3>5 DEF IInv, TypeOK, HistoryTypeOK
    <3>7. u = t
      BY <3>4, <3>6 DEF OwnExit
    <3>8. PICK v \in Verdicts(t, proc[w].state) :
            loop' = [loop EXCEPT !.todo = @ \ {w}, !.plan = Outcome(t, w, proc[w].state, v)]
      BY <1>2, <3>4
    <3>9. loop'.plan = Outcome(t, w, proc[w].state, v)
      BY <3>8 DEF IInv, TypeOK, LoopTypeOK
    <3> QED BY <1>1, <3>4, <3>7, <3>9, OutcomeBegins DEF Occupied
  <2> QED BY <2>2, <2>3
<1> QED BY <1>1, <1>4, <1>5, <1>6 DEF Starts, Visited

LEMMA StartsKeep ==
  ASSUME IInv, Starts, [Next]_vars
  PROVE  Starts' /\ (OwnExit' => OwnExit)
<1>l. LoopTypeOK
  BY DEF IInv, TypeOK
<1>1. ASSUME UNCHANGED <<status, worker, attempts, proc, starts, outcomeOf>>,
             loop.plan = <<>> \/ loop'.plan = loop.plan,
             loop'.pc # "crashed" => loop.pc # "crashed",
             loop'.pc = "start" => loop.pc = "start" /\ loop'.todo \subseteq loop.todo
      PROVE  Starts' /\ (OwnExit' => OwnExit)
  <2>1. \A t \in Tasks : Visited(t)' => Visited(t)
    BY <1>1 DEF Visited
  <2> QED BY <1>1, <2>1, StartsIdle DEF OwnExit
<1>2. CASE BeatForBusy \/ PickNone \/ StartDone \/ TestOpen
  <2>1. /\ loop.plan = <<>> /\ loop.pc # "crashed" /\ loop'.pc # "start"
        /\ UNCHANGED <<status, worker, attempts, proc, starts, outcomeOf>>
    BY <1>2, <1>l DEF BeatForBusy, PickNone, StartDone, TestOpen, At, ledger, history, LoopTypeOK
  <2> QED BY <1>1, <2>1
<1>3. ASSUME NEW w \in Workers, PollRunning(w) \/ \E t \in Tasks : Pick(w, t)
      PROVE  Starts' /\ (OwnExit' => OwnExit)
  <2>1. /\ loop.plan = <<>> /\ loop.pc # "crashed" /\ loop'.pc # "start"
        /\ UNCHANGED <<status, worker, attempts, proc, starts, outcomeOf>>
    BY <1>3, <1>l DEF PollRunning, Pick, At, ledger, history, LoopTypeOK
  <2> QED BY <1>1, <2>1
<1>4. ASSUME NEW t \in Tasks, StartSkips(t) \/ StartFails(t)
      PROVE  Starts' /\ (OwnExit' => OwnExit)
  <2>1. /\ loop.plan = <<>> /\ loop.pc = "start" /\ loop'.todo \subseteq loop.todo
        /\ UNCHANGED <<status, worker, attempts, proc, starts, outcomeOf>>
    BY <1>4, <1>l DEF StartSkips, StartFails, At, ledger, history, LoopTypeOK
  <2> QED BY <1>1, <2>1
<1>5. CASE Spawn
  <2>1. /\ loop.plan = <<>> /\ loop.pc = "spawn" /\ loop'.plan = <<>>
        /\ loop'.todo = {t \in Tasks : status[t] = "Leased"}
        /\ UNCHANGED <<status, worker, attempts, proc, starts, outcomeOf>>
    BY <1>5, <1>l DEF Spawn, At, ledger, history, LoopTypeOK
  <2>2. \A t \in Tasks : Visited(t)' => status[t] = "Leased" /\ worker[t] \in Workers
    BY <2>1 DEF Visited, IInv, LeasedHasWorker
  <2> QED BY <2>1, <2>2 DEF Starts, OwnExit, Occupied, Runs, Tracked
<1>6. ASSUME NEW w \in Workers, PollExited(w) PROVE Starts' /\ (OwnExit' => OwnExit)
  BY <1>6, StartsExit
<1>7. ASSUME NEW t \in Tasks, StartProc(t) PROVE Starts' /\ (OwnExit' => OwnExit)
  BY <1>7, StartsOne DEF StartProc, OwnExit
<1>8. CASE LoopCrash
  BY <1>8, <1>l DEF LoopCrash, Starts, OwnExit, history, LoopTypeOK
<1>9. ASSUME NEW w \in Workers, Exit(w) PROVE Starts' /\ (OwnExit' => OwnExit)
  <2>1. /\ UNCHANGED <<status, worker, attempts, loop, starts, outcomeOf>>
        /\ proc[w].state = "running"
        /\ \E e \in {"ok", "bad"} : proc' = [proc EXCEPT ![w].state = e]
    BY <1>9 DEF Exit, ledger, history
  <2>2. /\ \A x \in Workers : proc'[x].task = proc[x].task
        /\ \A x \in Workers : Tracked(x) => Tracked(x)'
    <3>1. PICK e \in {"ok", "bad"} : proc' = [proc EXCEPT ![w].state = e]
      BY <2>1
    <3>2. proc'[w].state = e /\ proc'[w].task = proc[w].task
      BY <1>l, <3>1 DEF LoopTypeOK
    <3>3. \A x \in Workers \ {w} : proc'[x] = proc[x]
      BY <1>l, <3>1 DEF LoopTypeOK
    <3>4. Tracked(w)'
      BY <3>2 DEF Tracked, NoProc
    <3> QED BY <3>2, <3>3, <3>4 DEF Tracked
  <2>3. \A t \in Tasks : worker[t] \in Workers /\ Runs(t) => Runs(t)'
    BY <2>1, <2>2 DEF Runs
  <2>4. \A t \in Tasks : status[t] = "Leased" => worker[t] \in Workers
    BY DEF IInv, LeasedHasWorker
  <2> QED BY <2>1, <2>3, <2>4 DEF Starts, OwnExit, Occupied, Visited
<1>10. ASSUME NEW w \in Workers, Age(w) PROVE Starts' /\ (OwnExit' => OwnExit)
  BY <1>1, <1>10 DEF Age, history
<1>11. CASE LoopAppend
  <2>1. Stays /\ Head(loop.plan) \in Records /\ Record(Head(loop.plan)) /\ loop.plan # <<>>
    BY <1>11, AppendKeeps, AppendTypes DEF LoopAppend
  <2>2. /\ UNCHANGED <<proc, starts, outcomeOf>> /\ loop'.pc = loop.pc /\ loop'.todo = loop.todo
    BY <1>11, <1>l DEF LoopAppend, history, LoopTypeOK
  <2> QED BY <2>1, <2>2, StartsRecords DEF OwnExit
<1>12. ASSUME NEW c \in Commands, CmdBegins(c) \/ CmdAppend(c)
       PROVE  Starts' /\ (OwnExit' => OwnExit)
  <2>1. PICK r \in Records : Record(r)
    <3>1. \A p \in Seq(Harmless) : p # <<>> => Head(p) \in Records
      BY DEF Harmless
    <3> QED BY <1>12, <3>1 DEF CmdBegins, CmdAppend, IInv, CmdsHarmless
  <2>2. Stays /\ UNCHANGED <<loop, proc, starts, outcomeOf>>
    BY <1>12, CmdKeeps DEF CmdStep, CmdBegins, CmdAppend, history
  <2> QED BY <2>1, <2>2, StartsRecords DEF OwnExit
<1>13. ASSUME NEW c \in Commands,
              Stop(c) \/ Resume(c) \/ CmdDies(c) \/ \E w \in Workers : Interrupt(c, w) \/ Restart(c, w)
       PROVE  Starts' /\ (OwnExit' => OwnExit)
  <2>1. UNCHANGED <<ledger, loop, proc, starts, outcomeOf>>
    BY <1>13 DEF Stop, Resume, CmdDies, Interrupt, Restart, history
  <2> QED BY <1>1, <2>1 DEF ledger
<1>14. CASE UNCHANGED vars
  BY <1>1, <1>14 DEF vars, ledger, history
<1> QED BY <1>2, <1>3, <1>4, <1>5, <1>6, <1>7, <1>8, <1>9, <1>10, <1>11, <1>12, <1>13, <1>14
    DEF Next, LoopStep, CmdStep

(* Restarts are only added, and only StartProc starts. *)
LEMMA BoundKeeps ==
  ASSUME IInv, CInv, Polite, Starts, StartsBounded, [Next]_vars
  PROVE  StartsBounded'
<1>1. OwnExit' => OwnExit
  BY StartsKeep
<1>2. CASE \E t \in Tasks : StartProc(t)
  <2>1. PICK t \in Tasks : StartProc(t)
    BY <1>2
  <2>2. /\ starts' = [starts EXCEPT ![t] = @ + 1] /\ restarts' = restarts /\ ~LoopGone
    BY <2>1 DEF StartProc, At, LoopGone
  <2>3. OwnExit' => starts'[t] <= attempts[t]
    BY <2>1, StartsOne
  <2>4. attempts[t] <= restarts + 1
    BY <2>2 DEF CInv, Leases, Allowed
  <2>5. \A u \in Tasks : /\ u # t => starts'[u] = starts[u]
                         /\ starts'[u] \in Nat /\ attempts[u] \in Nat /\ restarts \in Nat
    BY <2>2 DEF IInv, TypeOK, HistoryTypeOK, LedgerTypeOK
  <2> QED BY <1>1, <2>2, <2>3, <2>4, <2>5 DEF StartsBounded
<1>3. CASE ~\E t \in Tasks : StartProc(t)
  <2>1. starts' = starts /\ (restarts' = restarts \/ restarts' = restarts + 1)
    <3>1. LoopStep => UNCHANGED <<starts, restarts>>
      BY <1>3 DEF LoopStep, LoopAppend, BeatForBusy, PickNone, Spawn, StartDone, TestOpen, PollRunning,
                  PollExited, Pick, StartSkips, StartFails, history
    <3>2. LoopCrash \/ (\E w \in Workers : Exit(w) \/ Age(w)) => UNCHANGED <<starts, restarts>>
      BY DEF LoopCrash, Exit, Age, history
    <3>3. ASSUME NEW c \in Commands, CmdStep(c)
          PROVE  starts' = starts /\ (restarts' = restarts \/ restarts' = restarts + 1)
      BY <3>3 DEF CmdStep, Stop, Resume, CmdBegins, CmdAppend, CmdDies, Interrupt, Restart, history
    <3> QED BY <3>1, <3>2, <3>3 DEF Next, vars, history
  <2>2. restarts \in Nat /\ \A t \in Tasks : starts[t] \in Nat
    BY DEF IInv, TypeOK, HistoryTypeOK
  <2> QED BY <1>1, <2>1, <2>2 DEF StartsBounded
<1> QED BY <1>2, <1>3

(* As long as exits are their own task's, a subprocess is started for a    *)
(* task once and once more for each restart, though the loop visits the    *)
(* leased tasks of a fold that commands go on changing                     *)
(* (start_leased_workers, manager.rs 765-839).                             *)
THEOREM StartedCorrect == Spec => []StartedOnce
<1> DEFINE SInv == IInv /\ Starts /\ (Polite => CInv /\ StartsBounded)
<1>1. Init => SInv
  <2> SUFFICES ASSUME Init PROVE SInv
    OBVIOUS
  <2>1. Starts /\ StartsBounded
    BY DEF Init, Starts, StartsBounded, Visited
  <2> QED BY <2>1, InitInv, CourtesyInit
<1>2. SInv /\ [Next]_vars => SInv'
  BY StepKeeps, CourtesyKeeps, StartsKeep, BoundKeeps
<1>3. SInv => StartedOnce
  BY DEF StartedOnce, StartsBounded
<1> HIDE DEF SInv
<1> QED BY <1>1, <1>2, <1>3, PTL DEF Spec

-----------------------------------------------------------------------------
(* An operator who only resumes.  Until the loop is gone nobody else       *)
(* appends, and then a worker id stands for the one task it was leased,    *)
(* from before its subprocess starts until its exit was taken.             *)

OneEach == \A t, u \in Tasks, w \in Workers : Active(t, w) /\ Active(u, w) => t = u
OwnProc == \A w \in Workers : Tracked(w) => proc[w].task \in Tasks /\ Active(proc[w].task, w)
Visits  == loop.pc = "start" => \A t \in loop.todo \cap Tasks : status[t] = "Leased"
NoCmd   == \A c \in Commands : ~UnderWay(c)

(* A lease in hand is for a free worker, an end for one without a process. *)
Timely(r) ==
  /\ r.kind = "leased" => loop.pc = "pick" /\ ~Busy(r.worker)
  /\ r.kind = "ended"  => /\ loop.pc \in {"start", "poll"} /\ r.worker \in Workers
                          /\ worker[r.task] = r.worker /\ ~Tracked(r.worker)
                          /\ loop.pc = "start" => r.task \notin loop.todo

InHands == \A i \in DOMAIN loop.plan : Timely(loop.plan[i]) /\ (loop.plan[i].kind = "leased" => i = 1)

Alone == OneEach /\ OwnProc /\ Visits /\ NoCmd /\ InHands

(* A step after which nothing in the ledger or of a process is different.  *)
LEMMA AloneIdle ==
  ASSUME Alone, UNCHANGED <<status, worker, cmd>>,
         \A w \in Workers : Tracked(w)' => Tracked(w) /\ proc'[w].task = proc[w].task,
         Visits', InHands'
  PROVE  Alone'
<1>1. OneEach'
  BY DEF Alone, OneEach, Active
<1>2. OwnProc'
  BY DEF Alone, OwnProc, Active
<1>3. NoCmd'
  BY DEF Alone, NoCmd, UnderWay
<1> QED BY <1>1, <1>2, <1>3 DEF Alone

(* The loop's own steps without a plan in hand before or after. *)
LEMMA AloneLooks ==
  ASSUME IInv, Alone, BeatForBusy \/ PickNone \/ Spawn \/ StartDone \/ TestOpen
  PROVE  Alone'
<1>t. LoopTypeOK
  BY DEF IInv, TypeOK
<1>1. /\ UNCHANGED <<status, worker, cmd, proc>> /\ loop'.plan = <<>>
      /\ Spawn \/ loop'.pc # "start"
  <2>1. CASE BeatForBusy
    BY <1>t, <2>1 DEF BeatForBusy, At, LoopTypeOK
  <2>2. CASE PickNone \/ Spawn \/ StartDone
    BY <1>t, <2>2 DEF PickNone, Spawn, StartDone, At, ledger, LoopTypeOK
  <2>3. CASE TestOpen
    BY <1>t, <2>3 DEF TestOpen, At, ledger, LoopTypeOK
  <2> QED BY <2>1, <2>2, <2>3
<1>2. InHands'
  BY <1>1 DEF InHands
<1>3. Visits'
  <2>1. CASE Spawn
    <3>1. loop'.todo = {t \in Tasks : status[t] = "Leased"}
      BY <1>t, <2>1 DEF Spawn, LoopTypeOK
    <3> QED BY <1>1, <3>1 DEF Visits
  <2>2. CASE ~Spawn
    BY <1>1, <2>2 DEF Visits
  <2> QED BY <2>1, <2>2
<1> QED BY <1>1, <1>2, <1>3, AloneIdle DEF Tracked

LEMMA AlonePicks ==
  ASSUME IInv, Alone, NEW w \in Workers, NEW t \in Tasks, Pick(w, t)
  PROVE  Alone'
<1>1. /\ UNCHANGED <<status, worker, cmd, proc>> /\ loop'.plan = <<Leased(t, w), Beat(w)>>
      /\ loop'.pc = "pick" /\ ~Busy(w)
  BY DEF Pick, At, ledger, IInv, TypeOK, LoopTypeOK
<1>2. ~Busy(w)'
  BY <1>1 DEF Busy, Active
<1>3. loop'.plan[1] = Leased(t, w) /\ loop'.plan[2] = Beat(w) /\ DOMAIN loop'.plan = {1, 2}
  BY <1>1
<1>4. InHands'
  BY <1>1, <1>2, <1>3 DEF InHands, Timely, Leased, Beat
<1> QED BY <1>1, <1>4, AloneIdle DEF Tracked, Visits

LEMMA OutcomeRecords ==
  ASSUME NEW t \in Tasks, NEW w \in Workers, NEW e \in {"ok", "bad"}, NEW v \in Verdicts(t, e),
         NEW i \in DOMAIN Outcome(t, w, e, v)
  PROVE  \/ \E s \in {"Completed", "Failed"} : Outcome(t, w, e, v)[i] = End(t, w, s)
         \/ Outcome(t, w, e, v)[i] = Receipt(t, v)
<1> DEFINE s == IF e = "ok" THEN "Completed" ELSE "Failed"
           o == <<End(t, w, s), Receipt(t, v)>>
<1>1. s \in {"Completed", "Failed"}
  OBVIOUS
<1> HIDE DEF s
<1>2. CASE t \in Scored /\ v = "fail"
  <2>1. Outcome(t, w, e, v) = o \o <<End(t, w, "Failed")>>
    BY <1>2 DEF Outcome, s
  <2>2. v \in Results
    BY <1>2 DEF Results
  <2>3. {End(t, w, s), End(t, w, "Failed"), Receipt(t, v)} \subseteq Records
    BY <1>1, <2>2, RecordTypes DEF Ended
  <2>4. o \o <<End(t, w, "Failed")>> = <<End(t, w, s), Receipt(t, v), End(t, w, "Failed")>>
    BY <2>3, Joined
  <2> QED BY <1>1, <2>1, <2>4
<1>3. CASE ~(t \in Scored /\ v = "fail")
  <2>1. Outcome(t, w, e, v) = o \o <<>>
    BY <1>3 DEF Outcome, s
  <2>2. o \o <<>> = o
    OBVIOUS
  <2> QED BY <1>1, <2>1, <2>2
<1> QED BY <1>2, <1>3

(* An outcome is written of a task whose worker has no process any more.   *)
LEMMA AloneEnds ==
  ASSUME IInv, NEW w \in Workers, NEW t \in Tasks,
         NEW e \in {"ok", "bad"}, NEW v \in Verdicts(t, e),
         loop'.plan = Outcome(t, w, e, v), UNCHANGED worker,
         loop'.pc \in {"start", "poll"}, worker[t] = w, ~Tracked(w)',
         loop'.pc = "start" => t \notin loop'.todo
  PROVE  InHands'
<1>1. \A i \in DOMAIN loop'.plan :
        \/ \E s \in {"Completed", "Failed"} : loop'.plan[i] = End(t, w, s)
        \/ loop'.plan[i] = Receipt(t, v)
  BY OutcomeRecords
<1>2. Timely(End(t, w, "Completed"))' /\ Timely(End(t, w, "Failed"))' /\ Timely(Receipt(t, v))'
  BY DEF Timely, End, Receipt
<1> QED BY <1>1, <1>2 DEF InHands, End, Receipt

LEMMA AloneStarts ==
  ASSUME IInv, Alone, NEW t \in Tasks, StartProc(t) \/ StartSkips(t) \/ StartFails(t)
  PROVE  Alone'
<1>1. /\ UNCHANGED <<status, worker, cmd>> /\ loop'.pc = "start" /\ loop'.todo = loop.todo \ {t}
      /\ status[t] = "Leased" /\ worker[t] \in Workers /\ loop.pc = "start" /\ loop.plan = <<>>
      /\ proc \in [Workers -> [task : Tasks \cup {None}, state : {"none", "running", "ok", "bad"}]]
  BY DEF StartProc, StartSkips, StartFails, At, ledger, IInv, TypeOK, LoopTypeOK, Alone, Visits,
         LeasedHasWorker
<1>2. Visits'
  BY <1>1 DEF Alone, Visits
<1>3. CASE StartProc(t)
  <2>1. proc' = [proc EXCEPT ![worker[t]] = [task |-> t, state |-> "running"]] /\ loop'.plan = <<>>
    BY <1>1, <1>3 DEF StartProc, IInv, TypeOK, LoopTypeOK
  <2>2. ASSUME NEW w \in Workers, Tracked(w)'
        PROVE  proc'[w].task \in Tasks /\ Active(proc'[w].task, w)
    <3>1. CASE w = worker[t]
      BY <1>1, <2>1, <3>1 DEF Active
    <3>2. CASE w # worker[t]
      BY <1>1, <2>1, <2>2, <3>2 DEF Tracked, Alone, OwnProc
    <3> QED BY <3>1, <3>2
  <2>3. OneEach' /\ OwnProc' /\ NoCmd'
    BY <1>1, <2>2 DEF Alone, OneEach, OwnProc, NoCmd, Active, UnderWay
  <2>4. InHands'
    BY <2>1 DEF InHands
  <2> QED BY <1>2, <2>3, <2>4 DEF Alone
<1>4. CASE StartSkips(t)
  <2>1. proc' = proc /\ loop'.plan = <<>>
    BY <1>1, <1>4 DEF StartSkips, IInv, TypeOK, LoopTypeOK
  <2>2. InHands'
    BY <2>1 DEF InHands
  <2> QED BY <1>1, <1>2, <2>1, <2>2, AloneIdle DEF Tracked
<1>5. CASE StartFails(t)
  <2>1. proc' = proc /\ ~Tracked(worker[t])
    BY <1>5 DEF StartFails
  <2>2. PICK v \in Verdicts(t, "bad") : loop'.plan = Outcome(t, worker[t], "bad", v)
    BY <1>1, <1>5 DEF StartFails, IInv, TypeOK, LoopTypeOK
  <2>3. ~Tracked(worker[t])'
    BY <1>1, <2>1 DEF Tracked
  <2>4. InHands'
    BY <1>1, <2>2, <2>3, AloneEnds
  <2> QED BY <1>1, <1>2, <2>1, <2>4, AloneIdle DEF Tracked
<1> QED BY <1>3, <1>4, <1>5

LEMMA AlonePolls ==
  ASSUME IInv, Alone, OwnExit, NEW w \in Workers, PollRunning(w) \/ PollExited(w)
  PROVE  Alone' /\ OwnExit'
<1>1. /\ UNCHANGED <<status, worker, cmd>> /\ loop.pc = "poll"
      /\ outcomeOf \in [Tasks -> SUBSET (Tasks \cup {None})] /\ LoopTypeOK
  BY DEF PollRunning, PollExited, At, ledger, IInv, TypeOK, HistoryTypeOK
<1>2. CASE PollRunning(w)
  <2>1. /\ UNCHANGED <<proc, outcomeOf>> /\ loop'.pc = "poll"
        /\ loop'.plan = <<>> \/ loop'.plan = <<Beat(w)>>
    BY <1>1, <1>2 DEF PollRunning, history, LoopTypeOK
  <2>2. InHands'
    <3>1. Timely(Beat(w))' /\ Beat(w).kind = "beat"
      BY DEF Timely, Beat
    <3> QED BY <2>1, <3>1 DEF InHands
  <2>3. Alone'
    BY <1>1, <2>1, <2>2, AloneIdle DEF Tracked, Visits
  <2>4. OwnExit'
    BY <2>1 DEF OwnExit
  <2> QED BY <2>3, <2>4
<1>3. CASE PollExited(w)
  <2> DEFINE u == proc[w].task
  <2>e. proc[w].state \in {"ok", "bad"}
    BY <1>3 DEF PollExited
  <2>1. Tracked(w)
    BY <2>e DEF Tracked, NoProc
  <2>2. u \in Tasks /\ Active(u, w) /\ u # None
    BY <2>1, TasksAssumption DEF Alone, OwnProc
  <2>3. Context(w) = {u}
    BY <2>2 DEF Context, Busy, Alone, OneEach
  <2>4. /\ proc' = [proc EXCEPT ![w] = NoProc]
        /\ \E v \in Verdicts(u, proc[w].state) :
             loop' = [loop EXCEPT !.todo = @ \ {w}, !.plan = Outcome(u, w, proc[w].state, v)]
        /\ outcomeOf' = [outcomeOf EXCEPT ![u] = @ \cup {u}]
    BY <1>3, <2>2, <2>3 DEF PollExited, Active
  <2>5. PICK v \in Verdicts(u, proc[w].state) :
          loop'.plan = Outcome(u, w, proc[w].state, v) /\ loop'.pc = "poll"
    BY <1>1, <2>4 DEF LoopTypeOK
  <2>6. ~Tracked(w)' /\ \A x \in Workers : Tracked(x)' => Tracked(x) /\ proc'[x] = proc[x]
    BY <1>1, <2>4 DEF LoopTypeOK, Tracked
  <2>7. InHands'
    BY <1>1, <2>2, <2>5, <2>e, <2>6, AloneEnds DEF Active
  <2>8. Alone'
    BY <1>1, <2>5, <2>6, <2>7, AloneIdle DEF Visits
  <2>9. OwnExit'
    BY <1>1, <2>2, <2>4 DEF OwnExit
  <2> QED BY <2>8, <2>9
<1> QED BY <1>2, <1>3

LEMMA AloneAppends ==
  ASSUME IInv, Alone, LoopAppend
  PROVE  Alone'
<1> DEFINE r == loop.plan[1]
<1>1. /\ r \in Records /\ Record(r) /\ UNCHANGED <<cmd, proc>>
      /\ loop.plan \in Seq(Records) /\ loop.plan # <<>> /\ loop'.plan = Tail(loop.plan)
      /\ loop'.pc = loop.pc /\ loop'.todo = loop.todo /\ LedgerTypeOK
  BY AppendTypes DEF LoopAppend, IInv, TypeOK, LoopTypeOK
<1>2. 1 \in DOMAIN loop.plan
  BY <1>1
<1>3. \A i \in DOMAIN loop'.plan : i + 1 \in DOMAIN loop.plan /\ loop'.plan[i] = loop.plan[i + 1] /\ i # 0
  BY <1>1
<1>4. \A i \in DOMAIN loop'.plan : loop'.plan[i].kind # "leased"
  BY <1>1, <1>3 DEF Alone, InHands
<1>n. Timely(r)
  BY <1>2 DEF Alone, InHands
<1>5. NoCmd'
  BY <1>1 DEF Alone, NoCmd, UnderWay
<1>6. CASE r.kind \notin {"leased", "ended"}
  <2>1. UNCHANGED <<status, worker>>
    BY <1>1, <1>6 DEF Record
  <2>2. InHands'
    <3>1. ASSUME NEW i \in DOMAIN loop'.plan
          PROVE  Timely(loop'.plan[i])
      BY <1>3 DEF Alone, InHands
    <3> QED BY <1>1, <1>4, <2>1, <3>1 DEF InHands, Timely, Tracked
  <2>3. Visits'
    BY <1>1, <2>1 DEF Alone, Visits
  <2> QED BY <1>1, <2>1, <2>2, <2>3, AloneIdle DEF Tracked
<1>7. CASE r.kind = "leased"
  <2>1. /\ r.task \in Tasks /\ r.worker \in Workers /\ r.worker # None /\ r.value = "Leased"
        /\ loop.pc = "pick" /\ ~Busy(r.worker)
    BY <1>1, <1>n, <1>7, RecordKinds, WorkersAssumption DEF Timely
  <2>2. /\ status' = [status EXCEPT ![r.task] = "Leased"]
        /\ worker' = [worker EXCEPT ![r.task] = r.worker]
    BY <1>1, <1>7, <2>1 DEF Record
  <2>3. Stays
    BY AppendKeeps
  <2>4. \A t \in Tasks, w \in Workers :
          Active(t, w)' <=> Active(t, w) \/ (t = r.task /\ w = r.worker)
    BY <1>1, <2>1, <2>2, <2>3, WorkersAssumption DEF Active, Stays, LedgerTypeOK
  <2>5. OneEach'
    BY <2>1, <2>4 DEF Alone, OneEach, Busy
  <2>6. OwnProc'
    BY <1>1, <2>4 DEF Alone, OwnProc, Tracked
  <2>7. InHands'
    <3>1. ASSUME NEW i \in DOMAIN loop'.plan PROVE loop'.plan[i].kind \notin {"leased", "ended"}
      <4>1. Timely(loop'.plan[i])
        BY <1>3 DEF Alone, InHands
      <4> QED BY <1>4, <2>1, <4>1 DEF Timely
    <3> QED BY <3>1 DEF InHands, Timely
  <2>8. Visits'
    BY <1>1, <2>1 DEF Visits
  <2> QED BY <1>5, <2>5, <2>6, <2>7, <2>8 DEF Alone
<1>8. CASE r.kind = "ended"
  <2>1. /\ r.task \in Tasks /\ r.value \in Ended /\ worker[r.task] = r.worker /\ ~Tracked(r.worker)
        /\ r.worker \in Workers /\ (loop.pc = "start" => r.task \notin loop.todo)
    BY <1>1, <1>n, <1>8, RecordKinds DEF Timely
  <2>2. status' = [status EXCEPT ![r.task] = r.value] /\ worker' = worker
    BY <1>1, <1>8, <2>1 DEF Record, LedgerTypeOK
  <2>3. \A t \in Tasks, w \in Workers : Active(t, w)' <=> Active(t, w) /\ t # r.task
    BY <1>1, <2>1, <2>2 DEF Active, LedgerTypeOK, Ended
  <2>4. OneEach'
    BY <2>3 DEF Alone, OneEach
  <2>5. OwnProc'
    <3>1. ASSUME NEW w \in Workers, Tracked(w) PROVE proc[w].task # r.task
      BY <2>1, <3>1 DEF Alone, OwnProc, Active
    <3> QED BY <1>1, <2>3, <3>1 DEF Alone, OwnProc, Tracked
  <2>6. InHands'
    <3>1. ASSUME NEW i \in DOMAIN loop'.plan
          PROVE  Timely(loop'.plan[i])
      BY <1>3 DEF Alone, InHands
    <3> QED BY <1>1, <1>4, <2>2, <3>1 DEF InHands, Timely, Tracked
  <2>7. Visits'
    BY <1>1, <2>1, <2>2 DEF Alone, Visits, LedgerTypeOK
  <2> QED BY <1>5, <2>4, <2>5, <2>6, <2>7 DEF Alone
<1> QED BY <1>6, <1>7, <1>8

(* A loop that is gone stays gone, and takes no exits.                     *)
LEMMA GoneStays ==
  ASSUME IInv, LoopGone, [Next]_vars
  PROVE  LoopGone' /\ outcomeOf' = outcomeOf
<1>1. CASE LoopStep
  BY <1>1 DEF LoopStep, LoopAppend, BeatForBusy, PickNone, Spawn, StartDone, TestOpen, PollRunning,
              PollExited, Pick, StartProc, StartSkips, StartFails, At, LoopGone, history,
              IInv, TypeOK, LoopTypeOK
<1>2. CASE LoopCrash \/ \E w \in Workers : Exit(w) \/ Age(w)
  BY <1>2 DEF LoopCrash, Exit, Age, LoopGone, history
<1>3. ASSUME NEW c \in Commands, CmdStep(c) PROVE UNCHANGED <<loop, outcomeOf>>
  BY <1>3 DEF CmdStep, Stop, Resume, CmdBegins, CmdAppend, CmdDies, Interrupt, Restart, history
<1> QED BY <1>1, <1>2, <1>3 DEF Next, vars, history, LoopGone

LEMMA AloneKeeps ==
  ASSUME Polite, Ops \subseteq {"resume"}, IInv, ~LoopGone, Alone, OwnExit, [Next]_vars
  PROVE  OwnExit' /\ (LoopGone' \/ Alone')
<1>1. CASE LoopStep
  <2>1. CASE BeatForBusy \/ PickNone \/ Spawn \/ StartDone \/ TestOpen
    BY <2>1, AloneLooks DEF BeatForBusy, PickNone, Spawn, StartDone, TestOpen, OwnExit, history
  <2>2. CASE LoopAppend
    BY <2>2, AloneAppends DEF LoopAppend, OwnExit, history
  <2>3. CASE \E w \in Workers : PollRunning(w) \/ PollExited(w)
    BY <2>3, AlonePolls
  <2>4. CASE \E w \in Workers, t \in Tasks : Pick(w, t)
    BY <2>4, AlonePicks DEF Pick, OwnExit, history
  <2>5. CASE \E t \in Tasks : StartProc(t) \/ StartSkips(t) \/ StartFails(t)
    BY <2>5, AloneStarts DEF StartProc, StartSkips, StartFails, OwnExit, history
  <2> QED BY <1>1, <2>1, <2>2, <2>3, <2>4, <2>5 DEF LoopStep
<1>2. CASE LoopCrash
  BY <1>2 DEF LoopCrash, LoopGone, OwnExit, history, IInv, TypeOK, LoopTypeOK
<1>3. ASSUME NEW w \in Workers, Exit(w) PROVE OwnExit' /\ Alone'
  <2>1. /\ UNCHANGED <<status, worker, cmd, loop, outcomeOf>> /\ Tracked(w)
        /\ proc \in [Workers -> [task : Tasks \cup {None}, state : {"none", "running", "ok", "bad"}]]
    BY <1>3 DEF Exit, ledger, history, Tracked, NoProc, IInv, TypeOK, LoopTypeOK
  <2>2. PICK e \in {"ok", "bad"} : proc' = [proc EXCEPT ![w].state = e]
    BY <1>3 DEF Exit
  <2>3. \A x \in Workers : (Tracked(x)' <=> Tracked(x)) /\ proc'[x].task = proc[x].task
    BY <2>1, <2>2 DEF Tracked, NoProc
  <2>4. InHands' /\ Visits'
    <3>1. ASSUME NEW r, Timely(r) PROVE Timely(r)'
      BY <2>1, <2>3, <3>1 DEF Timely, Busy, Active
    <3> QED BY <2>1, <3>1 DEF Alone, InHands, Visits
  <2> QED BY <2>1, <2>3, <2>4, AloneIdle DEF OwnExit
<1>4. ASSUME NEW w \in Workers PROVE ~Age(w)
  BY DEF Age
<1>5. ASSUME NEW c \in Commands PROVE ~CmdStep(c)
  <2>1. ~(Stop(c) \/ Resume(c) \/ \E w \in Workers : Interrupt(c, w) \/ Restart(c, w))
    BY DEF Stop, Resume, Interrupt, Restart, MayIssue
  <2>2. ~(CmdBegins(c) \/ CmdAppend(c) \/ CmdDies(c))
    BY DEF CmdBegins, CmdAppend, CmdDies, Alone, NoCmd, UnderWay
  <2> QED BY <2>1, <2>2 DEF CmdStep
<1>6. CASE UNCHANGED vars
  BY <1>6 DEF vars, ledger, history, Alone, OneEach, OwnProc, Visits, NoCmd, InHands, Timely, OwnExit,
              Active, Busy, Tracked, UnderWay
<1> QED BY <1>1, <1>2, <1>3, <1>4, <1>5, <1>6 DEF Next

(* What a subprocess reports is the outcome of the task it was started     *)
(* for, with any faults, as long as the operator does nothing but resume   *)
(* (manager.rs 411-414): interrupt, restart and stop change the ledger     *)
(* under the processes, which is what Fleet_exit.cfg shows of the first.   *)
THEOREM OwnExitCorrect ==
  ASSUME Polite, Ops \subseteq {"resume"}
  PROVE  Spec => []OwnExit
<1> DEFINE AInv == IInv /\ OwnExit /\ (LoopGone \/ Alone)
<1>1. Init => AInv
  <2> SUFFICES ASSUME Init PROVE AInv
    OBVIOUS
  <2>1. OwnExit /\ OneEach /\ OwnProc
    BY DEF Init, OwnExit, OneEach, OwnProc, Active, Tracked
  <2>2. Visits /\ NoCmd /\ InHands
    BY DEF Init, Visits, NoCmd, UnderWay, InHands
  <2> QED BY <2>1, <2>2, InitInv DEF Alone
<1>2. AInv /\ [Next]_vars => AInv'
  BY StepKeeps, GoneStays, AloneKeeps DEF OwnExit
<1>3. AInv => OwnExit
  OBVIOUS
<1> HIDE DEF AInv
<1> QED BY <1>1, <1>2, <1>3, PTL DEF Spec
=============================================================================

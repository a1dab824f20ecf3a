------------------------ MODULE RuntimeThreads_proofs ------------------------
(***************************************************************************)
(* Proofs about RuntimeThreads, for any threads and calls of any kind, any *)
(* limits, and any number of errors, crashes and turns the engines start   *)
(* by themselves: type correctness; without steers, the records of the     *)
(* turns implement TurnRecords; with any number of steers, what is left of *)
(* that; and, for clients that wait for an answer before they call a       *)
(* thread again, whose turn is active and that no other replaces it, what  *)
(* blocks a thread, what becomes of an interrupted turn, and whose outcome *)
(* a turn ends with.                                                       *)
(***************************************************************************)
EXTENDS RuntimeThreads, FiniteSetTheorems, SequenceTheorems, TLAPS

-----------------------------------------------------------------------------
(* Sequences.                                                              *)

(* A set of naturals that is not empty has a least element. *)
LEMMA LeastNatural ==
  ASSUME NEW S \in SUBSET Nat, S # {}
  PROVE  \E i \in S : \A j \in S : i <= j
<1> DEFINE Below == {0..n : n \in S}
<1>1. Below \subseteq FiniteSubsetsOf(Nat)
  <2>1. ASSUME NEW n \in S PROVE 0..n \in SUBSET Nat /\ IsFiniteSet(0..n)
    BY FS_Interval
  <2> QED BY <2>1 DEF FiniteSubsetsOf
<1>2. Below # {}
  OBVIOUS
<1>3. IsWellFoundedOn(StrictSubsetOrdering(Nat), FiniteSubsetsOf(Nat))
  BY FS_StrictSubsetOrderingWellFounded
<1>4. PICK b \in Below : \A c \in Below : <<c, b>> \notin StrictSubsetOrdering(Nat)
  <2> HIDE DEF Below
  <2> QED BY <1>1, <1>2, <1>3, WFMin
<1>5. PICK n \in S : b = 0..n
  OBVIOUS
<1>6. ASSUME NEW m \in S, m < n PROVE FALSE
  <2>1. 0..m \in Below
    OBVIOUS
  <2>2. 0..m \subseteq 0..n /\ 0..m # 0..n /\ 0..m \in SUBSET Nat /\ 0..n \in SUBSET Nat
    BY <1>6
  <2>3. <<0..m, 0..n>> \in StrictSubsetOrdering(Nat)
    BY <2>2 DEF StrictSubsetOrdering
  <2> QED BY <1>4, <1>5, <2>1, <2>3
<1> QED BY <1>6

(* A sequence without repetition, cut at i: either way the halves are put  *)
(* together again, the entry at i and no other is gone.                    *)
LEMMA Spliced ==
  ASSUME NEW S, NEW q \in Seq(S), IsInjective(q), NEW i \in 1..Len(q)
  PROVE  \A r \in {RemoveAt(q, i), SubSeq(q, i + 1, Len(q)) \o SubSeq(q, 1, i - 1)} :
           r \in Seq(S) /\ IsInjective(r) /\ Range(r) = Range(q) \ {q[i]}
<1> DEFINE n == Len(q)
           a == SubSeq(q, 1, i - 1)
           b == SubSeq(q, i + 1, n)
<1>0. n \in Nat /\ i \in 1..n /\ DOMAIN q = 1..n /\ \A j \in 1..n : q[j] \in S
  BY LenProperties
<1>1. /\ a \in Seq(S) /\ Len(a) = i - 1 /\ \A j \in 1..(i - 1) : a[j] = q[j]
  BY <1>0, SubSeqProperties
<1>2. /\ b \in Seq(S) /\ Len(b) = n - i /\ \A j \in 1..(n - i) : b[j] = q[i + j]
  <2>1. \A k \in (i + 1)..n : q[k] \in S
    BY <1>0
  <2>2. /\ b \in Seq(S) /\ Len(b) = IF i + 1 <= n THEN n - (i + 1) + 1 ELSE 0
        /\ \A j \in 1 .. n - (i + 1) + 1 : b[j] = q[(i + 1) + j - 1]
    BY <1>0, <2>1, SubSeqProperties
  <2> HIDE DEF b, n
  <2>3. \A j \in 1..(n - i) : j \in 1 .. n - (i + 1) + 1 /\ (i + 1) + j - 1 = i + j
    BY <1>0
  <2>4. Len(b) = n - i
    BY <1>0, <2>2
  <2>5. ASSUME NEW j \in 1..(n - i) PROVE b[j] = q[i + j]
    <3>1. b[j] = q[(i + 1) + j - 1]
      BY <1>0, <2>2, <2>3
    <3> QED BY <2>3, <3>1
  <2> QED BY <2>2, <2>4, <2>5
<1>3. /\ a \o b \in Seq(S) /\ IsInjective(a \o b) /\ Range(a \o b) = Range(q) \ {q[i]}
  <2> DEFINE r == a \o b
             from(j) == IF j < i THEN j ELSE j + 1
  <2> HIDE DEF a, b, n
  <2>1. r \in Seq(S) /\ Len(r) = Len(a) + Len(b)
    BY <1>1, <1>2, ConcatProperties
  <2>2. DOMAIN r = 1..(n - 1)
    BY <1>0, <1>1, <1>2, <2>1, LenProperties
  <2>3. \A j \in 1..(n - 1) : r[j] = q[from(j)]
    BY <1>0, <1>1, <1>2, ConcatProperties
  <2>4. \A j \in 1..(n - 1) : from(j) \in 1..n /\ from(j) # i
    BY <1>0
  <2> HIDE DEF r
  <2>5. ASSUME NEW j \in DOMAIN r, NEW k \in DOMAIN r, r[j] = r[k] PROVE j = k
    <3>1. q[from(j)] = q[from(k)]
      BY <2>2, <2>3, <2>5
    <3>2. from(j) = from(k)
      BY <1>0, <2>2, <2>4, <3>1 DEF IsInjective
    <3> QED BY <1>0, <2>2, <3>2
  <2>6. ASSUME NEW x \in Range(r) PROVE x \in Range(q) \ {q[i]}
    <3>1. PICK j \in 1..(n - 1) : x = q[from(j)]
      BY <2>2, <2>3 DEF Range
    <3> QED BY <1>0, <2>4, <3>1 DEF Range, IsInjective
  <2>7. ASSUME NEW x \in Range(q) \ {q[i]} PROVE x \in Range(r)
    <3>1. PICK k \in 1..n : x = q[k] /\ k # i
      BY <1>0 DEF Range
    <3>2. PICK j \in 1..(n - 1) : from(j) = k
      <4>1. CASE k < i
        <5>1. k \in 1..(n - 1) /\ from(k) = k
          BY <1>0, <3>1, <4>1
        <5> QED BY <5>1
      <4>2. CASE k > i
        <5>1. (k - 1) \in 1..(n - 1) /\ from((k - 1)) = k
          BY <1>0, <3>1, <4>2
        <5> QED BY <5>1
      <4> QED BY <1>0, <3>1, <4>1, <4>2
    <3>3. j \in DOMAIN r /\ r[j] = x
      BY <2>2, <2>3, <3>1, <3>2
    <3> QED BY <3>3 DEF Range
  <2>8. IsInjective(r)
    BY <2>5 DEF IsInjective
  <2> QED BY <2>1, <2>6, <2>7, <2>8 DEF r
<1>4. /\ b \o a \in Seq(S) /\ IsInjective(b \o a) /\ Range(b \o a) = Range(q) \ {q[i]}
  <2> DEFINE r == b \o a
             from(j) == IF j <= n - i THEN i + j ELSE j - (n - i)
  <2> HIDE DEF a, b, n
  <2>1. r \in Seq(S) /\ Len(r) = Len(b) + Len(a)
    BY <1>1, <1>2, ConcatProperties
  <2>2. DOMAIN r = 1..(n - 1)
    BY <1>0, <1>1, <1>2, <2>1, LenProperties
  <2>3. \A j \in 1..(n - 1) : r[j] = q[from(j)]
    BY <1>0, <1>1, <1>2, ConcatProperties
  <2>4. \A j \in 1..(n - 1) : from(j) \in 1..n /\ from(j) # i
    BY <1>0
  <2> HIDE DEF r
  <2>5. ASSUME NEW j \in DOMAIN r, NEW k \in DOMAIN r, r[j] = r[k] PROVE j = k
    <3>1. q[from(j)] = q[from(k)]
      BY <2>2, <2>3, <2>5
    <3>2. from(j) = from(k)
      BY <1>0, <2>2, <2>4, <3>1 DEF IsInjective
    <3> QED BY <1>0, <2>2, <3>2
  <2>6. ASSUME NEW x \in Range(r) PROVE x \in Range(q) \ {q[i]}
    <3>1. PICK j \in 1..(n - 1) : x = q[from(j)]
      BY <2>2, <2>3 DEF Range
    <3> QED BY <1>0, <2>4, <3>1 DEF Range, IsInjective
  <2>7. ASSUME NEW x \in Range(q) \ {q[i]} PROVE x \in Range(r)
    <3>1. PICK k \in 1..n : x = q[k] /\ k # i
      BY <1>0 DEF Range
    <3>2. PICK j \in 1..(n - 1) : from(j) = k
      <4>1. CASE k < i
        <5>1. (n - i + k) \in 1..(n - 1) /\ from((n - i + k)) = k
          BY <1>0, <3>1, <4>1
        <5> QED BY <5>1
      <4>2. CASE k > i
        <5>1. (k - i) \in 1..(n - 1) /\ from((k - i)) = k
          BY <1>0, <3>1, <4>2
        <5> QED BY <5>1
      <4> QED BY <1>0, <3>1, <4>1, <4>2
    <3>3. j \in DOMAIN r /\ r[j] = x
      BY <2>2, <2>3, <3>1, <3>2
    <3> QED BY <3>3 DEF Range
  <2>8. IsInjective(r)
    BY <2>5 DEF IsInjective
  <2> QED BY <2>1, <2>6, <2>7, <2>8 DEF r
<1> QED BY <1>3, <1>4 DEF RemoveAt

(* What the LRU becomes. *)
LEMMA WithoutThread ==
  ASSUME NEW q \in Seq(Threads), IsInjective(q), NEW h
  PROVE  /\ Without(q, h) \in Seq(Threads) /\ IsInjective(Without(q, h))
         /\ Range(Without(q, h)) = Range(q) \ {h}
<1>1. CASE h \notin Range(q)
  BY <1>1 DEF Without
<1>2. CASE h \in Range(q)
  <2> DEFINE i == CHOOSE i \in DOMAIN q : q[i] = h
  <2>1. i \in 1..Len(q) /\ q[i] = h
    BY <1>2, LenProperties DEF Range
  <2>2. Without(q, h) = RemoveAt(q, i)
    BY <1>2 DEF Without
  <2> HIDE DEF i
  <2> QED BY <2>1, <2>2, Spliced
<1> QED BY <1>1, <1>2

LEMMA TouchedThread ==
  ASSUME NEW q \in Seq(Threads), IsInjective(q), NEW h \in Threads
  PROVE  /\ Touched(q, h) \in Seq(Threads) /\ IsInjective(Touched(q, h))
         /\ Range(Touched(q, h)) = Range(q) \cup {h}
<1> DEFINE r == Without(q, h)
           n == Len(r)
<1>1. r \in Seq(Threads) /\ IsInjective(r) /\ Range(r) = Range(q) \ {h}
  BY WithoutThread
<1> HIDE DEF r
<1>2. n \in Nat /\ DOMAIN r = 1..n
  BY <1>1, LenProperties
<1>3. /\ Append(r, h) \in Seq(Threads) /\ DOMAIN Append(r, h) = 1..(n + 1)
      /\ \A i \in 1..n : Append(r, h)[i] = r[i]
      /\ Append(r, h)[n + 1] = h
  BY <1>1, <1>2, AppendProperties, LenProperties
<1>4. \A i \in 1..n : r[i] \in Range(q) \ {h}
  BY <1>1, <1>2 DEF Range
<1>5. IsInjective(Append(r, h))
  BY <1>1, <1>2, <1>3, <1>4 DEF IsInjective
<1>6. Range(Append(r, h)) = Range(r) \cup {h}
  <2>1. ASSUME NEW x \in Range(Append(r, h)) PROVE x \in Range(r) \cup {h}
    BY <1>2, <1>3, <2>1 DEF Range
  <2>2. ASSUME NEW x \in Range(r) PROVE x \in Range(Append(r, h))
    BY <1>2, <1>3, <2>2 DEF Range
  <2>3. h \in Range(Append(r, h))
    BY <1>2, <1>3 DEF Range
  <2> QED BY <2>1, <2>2, <2>3
<1> QED BY <1>1, <1>3, <1>5, <1>6 DEF Touched, r

(* enforce_lru_capacity takes a thread out that has no active turn, or     *)
(* none.                                                                   *)
LEMMA Scanned ==
  ASSUME lru \in Seq(Threads), IsInjective(lru)
  PROVE  /\ ScannedLru \in Seq(Threads) /\ IsInjective(ScannedLru)
         /\ Range(ScannedLru) = Range(lru) \ {Victim}
         /\ Victim \in Threads \cup {None} /\ Victim \notin Busy
         /\ Candidates # {} => Victim \in Range(lru)
<1>0. DOMAIN lru = 1..Len(lru) /\ \A i \in DOMAIN lru : lru[i] \in Threads
  BY LenProperties
<1>1. CASE Candidates = {}
  BY <1>0, <1>1, NamesAssumption DEF ScannedLru, Victim, Busy, Loaded, Range
<1>2. CASE Candidates # {}
  <2> DEFINE i == First(Candidates)
  <2>1. Candidates \subseteq DOMAIN lru /\ \A j \in Candidates : lru[j] \notin Busy
    BY DEF Candidates
  <2>2. i \in Candidates
    <3>1. Candidates \in SUBSET Nat
      BY <1>0, <2>1
    <3>2. \E k \in Candidates : \A j \in Candidates : k <= j
      BY <1>2, <3>1, LeastNatural
    <3> QED BY <3>2 DEF First
  <2> HIDE DEF i
  <2>3. i \in 1..Len(lru) /\ lru[i] \in Threads /\ lru[i] \notin Busy /\ lru[i] \in Range(lru)
    BY <1>0, <2>1, <2>2 DEF Range
  <2>4. Victim = lru[i] /\ ScannedLru = SubSeq(lru, i + 1, Len(lru)) \o SubSeq(lru, 1, i - 1)
    BY <1>2 DEF Victim, ScannedLru, i
  <2> QED BY <2>3, <2>4, Spliced
<1> QED BY <1>1, <1>2

-----------------------------------------------------------------------------
(* Types.                                                                  *)

(* A call holds an engine from the moment it looked for one. *)
Holding == {"load", "save", "register", "route"} \cup Monitored

Sends == {"send", "compact"}

Ready(c) ==
  /\ pc[c] # "new" => of[c] \in Threads /\ kind[c] \in Kinds
  /\ pc[c] = "check" => kind[c] # "peek"
  /\ pc[c] \in {"save", "register", "route"} \cup Monitored => kind[c] \in Sends
  /\ pc[c] \in Holding \/ (pc[c] = "check" /\ kind[c] # "move") => engine[c] \in Calls

Readiness ==
  /\ IsInjective(lru)
  /\ \A c \in Calls : Ready(c)
  /\ \A s \in Steers : steer[s].pc # "new" => steer[s].turn \in Calls

Types == TypeOK /\ Readiness

LEMMA InitTypes == Init => Types
<1> SUFFICES ASSUME Init PROVE Types
  OBVIOUS
<1>1. TypeOK
  BY BoundsAssumption
  DEF Init, TypeOK, Statuses, Outcomes, Location, Idle
<1>2. Readiness
  BY DEF Init, Readiness, Ready, Holding, Monitored, IsInjective
<1> QED BY <1>1, <1>2 DEF Types

LEMMA ShutdownsTyped ==
  ASSUME TypeOK, NEW S, SendShutdown(S)
  PROVE  ops' \in [Calls -> Seq(Operation)]
<1>1. [kind |-> "shutdown", of |-> Extra] \in Operation
  BY DEF Operation
<1> QED BY <1>1 DEF SendShutdown, TypeOK

(* The step of a call or of a monitor, that of a call's neighbours apart.  *)
LEMMA OneMoves ==
  ASSUME Types, NEW c \in Calls, NEW l \in Location, Goto(c, l)
  PROVE  /\ pc' \in [Calls -> Location]
         /\ \A d \in Calls : pc'[d] = IF d = c THEN l ELSE pc[d]
BY DEF Goto, Types, TypeOK

LEMMA BeginTypes ==
  ASSUME Types, NEW c \in Calls, NEW h \in Threads, NEW k \in Kinds, Begin(c, h, k)
  PROVE  Types'
<1> USE DEF Types
<1>1. lru' \in Seq(Threads) /\ IsInjective(lru')
  BY TouchedThread DEF Begin, TypeOK, Readiness
<1>2. pc' \in [Calls -> Location]
  BY DEF Begin, Goto, TypeOK, Location, Starting
<1>3. engine' \in [Calls -> Calls \cup {None}]
  BY DEF Begin, TypeOK, Loaded
<1>4. TypeOK'
  BY <1>1, <1>2, <1>3 DEF Begin, TypeOK, records, engines, monitor, bounds
<1>5. \A d \in Calls \ {c} : pc'[d] = pc[d] /\ of'[d] = of[d] /\ kind'[d] = kind[d] /\ engine'[d] = engine[d]
  BY DEF Begin, Goto, TypeOK
<1>6. Ready(c)'
  BY DEF Begin, Goto, TypeOK, Ready, Holding, Monitored, Loaded
<1>7. Readiness'
  BY <1>1, <1>5, <1>6 DEF Readiness, Ready, Begin
<1> QED BY <1>4, <1>7

LEMMA LoadTypes ==
  ASSUME Types, NEW c \in Calls, Load(c)
  PROVE  Types'
<1> USE DEF Types
<1>1. of[c] \in Threads /\ engine[c] \in Calls
  BY DEF Load, At, Readiness, Ready, Holding
<1>2. lru' \in Seq(Threads) /\ IsInjective(lru')
  BY <1>1, Scanned, TouchedThread DEF Load, TypeOK, Readiness
<1>3. ops' \in [Calls -> Seq(Operation)]
  BY ShutdownsTyped DEF Load
<1>4. TypeOK'
  BY <1>1, <1>2, <1>3 DEF Load, Goto, Location, Starting, TypeOK, records, monitor, bounds
<1>5. Readiness'
  BY <1>1, <1>2 DEF Load, At, Goto, TypeOK, Readiness, Ready, Holding, Monitored
<1> QED BY <1>4, <1>5

LEMMA CheckTypes ==
  ASSUME Types, NEW c \in Calls, Check(c)
  PROVE  Types'
<1> USE DEF Types
<1>1. TypeOK'
  BY DEF Check, Goto, Location, Starting, TypeOK, records, table, engines, monitor, bounds
<1>2. kind[c] \in Sends \cup {"move"}
  BY KindsAssumption DEF Check, At, Readiness, Ready, Sends
<1>3. Readiness'
  BY <1>2 DEF Check, At, Goto, TypeOK, Readiness, Ready, Holding, Monitored, table
<1> QED BY <1>1, <1>3

LEMMA MoveTypes ==
  ASSUME Types, NEW c \in Calls, Move(c)
  PROVE  Types'
<1> USE DEF Types
<1>1. lru' \in Seq(Threads) /\ IsInjective(lru')
  BY WithoutThread DEF Move, TypeOK, Readiness
<1>2. ops' \in [Calls -> Seq(Operation)]
  BY ShutdownsTyped DEF Move
<1>3. TypeOK'
  BY <1>1, <1>2 DEF Move, Goto, Location, TypeOK, records, monitor, bounds
<1>4. Readiness'
  BY <1>1 DEF Move, At, Goto, TypeOK, Readiness, Ready, Holding, Monitored
<1> QED BY <1>3, <1>4

LEMMA SaveTypes ==
  ASSUME Types, NEW c \in Calls, Save(c)
  PROVE  Types'
<1> USE DEF Types
<1>1. TypeOK'
  BY DEF Save, Goto, Location, Starting, TypeOK, Statuses, table, engines, monitor, bounds
<1>2. Readiness'
  BY DEF Save, At, Goto, TypeOK, Readiness, Ready, Holding, Monitored, table
<1> QED BY <1>1, <1>2

LEMMA RegisterTypes ==
  ASSUME Types, NEW c \in Calls, Register(c)
  PROVE  Types'
<1> USE DEF Types
<1>1. of[c] \in Threads
  BY DEF Register, At, Readiness, Ready
<1>2. lru' \in Seq(Threads) /\ IsInjective(lru')
  BY <1>1, TouchedThread DEF Register, TypeOK, Readiness
<1>3. TypeOK'
  <2>1. UNCHANGED <<up, records, loaded, engines, kind, of, engine, monitor, steer, interrupted, bounds>>
    BY DEF Register
  <2>2. pc' \in [Calls -> Location]
    BY DEF Register, Goto, Location, Starting, TypeOK
  <2>3. active' \in [Threads -> Calls \cup {None}] /\ flagged' \in [Threads -> BOOLEAN]
    BY <1>1 DEF Register, TypeOK
  <2> QED BY <1>2, <2>1, <2>2, <2>3 DEF TypeOK, records, engines, monitor, bounds
<1>4. Readiness'
  BY <1>2 DEF Register, At, Goto, TypeOK, Readiness, Ready, Holding, Monitored
<1> QED BY <1>3, <1>4

LEMMA SendTypes ==
  ASSUME Types, NEW c \in Calls, Send(c)
  PROVE  Types'
<1> USE DEF Types
<1>1. engine[c] \in Calls /\ kind[c] \in Sends
  BY DEF Send, At, Readiness, Ready, Holding
<1>2. [kind |-> kind[c], of |-> c] \in Operation
  BY <1>1 DEF Operation, Sends
<1>3. ops' \in [Calls -> Seq(Operation)]
  <2>1. Append(ops[engine[c]], [kind |-> kind[c], of |-> c]) \in Seq(Operation)
    BY <1>1, <1>2, AppendProperties DEF TypeOK
  <2> QED BY <1>1, <2>1 DEF Send, TypeOK
<1>4. TypeOK'
  BY <1>3 DEF Send, Goto, Location, Monitored, TypeOK, records, table, monitor, bounds
<1>5. Readiness'
  BY DEF Send, At, Goto, TypeOK, Readiness, Ready, Holding, Monitored, table
<1> QED BY <1>4, <1>5

LEMMA StartFailsTypes ==
  ASSUME Types, NEW c \in Calls, StartFails(c)
  PROVE  Types'
<1> USE DEF Types
<1>1. turn' \in [Calls -> Statuses]
  BY DEF StartFails, Statuses, TypeOK
<1>2. faults' \in 0..MaxFaults
  BY BoundsAssumption DEF StartFails, TypeOK
<1>3. TypeOK'
  BY <1>1, <1>2 DEF StartFails, Goto, Location, TypeOK, table, engines, monitor
<1>4. Readiness'
  BY DEF StartFails, Goto, TypeOK, Readiness, Ready, Holding, Monitored, table
<1> QED BY <1>3, <1>4

LEMMA InterruptTypes ==
  ASSUME Types, NEW c \in Calls, Interrupt(c)
  PROVE  Types'
<1> USE DEF Types
<1>1. of[c] \in Threads /\ loaded[of[c]] \in Calls
  BY DEF Interrupt, Loaded, TypeOK
<1>2. lru' \in Seq(Threads) /\ IsInjective(lru')
  BY <1>1, TouchedThread DEF Interrupt, TypeOK, Readiness
<1>3. TypeOK'
  BY <1>1, <1>2 DEF Interrupt, TypeOK, records, calls, monitor, bounds
<1>4. Readiness'
  BY <1>2 DEF Interrupt, Readiness, Ready, calls
<1> QED BY <1>3, <1>4

SteerTyped == [pc : {"new", "load", "save", "resave", "done"}, turn : Calls \cup {None},
               status : Statuses]

LEMMA SteerTypes ==
  ASSUME Types, NEW s \in Steers, Steer(s)
  PROVE  Types'
<1> USE DEF Types
<1>1. ASSUME NEW c \in Calls, SteerBegin(s, c) PROVE Types'
  <2>1. of[c] \in Threads
    BY <1>1 DEF SteerBegin, Loaded
  <2>2. lru' \in Seq(Threads) /\ IsInjective(lru')
    BY <1>1, <2>1, TouchedThread DEF SteerBegin, TypeOK, Readiness
  <2>3. steer' = [steer EXCEPT ![s] = [steer[s] EXCEPT !.pc = "load", !.turn = c]]
    BY <1>1 DEF SteerBegin
  <2>4. steer' \in [Steers -> SteerTyped]
    <3>1. steer \in [Steers -> SteerTyped]
      BY DEF TypeOK, SteerTyped
    <3>2. [steer[s] EXCEPT !.pc = "load", !.turn = c] \in SteerTyped
      BY <3>1 DEF SteerTyped
    <3> QED BY <2>3, <3>1, <3>2
  <2>5. TypeOK'
    <3>1. UNCHANGED <<up, records, loaded, active, flagged, engines, calls, monitor, interrupted, bounds>>
      BY <1>1 DEF SteerBegin
    <3> QED BY <2>2, <2>4, <3>1 DEF SteerTyped, TypeOK, records, engines, calls, monitor, bounds
  <2>6. \A t \in Steers : steer'[t].pc # "new" => steer'[t].turn \in Calls
    BY <2>3 DEF Readiness, TypeOK
  <2> QED BY <1>1, <2>2, <2>5, <2>6 DEF SteerBegin, Readiness, Ready, calls
<1>2. CASE SteerLoad(s)
  <2>1. steer[s].turn \in Calls /\ turn[steer[s].turn] \in Statuses
    BY <1>2 DEF SteerLoad, Readiness, TypeOK
  <2>2. steer' = [steer EXCEPT ![s] = [steer[s] EXCEPT !.pc = "save", !.status = turn[steer[s].turn]]]
    BY <1>2 DEF SteerLoad
  <2>3. steer' \in [Steers -> SteerTyped]
    <3>1. steer[s] \in SteerTyped /\ steer \in [Steers -> SteerTyped]
      BY DEF TypeOK, SteerTyped
    <3>2. [steer[s] EXCEPT !.pc = "save", !.status = turn[steer[s].turn]] \in SteerTyped
      BY <2>1, <3>1 DEF SteerTyped
    <3> QED BY <2>2, <3>1, <3>2
  <2>4. TypeOK'
    BY <1>2, <2>3 DEF SteerTyped, SteerLoad, TypeOK, records, table, engines, calls, monitor, bounds
  <2>5. \A t \in Steers : steer'[t].pc # "new" => steer'[t].turn \in Calls
    BY <2>1, <2>2 DEF Readiness, TypeOK
  <2> QED BY <1>2, <2>4, <2>5 DEF SteerLoad, Readiness, Ready, calls, table
<1>3. CASE SteerSave(s)
  <2>1. steer[s].turn \in Calls
    BY <1>3 DEF SteerSave, Readiness
  <2>2. turn' \in [Calls -> Statuses]
    BY <1>3, <2>1 DEF SteerSave, TypeOK
  <2>3. steer' \in [Steers -> SteerTyped]
    <3>1. steer[s] \in SteerTyped /\ steer \in [Steers -> SteerTyped]
      BY DEF TypeOK, SteerTyped
    <3>2. PICK l \in {"resave", "done"} : steer' = [steer EXCEPT ![s] = [steer[s] EXCEPT !.pc = l]]
      BY <1>3 DEF SteerSave
    <3>3. [steer[s] EXCEPT !.pc = l] \in SteerTyped
      BY <3>1 DEF SteerTyped
    <3> QED BY <3>1, <3>2, <3>3
  <2>4. TypeOK'
    BY <1>3, <2>2, <2>3 DEF SteerTyped, SteerSave, TypeOK, table, engines, calls, monitor, bounds
  <2>5. \A t \in Steers : steer'[t].pc # "new" => steer'[t].turn \in Calls
    BY <1>3, <2>1 DEF SteerSave, Readiness, TypeOK
  <2> QED BY <1>3, <2>4, <2>5 DEF SteerSave, Readiness, Ready, calls, table
<1> QED BY <1>1, <1>2, <1>3 DEF Steer

LEMMA SaidTyped ==
  ASSUME Types, NEW e \in Calls, running[e] # Idle, NEW w \in {"activity"} \cup Outcomes
  PROVE  Said(e, w) \in Seq(Event)
<1>1. running[e] \in Operation
  BY DEF Types, TypeOK
<1>2. [what |-> w, of |-> running[e].of] \in Event
  BY <1>1 DEF Operation, Event
<1>3. events[e] \in Seq(Event)
  BY DEF Types, TypeOK
<1> QED BY <1>2, <1>3, AppendProperties DEF Said

(* A step of an engine leaves the calls, the table and the monitors alone. *)
LEMMA EngineTypes ==
  ASSUME Types, UNCHANGED <<up, records, table, calls, monitor, steer, interrupted, faults, crashes>>,
         ops' \in [Calls -> Seq(Operation)], events' \in [Calls -> Seq(Event)],
         running' \in [Calls -> Operation \cup {Idle}],
         canceled' \subseteq Calls, stopped' \subseteq Calls, extras' \in 0..MaxExtras
  PROVE  Types'
<1>1. TypeOK'
  BY DEF Types, TypeOK, records, table, calls, monitor
<1>2. Readiness'
  BY DEF Types, Readiness, Ready, calls, table
<1> QED BY <1>1, <1>2 DEF Types

LEMMA TakeOpTypes ==
  ASSUME Types, NEW e \in Calls, TakeOp(e)
  PROVE  Types'
<1> DEFINE op == Head(ops[e])
<1>1. ops[e] \in Seq(Operation) /\ ops[e] # <<>>
  BY DEF TakeOp, Types, TypeOK
<1>2. op \in Operation /\ Tail(ops[e]) \in Seq(Operation)
  BY <1>1, HeadTailProperties
<1>3. ops' \in [Calls -> Seq(Operation)]
  BY <1>2 DEF TakeOp, Types, TypeOK
<1>4. events' \in [Calls -> Seq(Event)]
  <2>1. [what |-> "activity", of |-> op.of] \in Event
    BY <1>2 DEF Operation, Event
  <2>2. Append(events[e], [what |-> "activity", of |-> op.of]) \in Seq(Event)
    BY <2>1, AppendProperties DEF Types, TypeOK
  <2> QED BY <2>2 DEF TakeOp, Types, TypeOK
<1>5. running' \in [Calls -> Operation \cup {Idle}] /\ canceled' \subseteq Calls /\ stopped' \subseteq Calls
  <2>1. /\ running \in [Calls -> Operation \cup {Idle}]
        /\ canceled \subseteq Calls /\ stopped \subseteq Calls
    BY DEF Types, TypeOK
  <2>2. /\ running' \in {running, [running EXCEPT ![e] = op]}
        /\ canceled' \in {canceled, canceled \ {e}} /\ stopped' \in {stopped, stopped \cup {e}}
    BY DEF TakeOp
  <2> QED BY <1>2, <2>1, <2>2
<1>6. UNCHANGED <<up, records, table, calls, monitor, steer, interrupted, bounds>>
  BY DEF TakeOp
<1>7. extras' \in 0..MaxExtras
  BY <1>6 DEF Types, TypeOK, bounds
<1> QED BY <1>3, <1>4, <1>5, <1>6, <1>7, EngineTypes DEF bounds

LEMMA WorkTypes ==
  ASSUME Types, NEW e \in Calls, Work(e)
  PROVE  Types'
<1>1. Said(e, "activity") \in Seq(Event)
  BY SaidTyped DEF Work
<1>2. events' \in [Calls -> Seq(Event)]
  BY <1>1 DEF Work, Types, TypeOK
<1> QED BY <1>2, EngineTypes DEF Work, Types, TypeOK, bounds

LEMMA CompleteTypes ==
  ASSUME Types, NEW e \in Calls, NEW o \in Outcomes, Complete(e, o)
  PROVE  Types'
<1>1. Said(e, o) \in Seq(Event)
  BY SaidTyped DEF Complete
<1>2. events' \in [Calls -> Seq(Event)] /\ running' \in [Calls -> Operation \cup {Idle}]
  BY <1>1 DEF Complete, Types, TypeOK
<1>3. ops' \in [Calls -> Seq(Operation)]
  <2>1. [kind |-> "send", of |-> Extra] \in Operation
    BY DEF Operation
  <2>2. Append(ops[e], [kind |-> "send", of |-> Extra]) \in Seq(Operation)
    BY <2>1, AppendProperties DEF Types, TypeOK
  <2>3. ops' = ops \/ ops' = [ops EXCEPT ![e] = Append(@, [kind |-> "send", of |-> Extra])]
    BY DEF Complete
  <2> QED BY <2>2, <2>3 DEF Types, TypeOK
<1>4. extras' \in 0..MaxExtras
  BY BoundsAssumption DEF Complete, Types, TypeOK
<1> QED BY <1>2, <1>3, <1>4, EngineTypes DEF Complete, Types, TypeOK

LEMMA ResumeTypes ==
  ASSUME Types, NEW e \in Calls, Resume(e)
  PROVE  Types'
<1>1. [kind |-> "send", of |-> Extra] \in Operation
  BY DEF Operation
<1>2. running' \in [Calls -> Operation \cup {Idle}] /\ canceled' \subseteq Calls
  BY <1>1 DEF Resume, Types, TypeOK
<1>3. extras' \in 0..MaxExtras
  BY BoundsAssumption DEF Resume, Types, TypeOK
<1> QED BY <1>2, <1>3, EngineTypes DEF Resume, Types, TypeOK

(* What a monitor hears. *)
LEMMA HearsEvent ==
  ASSUME Types, NEW c \in Calls, Hear(c)
  PROVE  /\ engine[c] \in Calls /\ events[engine[c]] \in Seq(Event) /\ events[engine[c]] # <<>>
         /\ Head(events[engine[c]]) \in Event /\ Tail(events[engine[c]]) \in Seq(Event)
<1>1. engine[c] \in Calls
  BY DEF Hear, At, Types, Readiness, Ready, Holding, Monitored
<1>2. events[engine[c]] \in Seq(Event) /\ events[engine[c]] # <<>>
  BY <1>1 DEF Hear, Types, TypeOK
<1> QED BY <1>1, <1>2, HeadTailProperties

LEMMA HearTypes ==
  ASSUME Types, NEW c \in Calls, Hear(c)
  PROVE  Types'
<1> DEFINE ev == Head(events[engine[c]])
<1>1. engine[c] \in Calls /\ ev \in Event /\ Tail(events[engine[c]]) \in Seq(Event)
  BY HearsEvent
<1>2. events' \in [Calls -> Seq(Event)]
  BY <1>1 DEF Hear, Types, TypeOK
<1>3. pc' \in [Calls -> Location] /\ pc'[c] \in {"listen", "judge"} /\ \A d \in Calls \ {c} : pc'[d] = pc[d]
  BY DEF Hear, At, Goto, Types, TypeOK, Location, Monitored
<1>4. outcome' \in [Calls -> Outcomes] /\ saw' \in [Calls -> BOOLEAN] /\ heard' \in [Calls -> Calls \cup {None, Extra}]
  <2>1. ev.what \in {"activity"} \cup Outcomes /\ ev.of \in Calls \cup {Extra}
    BY <1>1 DEF Event
  <2> QED BY <2>1 DEF Hear, Types, TypeOK
<1>5. TypeOK'
  <2>1. UNCHANGED <<up, records, table, ops, running, canceled, stopped, kind, of, engine, steer,
                    interrupted, bounds>>
    BY DEF Hear
  <2> QED BY <1>2, <1>3, <1>4, <2>1 DEF Types, TypeOK, records, table, bounds
<1>6. Readiness'
  <2>1. Ready(c) /\ pc[c] = "listen"
    BY DEF Hear, At, Types, Readiness
  <2> QED BY <1>3, <2>1 DEF Hear, Types, Readiness, Ready, Holding, Monitored, table
<1> QED BY <1>5, <1>6 DEF Types

LEMMA MonitorTypes ==
  ASSUME Types, NEW c \in Calls,
         HearEnd(c) \/ Judge(c) \/ Store(c) \/ Announce(c) \/ MonitorFails(c)
  PROVE  Types'
<1>1. PICK l \in Monitored \cup {"gone"} : Goto(c, l) /\ pc[c] \in Monitored
  BY DEF HearEnd, Judge, Store, Announce, MonitorFails, At, Monitored
<1>2. Verdict(c) \in Outcomes /\ outcome[c] \in Outcomes
  BY DEF Verdict, Outcomes, Types, TypeOK
<1>3. /\ turn' \in [Calls -> Statuses] /\ told' \in [Calls -> Outcomes \cup {None}]
      /\ outcome' \in [Calls -> Outcomes]
  <2>1. turn \in [Calls -> Statuses] /\ told \in [Calls -> Outcomes \cup {None}]
        /\ outcome \in [Calls -> Outcomes] /\ outcome[c] \in Statuses
    BY <1>2 DEF Statuses, Types, TypeOK
  <2>2. turn' \in {turn, [turn EXCEPT ![c] = outcome[c]]}
    BY DEF HearEnd, Judge, Store, Announce, MonitorFails, records
  <2>3. told' \in {told, [told EXCEPT ![c] = outcome[c]]}
    BY DEF HearEnd, Judge, Store, Announce, MonitorFails, records
  <2>4. outcome' \in {outcome, [outcome EXCEPT ![c] = Verdict(c)]}
    BY DEF HearEnd, Judge, Store, Announce, MonitorFails, monitor
  <2> HIDE DEF Outcomes, Statuses
  <2> QED BY <1>2, <2>1, <2>2, <2>3, <2>4
<1>4. faults' \in 0..MaxFaults
  BY BoundsAssumption DEF HearEnd, Judge, Store, Announce, MonitorFails, Types, TypeOK, bounds
<1>5. UNCHANGED <<up, table, engines, kind, of, engine, saw, heard, steer, interrupted, extras, crashes>>
  BY DEF HearEnd, Judge, Store, Announce, MonitorFails, monitor, bounds
<1>6. TypeOK'
  BY <1>1, <1>3, <1>4, <1>5 DEF Goto, Location, Types, TypeOK, table, engines
<1>7. Readiness'
  BY <1>1, <1>5 DEF Goto, Types, TypeOK, Readiness, Ready, Holding, Monitored, table
<1> QED BY <1>6, <1>7 DEF Types

LEMMA ClearTypes ==
  ASSUME Types, NEW c \in Calls, Clear(c)
  PROVE  Types'
<1> USE DEF Types
<1>1. of[c] \in Threads
  BY DEF Clear, At, Readiness, Ready
<1>2. lru' \in Seq(Threads) /\ IsInjective(lru')
  BY <1>1, TouchedThread DEF Clear, TypeOK, Readiness
<1>3. TypeOK'
  BY <1>1, <1>2 DEF Clear, Goto, Location, TypeOK, records, engines, monitor, bounds
<1>4. Readiness'
  BY <1>2 DEF Clear, At, Goto, TypeOK, Readiness, Ready, Holding, Monitored
<1> QED BY <1>3, <1>4

LEMMA CrashTypes ==
  ASSUME Types, Crash
  PROVE  Types'
<1>1. /\ steer' \in [Steers -> SteerTyped]
      /\ \A s \in Steers : steer'[s].pc # "new" => steer'[s].turn \in Calls
  <2>1. ASSUME NEW s \in Steers
        PROVE  /\ steer'[s] \in SteerTyped
               /\ steer'[s].pc # "new" => steer'[s].turn \in Calls
    <3>1. steer[s] \in SteerTyped /\ (steer[s].pc # "new" => steer[s].turn \in Calls)
      BY DEF Types, TypeOK, SteerTyped, Readiness
    <3>2. steer'[s] = [steer[s] EXCEPT !.pc = IF steer[s].pc = "new" THEN "new" ELSE "done"]
      BY DEF Crash
    <3> QED BY <3>1, <3>2 DEF SteerTyped
  <2>2. steer' = [s \in Steers |-> steer'[s]]
    BY DEF Crash
  <2> QED BY <2>1, <2>2
<1>2. crashes' \in 0..MaxCrashes
  BY BoundsAssumption DEF Crash, Types, TypeOK
<1>3. lru' \in Seq(Threads) /\ IsInjective(lru')
  BY DEF Crash, IsInjective
<1>4. pc' \in [Calls -> Location] /\ \A d \in Calls : pc'[d] \in {"new", "gone"} /\ (pc'[d] # "new" => pc[d] # "new")
  BY DEF Crash, Location
<1>5. TypeOK'
  <2>1. \A S, T : <<>> \in Seq(S) /\ IsInjective(<<>>)
    BY DEF IsInjective
  <2>2. UNCHANGED <<records, kind, of, interrupted, extras, faults>>
    BY DEF Crash
  <2>3. /\ loaded' \in [Threads -> Calls \cup {None}] /\ active' \in [Threads -> Calls \cup {None}]
        /\ flagged' \in [Threads -> BOOLEAN]
        /\ ops' \in [Calls -> Seq(Operation)] /\ events' \in [Calls -> Seq(Event)]
        /\ running' \in [Calls -> Operation \cup {Idle}]
    BY <2>1 DEF Crash
  <2>4. /\ canceled' \subseteq Calls /\ stopped' \subseteq Calls /\ up' \in BOOLEAN
        /\ engine' \in [Calls -> Calls \cup {None}] /\ outcome' \in [Calls -> Outcomes]
        /\ saw' \in [Calls -> BOOLEAN] /\ heard' \in [Calls -> Calls \cup {None, Extra}]
    BY DEF Crash, Outcomes
  <2> QED BY <1>1, <1>2, <1>3, <1>4, <2>2, <2>3, <2>4 DEF SteerTyped, Types, TypeOK, records
<1>6. Readiness'
  <2>1. UNCHANGED <<kind, of>>
    BY DEF Crash
  <2>2. ASSUME NEW c \in Calls PROVE Ready(c)'
    BY <1>4, <2>1 DEF Types, Readiness, Ready, Holding, Monitored
  <2> QED BY <1>1, <1>3, <2>2 DEF Readiness
<1> QED BY <1>5, <1>6 DEF Types

LEMMA OpenTypes ==
  ASSUME Types, Open
  PROVE  Types'
<1>1. turn' \in [Calls -> Statuses]
  BY DEF Open, Recovered, Types, TypeOK, Statuses, Outcomes
<1>2. TypeOK'
  BY <1>1 DEF Open, Types, TypeOK, table, engines, calls, monitor, bounds
<1>3. Readiness'
  BY DEF Open, Types, Readiness, Ready, table, calls
<1> QED BY <1>2, <1>3 DEF Types

LEMMA TypesStep == Types /\ [Next]_vars => Types'
<1> SUFFICES ASSUME Types, [Next]_vars PROVE Types'
  OBVIOUS
<1>1. CASE UNCHANGED vars
  BY <1>1 DEF vars, records, table, engines, calls, monitor, bounds, Types, TypeOK, Readiness, Ready
<1>2. ASSUME NEW c \in Calls, Call(c) PROVE Types'
  BY <1>2, BeginTypes, LoadTypes, CheckTypes, MoveTypes, SaveTypes, RegisterTypes, SendTypes,
     StartFailsTypes DEF Call
<1>3. ASSUME NEW c \in Calls, Interrupt(c) \/ Engine(c) \/ Resume(c) PROVE Types'
  BY <1>3, InterruptTypes, TakeOpTypes, WorkTypes, CompleteTypes, ResumeTypes DEF Engine
<1>4. ASSUME NEW c \in Calls, Monitor(c) \/ MonitorFails(c) PROVE Types'
  BY <1>4, HearTypes, MonitorTypes, ClearTypes DEF Monitor
<1> QED BY <1>1, <1>2, <1>3, <1>4, SteerTypes, CrashTypes, OpenTypes DEF Next

(* Every record, channel, handle and entry of the table keeps its type,    *)
(* and a call that acts on an engine has one.                              *)
THEOREM TypeCorrect == Spec => []TypeOK
<1>1. Types => TypeOK
  BY DEF Types
<1> QED BY <1>1, InitTypes, TypesStep, PTL DEF Spec

-----------------------------------------------------------------------------
(* While the process is down no turn is being started or monitored. *)
Down == ~up => \A c \in Calls : pc[c] \in {"new", "gone"}

(* Only Crash ends the process, and without it nothing but Open runs.      *)
LEMMA StaysUp ==
  ASSUME Next, ~Crash
  PROVE  up'
<1>1. CASE Open
  BY <1>1 DEF Open
<1>2. ASSUME NEW c \in Calls, Call(c) \/ Interrupt(c) \/ Engine(c) \/ Resume(c)
                              \/ Monitor(c) \/ MonitorFails(c)
      PROVE  up'
  <2>1. CASE Call(c)
    BY <2>1 DEF Call, Begin, Load, Check, Move, Save, Register, Send, StartFails, At
  <2>2. CASE Interrupt(c) \/ Engine(c) \/ Resume(c)
    BY <2>2 DEF Interrupt, Engine, TakeOp, Work, Complete, Resume
  <2>3. CASE Monitor(c) \/ MonitorFails(c)
    BY <2>3 DEF Monitor, Hear, HearEnd, Judge, Store, Announce, Clear, MonitorFails, At
  <2> QED BY <1>2, <2>1, <2>2, <2>3
<1>3. ASSUME NEW s \in Steers, Steer(s) PROVE up'
  <2>1. ASSUME NEW c \in Calls, SteerBegin(s, c) PROVE up'
    <3>1. up /\ up' = up
      BY <2>1, Zenon DEF SteerBegin
    <3> QED BY <3>1
  <2>2. CASE SteerLoad(s)
    <3>1. up /\ up' = up
      BY <2>2, Zenon DEF SteerLoad
    <3> QED BY <3>1
  <2>3. CASE SteerSave(s)
    BY <2>3, Zenon DEF SteerSave
  <2> QED BY <1>3, <2>1, <2>2, <2>3 DEF Steer
<1> QED BY <1>1, <1>2, <1>3 DEF Next

LEMMA DownKeeps ==
  ASSUME Down, Next
  PROVE  Down'
<1>1. CASE Crash
  BY <1>1 DEF Crash, Down
<1> QED BY <1>1, StaysUp DEF Down

-----------------------------------------------------------------------------
(* Without steers: the records of the turns.                               *)

(* The record of a turn follows its call and then its monitor. *)
Early  == {"new", "load", "check", "move", "save"}
During == {"register", "route", "listen", "judge", "store"}

Follows(c) ==
  /\ pc[c] \in Early => turn[c] = "absent"
  /\ pc[c] \in During => turn[c] = "InProgress"
  /\ pc[c] = "announce" => turn[c] = outcome[c]
  /\ told[c] # None => pc[c] \in {"clear", "gone"} /\ turn[c] = told[c]

Recorded == \A c \in Calls : Follows(c)

LEMMA RecordTyped ==
  ASSUME Types
  PROVE  /\ pc \in [Calls -> Location]
         /\ turn \in [Calls -> Statuses] /\ told \in [Calls -> Outcomes \cup {None}]
         /\ outcome \in [Calls -> Outcomes] /\ interrupted \subseteq Calls
         /\ steer \in [Steers -> SteerTyped]
         /\ \A s \in Steers : steer[s].pc # "new" => steer[s].turn \in Calls
BY DEF Types, TypeOK, Readiness, SteerTyped

(* A call that moves on before its turn is saved, or after it, touches no  *)
(* record.                                                                 *)
LEMMA Strides ==
  ASSUME Types, Recorded, NEW c \in Calls, NEW l, Goto(c, l), UNCHANGED records,
         \A d \in Calls : outcome'[d] = outcome[d] \/ (d = c /\ l # "announce"),
         \/ pc[c] \in Early /\ l \in Early
         \/ pc[c] \in During /\ l \in During
         \/ l = "gone"
  PROVE  Recorded'
<1>1. \A d \in Calls : pc'[d] = IF d = c THEN l ELSE pc[d]
  BY RecordTyped DEF Goto
<1> QED BY <1>1 DEF Recorded, Follows, Early, During, records

LEMMA CallRecorded ==
  ASSUME Types, Recorded, NEW c \in Calls, Call(c)
  PROVE  Recorded'
<1>1. ASSUME NEW h \in Threads, NEW k \in Kinds, Begin(c, h, k) PROVE Recorded'
  <2>1. PICK l \in {"check", "gone", "load"} : Goto(c, l)
    BY <1>1 DEF Begin
  <2> QED BY <1>1, <2>1, Strides DEF Begin, At, Early, monitor
<1>2. CASE Load(c) \/ Check(c) \/ Move(c)
  <2>1. PICK l \in {"check", "gone", "move", "save"} : Goto(c, l)
    BY <1>2 DEF Load, Check, Move
  <2> QED BY <1>2, <2>1, Strides DEF Load, Check, Move, At, Early, monitor
<1>3. CASE Register(c) \/ Send(c)
  <2>1. PICK l \in {"route", "listen", "gone"} : Goto(c, l)
    BY <1>3 DEF Register, Send
  <2> QED BY <1>3, <2>1, Strides DEF Register, Send, At, During, monitor
<1>4. CASE Save(c)
  <2>1. \A d \in Calls : pc'[d] = IF d = c THEN "register" ELSE pc[d]
    BY <1>4, RecordTyped DEF Save, Goto
  <2>2. \A d \in Calls : turn'[d] = IF d = c THEN "InProgress" ELSE turn[d]
    BY <1>4, RecordTyped DEF Save
  <2> QED BY <1>4, <2>1, <2>2 DEF Save, At, Recorded, Follows, Early, During, monitor
<1>5. CASE StartFails(c)
  <2>1. \A d \in Calls : pc'[d] = IF d = c THEN "gone" ELSE pc[d]
    BY <1>5, RecordTyped DEF StartFails, Goto
  <2>2. told[c] = None
    BY <1>5 DEF StartFails, Recorded, Follows
  <2>3. \A d \in Calls \ {c} : turn'[d] = turn[d]
    BY <1>5, RecordTyped DEF StartFails
  <2> QED BY <1>5, <2>1, <2>2, <2>3 DEF StartFails, Recorded, Follows, Early, During, monitor
<1> QED BY <1>1, <1>2, <1>3, <1>4, <1>5 DEF Call

LEMMA MonitorRecorded ==
  ASSUME Types, Recorded, NEW c \in Calls, Monitor(c) \/ MonitorFails(c)
  PROVE  Recorded'
<1>1. CASE Hear(c)
  <2>1. pc[c] = "listen" /\ UNCHANGED records /\ \A d \in Calls \ {c} : outcome'[d] = outcome[d]
    BY <1>1, RecordTyped DEF Hear, At
  <2>2. Goto(c, "listen") \/ Goto(c, "judge")
    BY <1>1, <2>1, RecordTyped DEF Hear, Goto
  <2> QED BY <2>1, <2>2, Strides DEF During
<1>2. CASE HearEnd(c)
  BY <1>2, Strides DEF HearEnd, At, monitor, During
<1>3. CASE Judge(c)
  <2>1. \A d \in Calls \ {c} : outcome'[d] = outcome[d]
    BY <1>3, RecordTyped DEF Judge
  <2> QED BY <1>3, <2>1, Strides DEF Judge, At, During
<1>4. CASE Store(c) \/ Announce(c)
  <2>1. \A d \in Calls : pc'[d] = IF d = c THEN pc'[c] ELSE pc[d]
    BY <1>4, RecordTyped DEF Store, Announce, Goto
  <2>2. CASE Store(c)
    <3>1. turn'[c] = outcome[c] /\ pc'[c] = "announce" /\ \A d \in Calls \ {c} : turn'[d] = turn[d]
      BY <2>2, RecordTyped DEF Store, Goto
    <3> QED BY <2>1, <2>2, <3>1 DEF Store, At, Recorded, Follows, Early, During, monitor
  <2>3. CASE Announce(c)
    <3>1. told'[c] = outcome[c] /\ pc'[c] = "clear" /\ \A d \in Calls \ {c} : told'[d] = told[d]
      BY <2>3, RecordTyped DEF Announce, Goto
    <3> QED BY <2>1, <2>3, <3>1 DEF Announce, At, Recorded, Follows, Early, During, monitor
  <2> QED BY <1>4, <2>2, <2>3
<1>5. CASE Clear(c) \/ MonitorFails(c)
  BY <1>5, Strides DEF Clear, MonitorFails, monitor
<1> QED BY <1>1, <1>2, <1>3, <1>4, <1>5 DEF Monitor

LEMMA RestartRecorded ==
  ASSUME Types, Recorded, Down, Crash \/ Open
  PROVE  Recorded'
<1>1. CASE Crash
  BY <1>1 DEF Crash, records, Recorded, Follows, Early, During
<1>2. CASE Open
  <2>1. \A d \in Calls : pc[d] \in {"new", "gone"} /\ pc'[d] = pc[d]
    BY <1>2 DEF Down, Open, calls
  <2>2. \A d \in Calls : turn'[d] = IF turn[d] = "InProgress" THEN "Interrupted" ELSE turn[d]
    BY <1>2 DEF Open, Recovered
  <2>3. \A d \in Calls : told[d] # None => turn'[d] = turn[d]
    BY <2>2, RecordTyped DEF Recorded, Follows, Outcomes
  <2> QED BY <1>2, <2>1, <2>2, <2>3 DEF Open, Recorded, Follows, Early, During
<1> QED BY <1>1, <1>2

LEMMA RecordedStep ==
  ASSUME Steers = {}, Types, Recorded, Down, [Next]_vars
  PROVE  Recorded'
<1>1. ASSUME NEW c \in Calls, Interrupt(c) \/ Engine(c) \/ Resume(c) PROVE Recorded'
  BY <1>1 DEF Interrupt, Engine, TakeOp, Work, Complete, Resume, records, calls, monitor, Recorded, Follows
<1>2. CASE UNCHANGED vars
  BY <1>2 DEF vars, records, calls, monitor, Recorded, Follows
<1> QED BY <1>1, <1>2, CallRecorded, MonitorRecorded, RestartRecorded DEF Next

IInv == Types /\ Recorded /\ Down

LEMMA Invariants ==
  ASSUME Steers = {}
  PROVE  Spec => []IInv
<1>1. Init => IInv
  <2>1. Init => Recorded /\ Down
    BY DEF Init, Recorded, Follows, Early, During, Down
  <2> QED BY <2>1, InitTypes DEF IInv
<1>2. IInv /\ [Next]_vars => IInv'
  <2>1. ASSUME Down, UNCHANGED vars PROVE Down'
    BY <2>1 DEF Down, vars, calls
  <2> QED BY <2>1, TypesStep, RecordedStep, DownKeeps DEF IInv
<1> QED BY <1>1, <1>2, PTL DEF Spec

-----------------------------------------------------------------------------
(* Every step is one of TurnRecords, or changes no record.                 *)

LEMMA InitRecords == Init => Records!Init
BY DEF Init, Records!Init

LEMMA StoreEnds ==
  ASSUME IInv, NEW c \in Calls, Store(c)
  PROVE  Records!End(c)
<1>1. turn[c] = "InProgress" /\ outcome[c] \in Outcomes
  BY RecordTyped DEF Store, At, IInv, Recorded, Follows, During
<1> QED BY <1>1 DEF Store, Records!End, Records!Outcomes, Outcomes

LEMMA AnnounceAnnounces ==
  ASSUME IInv, NEW c \in Calls, Announce(c)
  PROVE  Records!Announce(c)
<1>1. turn[c] = outcome[c] /\ outcome[c] \in Outcomes /\ told[c] = None
  BY RecordTyped DEF Announce, At, IInv, Recorded, Follows
<1> QED BY <1>1 DEF Announce, Records!Announce, Records!Outcomes, Outcomes

LEMMA StartStarts ==
  ASSUME IInv, NEW c \in Calls, Save(c) \/ StartFails(c)
  PROVE  Records!Start(c) \/ UNCHANGED records
<1>1. pc[c] = "save" => turn[c] = "absent"
  BY DEF IInv, Recorded, Follows, Early
<1> QED BY <1>1 DEF Save, StartFails, At, Records!Start, records

LEMMA StepRecords ==
  ASSUME Steers = {}, IInv, [Next]_vars
  PROVE  [Records!Next]_records
<1>1. CASE UNCHANGED vars
  BY <1>1 DEF vars
<1>2. ASSUME NEW c \in Calls, Save(c) \/ StartFails(c) \/ Store(c) \/ Announce(c)
      PROVE  [Records!Next]_records
  BY <1>2, StartStarts, StoreEnds, AnnounceAnnounces DEF Records!Next
<1>3. CASE Open
  BY <1>3 DEF Open, Recovered, Records!Next, Records!Restart
<1>4. CASE Crash
  BY <1>4 DEF Crash
<1>5. ASSUME NEW c \in Calls, Call(c), ~(Save(c) \/ StartFails(c))
      PROVE  UNCHANGED records
  BY <1>5 DEF Call, Begin, Load, Check, Move, Register, Send
<1>6. ASSUME NEW c \in Calls, Interrupt(c) \/ Engine(c) \/ Resume(c)
      PROVE  UNCHANGED records
  BY <1>6 DEF Engine, Interrupt, TakeOp, Work, Complete, Resume
<1>7. ASSUME NEW c \in Calls, Monitor(c) \/ MonitorFails(c), ~(Store(c) \/ Announce(c))
      PROVE  UNCHANGED records
  BY <1>7 DEF Monitor, Hear, HearEnd, Judge, Clear, MonitorFails
<1> QED BY <1>1, <1>2, <1>3, <1>4, <1>5, <1>6, <1>7 DEF Next

(* Without steers, the records of the turns implement TurnRecords: each    *)
(* starts once, ends once, is announced with the status it ended with, and *)
(* is interrupted by a restart only while it is in progress.               *)
THEOREM RecordsImplemented ==
  ASSUME Steers = {}
  PROVE  Spec => ImplementsRecords
<1>1. IInv /\ [Next]_vars => [Records!Next]_<<turn, told>>
  BY StepRecords DEF records
<1> QED BY <1>1, InitRecords, Invariants, PTL DEF Spec, ImplementsRecords, Records!Spec

-----------------------------------------------------------------------------
(* With steers: what a steer_turn has in hand of the turn it steers is the *)
(* turn in progress or, once the monitor has written, the turn's own end.  *)

Afoot(s)  == steer[s].pc \in {"load", "save", "resave"}
InHand(c) == pc[c] \notin Early /\ turn[c] \in {"InProgress", outcome[c]} /\ told[c] \in {None, outcome[c]}

Carried(s) ==
  /\ Afoot(s) => InHand(steer[s].turn)
  /\ steer[s].pc \in {"save", "resave"} =>
       \/ steer[s].status = "InProgress"
       \/ steer[s].status = outcome[steer[s].turn] /\ pc[steer[s].turn] \notin During

(* Only the active turn of a thread is steered. *)
Steerable(h) == active[h] # None => InHand(active[h])

Shown(c) ==
  /\ pc[c] \in Early => turn[c] = "absent"
  /\ pc[c] \in During => turn[c] = "InProgress"
  /\ pc[c] = "announce" => turn[c] = outcome[c] \/ (turn[c] = "InProgress" /\ Steered(c))
  /\ told[c] # None => /\ pc[c] \in {"clear", "gone"}
                       /\ turn[c] = told[c] \/ (turn[c] \in {"InProgress", "Interrupted"} /\ Steered(c))

Asleep == ~up => (\A h \in Threads : active[h] = None) /\ (\A s \in Steers : ~Afoot(s))

Displayed == (\A c \in Calls : Shown(c)) /\ (\A s \in Steers : Carried(s)) /\ (\A h \in Threads : Steerable(h))

LEMMA ShownTyped ==
  ASSUME Types
  PROVE  /\ pc \in [Calls -> Location] /\ active \in [Threads -> Calls \cup {None}]
         /\ turn \in [Calls -> Statuses] /\ told \in [Calls -> Outcomes \cup {None}]
         /\ outcome \in [Calls -> Outcomes] /\ steer \in [Steers -> SteerTyped]
         /\ \A s \in Steers : Afoot(s) => steer[s].turn \in Calls
         /\ None \notin Calls /\ "InProgress" \notin Outcomes
<1>1. active \in [Threads -> Calls \cup {None}]
  BY DEF Types, TypeOK
<1>2. "InProgress" \notin Outcomes
  BY DEF Outcomes
<1>3. /\ pc \in [Calls -> Location] /\ turn \in [Calls -> Statuses]
      /\ told \in [Calls -> Outcomes \cup {None}]
      /\ outcome \in [Calls -> Outcomes] /\ steer \in [Steers -> SteerTyped]
      /\ \A s \in Steers : Afoot(s) => steer[s].turn \in Calls
  BY RecordTyped DEF Afoot, Types
<1> QED BY <1>1, <1>2, <1>3, NamesAssumption

(* What the steers and the table hold stays so, when the turns in their    *)
(* hands do.                                                               *)
LEMMA HandsStay ==
  ASSUME Types, Displayed, UNCHANGED steer,
         \A c \in Calls : InHand(c) =>
           InHand(c)' /\ (pc[c] \notin During => pc'[c] \notin During /\ outcome'[c] = outcome[c]),
         \A h \in Threads : \/ active'[h] \in {active[h], None}
                            \/ (active[h] \in Calls /\ InHand(active[h]))'
  PROVE  (\A s \in Steers : Carried(s)') /\ (\A h \in Threads : Steerable(h)')
<1>1. ASSUME NEW s \in Steers PROVE Carried(s)'
  <2>1. CASE ~Afoot(s)
    BY <2>1 DEF Carried, Afoot
  <2>2. CASE Afoot(s)
    <3>1. steer[s].turn \in Calls /\ InHand(steer[s].turn) /\ Carried(s)
      BY <2>2, ShownTyped DEF Displayed, Carried
    <3> QED BY <3>1 DEF Carried
  <2> QED BY <2>1, <2>2
<1>2. ASSUME NEW h \in Threads PROVE Steerable(h)'
  <2>1. CASE active'[h] = active[h]
    <3>1. active[h] # None => active[h] \in Calls /\ InHand(active[h])
      BY ShownTyped DEF Displayed, Steerable
    <3> QED BY <2>1, <3>1 DEF Steerable, InHand
  <2>2. CASE active'[h] = None
    BY <2>2 DEF Steerable
  <2>3. CASE (active[h] \in Calls /\ InHand(active[h]))'
    BY <2>3 DEF Steerable, InHand
  <2> QED BY <2>1, <2>2, <2>3
<1> QED BY <1>1, <1>2

(* A step of a call or its monitor that touches no record.                 *)
LEMMA MovesShown ==
  ASSUME Types, Displayed, NEW c \in Calls, NEW l \in Early \cup During \cup {"gone"}, Goto(c, l),
         UNCHANGED <<records, steer>>,
         pc[c] # "gone", pc[c] = "clear" => l = "gone",
         pc[c] \in Early => l \in Early \cup {"gone"}, l \in Early => pc[c] \in Early,
         l \in During => pc[c] \in During,
         \A d \in Calls : outcome'[d] = outcome[d] \/ (d = c /\ pc[c] \in During /\ l \in During),
         \A h \in Threads : active'[h] \in {active[h], None} \/ (active'[h] = c /\ pc[c] = "register")
  PROVE  Displayed'
<1>1. \A d \in Calls : pc'[d] = IF d = c THEN l ELSE pc[d]
  BY ShownTyped DEF Goto
<1>2. UNCHANGED <<turn, told>> /\ \A d \in Calls : Steered(d)' <=> Steered(d)
  BY DEF records, Steered
<1>3. \A d \in Calls : Shown(d)
  BY DEF Displayed
<1>4. ASSUME NEW d \in Calls PROVE Shown(d)'
  <2>1. CASE d = c
    <3>1. l # "announce" /\ l # "clear"
      BY DEF Early, During
    <3>2. told[c] # None => l = "gone"
      BY <1>3 DEF Shown
    <3> QED BY <1>1, <1>2, <1>3, <2>1, <3>1, <3>2 DEF Shown
  <2>2. CASE d # c
    BY <1>1, <1>2, <1>3, <2>2 DEF Shown
  <2> QED BY <2>1, <2>2
<1>5. ASSUME NEW d \in Calls, InHand(d)
      PROVE  InHand(d)' /\ (pc[d] \notin During => pc'[d] \notin During /\ outcome'[d] = outcome[d])
  <2>1. CASE d = c
    <3>1. pc[c] \in During => turn[c] = "InProgress" /\ told[c] = None
      BY <1>3 DEF Shown, During
    <3> QED BY <1>1, <1>2, <1>5, <2>1, <3>1 DEF InHand
  <2>2. CASE d # c
    BY <1>1, <1>2, <1>5, <2>2 DEF InHand
  <2> QED BY <2>1, <2>2
<1>6. pc[c] = "register" => c \in Calls /\ InHand(c)'
  <2>1. ASSUME pc[c] = "register" PROVE InHand(c)
    BY <1>3, <2>1 DEF Shown, During, Early, InHand
  <2> QED BY <1>5, <2>1
<1>7. (\A s \in Steers : Carried(s)') /\ (\A h \in Threads : Steerable(h)')
  <2>1. \A h \in Threads : \/ active'[h] \in {active[h], None}
                            \/ (active[h] \in Calls /\ InHand(active[h]))'
    BY <1>6 DEF InHand
  <2> QED BY <1>5, <2>1, HandsStay
<1> QED BY <1>4, <1>7 DEF Displayed

LEMMA CallShown ==
  ASSUME Types, Displayed, NEW c \in Calls, Call(c)
  PROVE  Displayed'
<1>1. ASSUME NEW h \in Threads, NEW k \in Kinds, Begin(c, h, k) PROVE Displayed'
  <2>1. PICK l \in {"check", "gone", "load"} : Goto(c, l)
    BY <1>1 DEF Begin
  <2>2. pc[c] = "new" /\ UNCHANGED <<records, steer, outcome, active>>
    BY <1>1 DEF Begin, At, monitor
  <2> QED BY <2>1, <2>2, MovesShown DEF Early, During
<1>2. CASE Load(c) \/ Check(c) \/ Move(c)
  <2>1. PICK l \in {"check", "gone", "move", "save"} : Goto(c, l)
    BY <1>2 DEF Load, Check, Move
  <2>2. pc[c] \in Early /\ UNCHANGED <<records, steer, outcome>>
    BY <1>2 DEF Load, Check, Move, At, monitor, Early
  <2>3. \A h \in Threads : active'[h] \in {active[h], None}
    BY <1>2, ShownTyped DEF Load, Check, Move, table
  <2> QED BY <2>1, <2>2, <2>3, MovesShown DEF Early, During
<1>3. CASE Register(c) \/ Send(c)
  <2>1. PICK l \in {"route", "listen", "gone"} : Goto(c, l)
    BY <1>3 DEF Register, Send
  <2>2. pc[c] \in {"register", "route"} /\ UNCHANGED <<records, steer, outcome>>
    BY <1>3 DEF Register, Send, At, monitor
  <2>3. \A h \in Threads : active'[h] = active[h] \/ (active'[h] = c /\ pc[c] = "register")
    BY <1>3, ShownTyped DEF Register, Send, At, table
  <2> QED BY <2>1, <2>2, <2>3, MovesShown DEF Early, During
<1>4. CASE Save(c) \/ StartFails(c)
  <2>1. PICK l \in {"register", "gone"} : \A d \in Calls : pc'[d] = IF d = c THEN l ELSE pc[d]
    BY <1>4, ShownTyped DEF Save, StartFails, Goto
  <2>2. /\ pc[c] \in {"load", "save", "register", "route"} /\ UNCHANGED <<told, steer, outcome, active>>
        /\ \A d \in Calls : turn'[d] = turn[d] \/ (d = c /\ pc[c] = "save" /\ turn'[d] = "InProgress")
        /\ pc'[c] = "register" => turn'[c] = "InProgress"
    <3>1. CASE Save(c)
      BY <1>4, <3>1, ShownTyped DEF Save, At, table, monitor
    <3>2. CASE StartFails(c)
      BY <1>4, <3>2, ShownTyped DEF StartFails, Goto, table, monitor
    <3> QED BY <1>4, <3>1, <3>2
  <2>3. \A d \in Calls : Shown(d) /\ (Steered(d)' <=> Steered(d))
    BY <2>2 DEF Displayed, Steered
  <2>4. told[c] = None
    BY <2>2, <2>3 DEF Shown
  <2>5. ASSUME NEW d \in Calls PROVE Shown(d)'
    BY <2>1, <2>2, <2>3, <2>4 DEF Shown, Early, During
  <2>6. ASSUME NEW d \in Calls, InHand(d)
        PROVE  InHand(d)' /\ (pc[d] \notin During => pc'[d] \notin During /\ outcome'[d] = outcome[d])
    BY <2>1, <2>2, <2>6 DEF InHand, Early, During
  <2>7. (\A s \in Steers : Carried(s)') /\ (\A h \in Threads : Steerable(h)')
    BY <2>2, <2>6, HandsStay
  <2> QED BY <2>5, <2>7 DEF Displayed
<1> QED BY <1>1, <1>2, <1>3, <1>4 DEF Call

LEMMA MonitorShown ==
  ASSUME Types, Displayed, NEW c \in Calls, Monitor(c) \/ MonitorFails(c)
  PROVE  Displayed'
<1>1. CASE Hear(c) \/ HearEnd(c) \/ Judge(c)
  <2>1. PICK l \in {"listen", "judge", "store"} : Goto(c, l)
    <3>1. pc = [pc EXCEPT ![c] = pc[c]]
      BY ShownTyped
    <3> QED BY <1>1, <3>1 DEF Hear, HearEnd, Judge, At, Goto
  <2>2. /\ pc[c] \in {"listen", "judge"} /\ UNCHANGED <<records, steer, active>>
        /\ \A d \in Calls \ {c} : outcome'[d] = outcome[d]
    BY <1>1, ShownTyped DEF Hear, HearEnd, Judge, At, monitor, table
  <2> QED BY <2>1, <2>2, MovesShown DEF Early, During
<1>2. CASE Clear(c) \/ MonitorFails(c)
  <2>1. Goto(c, "gone") /\ pc[c] \in Monitored /\ UNCHANGED <<records, steer, outcome>>
    BY <1>2 DEF Clear, MonitorFails, At, Monitored, monitor
  <2>2. \A h \in Threads : active'[h] \in {active[h], None}
    BY <1>2, ShownTyped DEF Clear, MonitorFails, table
  <2> QED BY <2>1, <2>2, MovesShown DEF Early, During, Monitored
<1>3. CASE Store(c) \/ Announce(c)
  <2>1. /\ \A d \in Calls : pc'[d] = IF d = c THEN pc'[c] ELSE pc[d]
        /\ UNCHANGED <<steer, outcome, active>>
        /\ \A d \in Calls \ {c} : turn'[d] = turn[d] /\ told'[d] = told[d]
        /\ \/ pc[c] = "store" /\ pc'[c] = "announce" /\ turn'[c] = outcome[c] /\ told'[c] = told[c]
           \/ pc[c] = "announce" /\ pc'[c] = "clear" /\ told'[c] = outcome[c] /\ turn'[c] = turn[c]
    <3>1. CASE Store(c)
      BY <3>1, ShownTyped DEF Store, At, Goto, table, monitor
    <3>2. CASE Announce(c)
      BY <3>2, ShownTyped DEF Announce, At, Goto, table, monitor
    <3> QED BY <1>3, <3>1, <3>2
  <2>2. \A d \in Calls : Shown(d) /\ (Steered(d)' <=> Steered(d))
    BY <2>1 DEF Displayed, Steered
  <2>3. ASSUME NEW d \in Calls PROVE Shown(d)'
    BY <2>1, <2>2 DEF Shown, Early, During
  <2>4. ASSUME NEW d \in Calls, InHand(d)
        PROVE  InHand(d)' /\ (pc[d] \notin During => pc'[d] \notin During /\ outcome'[d] = outcome[d])
    BY <2>1, <2>4 DEF InHand, Early, During
  <2>5. (\A s \in Steers : Carried(s)') /\ (\A h \in Threads : Steerable(h)')
    BY <2>1, <2>4, HandsStay
  <2> QED BY <2>3, <2>5 DEF Displayed
<1> QED BY <1>1, <1>2, <1>3 DEF Monitor

LEMMA SteerShown ==
  ASSUME Types, Displayed, NEW s \in Steers, Steer(s)
  PROVE  Displayed'
<1>0. /\ steer[s] \in SteerTyped /\ steer \in [Steers -> SteerTyped]
      /\ \A c \in Calls : Shown(c)
      /\ \A t \in Steers : Carried(t) /\ (Afoot(t) => steer[t].turn \in Calls)
      /\ \A h \in Threads : Steerable(h)
  BY ShownTyped DEF Displayed
<1>1. ASSUME NEW r \in SteerTyped, steer' = [steer EXCEPT ![s] = r], UNCHANGED <<pc, told, outcome, active>>,
             Carried(s)', r.turn = steer[s].turn \/ steer[s].pc = "new",
             steer[s].pc \in {"resave", "done"} => r.pc \in {"resave", "done"},
             \A d \in Calls : turn'[d] = turn[d] \/ (d = r.turn /\ InHand(d) /\ Steered(d)' /\
               (turn'[d] = "InProgress" \/ (turn'[d] = outcome[d] /\ pc[d] \notin During)))
      PROVE  Displayed'
  <2>1. steer'[s] = r /\ \A t \in Steers \ {s} : steer'[t] = steer[t]
    BY <1>0, <1>1
  <2>2. ASSUME NEW d \in Calls, Steered(d) PROVE Steered(d)'
    <3>1. PICK t \in Steers : steer[t].turn = d /\ steer[t].pc \in {"resave", "done"}
      BY <2>2 DEF Steered
    <3>2. steer'[t].turn = d /\ steer'[t].pc \in {"resave", "done"}
      BY <1>1, <2>1, <3>1
    <3> QED BY <3>2 DEF Steered
  <2>3. ASSUME NEW d \in Calls, InHand(d) PROVE InHand(d)'
    BY <1>1, <2>3 DEF InHand
  <2>4. ASSUME NEW d \in Calls PROVE Shown(d)'
    <3>1. CASE turn'[d] = turn[d]
      BY <1>0, <1>1, <2>2, <3>1 DEF Shown
    <3>2. CASE turn'[d] # turn[d]
      BY <1>0, <1>1, <3>2 DEF Shown, InHand, Early, During
    <3> QED BY <3>1, <3>2
  <2>5. ASSUME NEW t \in Steers PROVE Carried(t)'
    <3>1. CASE t # s
      BY <1>0, <1>1, <2>1, <2>3, <3>1 DEF Carried, Afoot
    <3> QED BY <1>1, <3>1
  <2>6. ASSUME NEW h \in Threads PROVE Steerable(h)'
    BY <1>0, <1>1, <2>3, ShownTyped DEF Steerable
  <2> QED BY <2>4, <2>5, <2>6 DEF Displayed
<1>2. ASSUME NEW c \in Calls, SteerBegin(s, c) PROVE Displayed'
  <2> DEFINE r == [steer[s] EXCEPT !.pc = "load", !.turn = c]
  <2>1. /\ steer[s].pc = "new" /\ steer' = [steer EXCEPT ![s] = r]
        /\ UNCHANGED <<pc, turn, told, outcome, active>>
        /\ of[c] \in Threads /\ active[of[c]] = c
    BY <1>2 DEF SteerBegin, calls, records, monitor, Loaded
  <2>2. r \in SteerTyped /\ r.pc = "load" /\ r.turn = c /\ steer'[s] = r
    BY <1>0, <2>1 DEF SteerTyped
  <2>3. InHand(c)'
    BY <1>0, <2>1, ShownTyped DEF Steerable, InHand
  <2>4. Carried(s)'
    BY <2>2, <2>3 DEF Carried
  <2> HIDE DEF r
  <2> QED BY <1>1, <2>1, <2>2, <2>4
<1>3. CASE SteerLoad(s)
  <2> DEFINE c == steer[s].turn
             r == [steer[s] EXCEPT !.pc = "save", !.status = turn[c]]
  <2>1. /\ steer[s].pc = "load" /\ steer' = [steer EXCEPT ![s] = r]
        /\ UNCHANGED <<pc, turn, told, outcome, active>>
    BY <1>3 DEF SteerLoad, calls, records, monitor, table
  <2>2. c \in Calls /\ InHand(c)
    BY <1>0, <2>1 DEF Afoot, Carried
  <2>3. r \in SteerTyped /\ r.pc = "save" /\ r.turn = c /\ r.status = turn[c] /\ steer'[s] = r
    BY <1>0, <2>1, <2>2, ShownTyped DEF SteerTyped
  <2>4. pc[c] \in During => turn[c] = "InProgress"
    BY <1>0, <2>2 DEF Shown
  <2>5. Carried(s)'
    <3>1. InHand(c)'
      BY <2>1, <2>2 DEF InHand
    <3>2. turn[c] = "InProgress" \/ (turn[c] = outcome[c] /\ pc[c] \notin During)
      BY <2>2, <2>4 DEF InHand
    <3> HIDE DEF r
    <3> QED BY <2>1, <2>3, <3>1, <3>2 DEF Carried
  <2> HIDE DEF r
  <2> QED BY <1>1, <2>1, <2>3, <2>5
<1>4. CASE SteerSave(s)
  <2>1. PICK c \in Calls, r \in SteerTyped :
          /\ steer[s].turn = c /\ InHand(c) /\ Afoot(s) /\ steer[s].pc \in {"save", "resave"}
          /\ steer' = [steer EXCEPT ![s] = r] /\ r.pc \in {"resave", "done"}
          /\ r.pc = "resave" <=> steer[s].pc = "save"
          /\ r.turn = c /\ r.status = steer[s].status
          /\ turn' = [turn EXCEPT ![c] = steer[s].status]
          /\ UNCHANGED <<pc, told, outcome, active>>
    <3> DEFINE r == [steer[s] EXCEPT !.pc = IF steer[s].pc = "save" THEN "resave" ELSE "done"]
    <3>1. /\ steer[s].pc \in {"save", "resave"} /\ steer' = [steer EXCEPT ![s] = r]
          /\ turn' = [turn EXCEPT ![steer[s].turn] = steer[s].status]
          /\ UNCHANGED <<pc, told, outcome, active>>
      BY <1>4 DEF SteerSave, calls, monitor, table
    <3>2. steer[s].turn \in Calls /\ InHand(steer[s].turn) /\ Afoot(s)
      BY <1>0, <3>1 DEF Afoot, Carried
    <3>3. /\ r \in SteerTyped /\ r.pc \in {"resave", "done"} /\ r.turn = steer[s].turn
          /\ r.status = steer[s].status /\ (r.pc = "resave" <=> steer[s].pc = "save")
      BY <1>0, <3>1 DEF SteerTyped
    <3> HIDE DEF r
    <3> QED BY <3>1, <3>2, <3>3
  <2>2. steer[s].status = "InProgress" \/ (steer[s].status = outcome[c] /\ pc[c] \notin During)
    BY <1>0, <2>1 DEF Carried
  <2>3. steer'[s] = r /\ \A d \in Calls : turn'[d] = IF d = c THEN steer[s].status ELSE turn[d]
    BY <1>0, <2>1, ShownTyped
  <2>4. Steered(c)'
    BY <2>1, <2>3 DEF Steered
  <2>5. InHand(c)'
    BY <2>1, <2>2, <2>3 DEF InHand
  <2>6. Carried(s)'
    BY <2>1, <2>2, <2>3, <2>5 DEF Carried, Afoot
  <2>7. ASSUME NEW d \in Calls
        PROVE  turn'[d] = turn[d] \/ (d = r.turn /\ InHand(d) /\ Steered(d)' /\
                 (turn'[d] = "InProgress" \/ (turn'[d] = outcome[d] /\ pc[d] \notin During)))
    <3>1. CASE d = c
      <4>1. turn'[d] = steer[s].status
        BY <2>3, <3>1
      <4>2. r.turn = d /\ InHand(d) /\ Steered(d)'
        BY <2>1, <2>4, <3>1
      <4> QED BY <2>2, <3>1, <4>1, <4>2
    <3>2. CASE d # c
      BY <2>3, <3>2
    <3> QED BY <3>1, <3>2
  <2>8. /\ r.turn = steer[s].turn /\ r.pc \in {"resave", "done"}
        /\ steer' = [steer EXCEPT ![s] = r] /\ UNCHANGED <<pc, told, outcome, active>>
    BY <2>1
  <2> QED BY <1>1, <2>6, <2>7, <2>8
<1> QED BY <1>2, <1>3, <1>4 DEF Steer

LEMMA RestartShown ==
  ASSUME Types, Displayed, Down, Asleep, Crash \/ Open
  PROVE  Displayed'
<1>0. /\ steer \in [Steers -> SteerTyped] /\ \A c \in Calls : Shown(c)
  BY ShownTyped DEF Displayed
<1>1. CASE Crash
  <2>1. /\ UNCHANGED <<turn, told>> /\ \A h \in Threads : active'[h] = None
        /\ \A c \in Calls : pc'[c] = IF pc[c] = "new" THEN "new" ELSE "gone"
        /\ \A s \in Steers : steer'[s] = [steer[s] EXCEPT !.pc = IF @ = "new" THEN "new" ELSE "done"]
    BY <1>1 DEF Crash, records
  <2>2. ASSUME NEW s \in Steers
        PROVE  /\ ~Afoot(s)' /\ steer'[s].turn = steer[s].turn
               /\ steer[s].pc \in {"resave", "done"} => steer'[s].pc = "done"
    <3>1. steer[s] \in SteerTyped
      BY <1>0
    <3>2. /\ steer'[s].turn = steer[s].turn
          /\ steer'[s].pc = IF steer[s].pc = "new" THEN "new" ELSE "done"
      BY <2>1, <3>1 DEF SteerTyped
    <3> QED BY <3>2 DEF Afoot
  <2>3. \A c \in Calls : Steered(c) => Steered(c)'
    BY <2>2 DEF Steered
  <2>4. ASSUME NEW c \in Calls PROVE Shown(c)'
    BY <1>0, <2>1, <2>3 DEF Shown, Early, During
  <2> QED BY <2>1, <2>2, <2>4 DEF Displayed, Carried, Afoot, Steerable
<1>2. CASE Open
  <2>1. /\ UNCHANGED <<told, pc, steer, active>> /\ ~up
        /\ \A c \in Calls : turn'[c] = Recovered(turn[c]) /\ pc[c] \in {"new", "gone"}
    BY <1>2 DEF Open, Down, calls, table
  <2>2. \A c \in Calls : Steered(c) <=> Steered(c)'
    BY <2>1 DEF Steered
  <2>3. ASSUME NEW c \in Calls PROVE Shown(c)'
    <3>1. told[c] # None => told[c] \in Outcomes
      BY ShownTyped
    <3> QED BY <1>0, <2>1, <2>2, <3>1, ShownTyped DEF Shown, Recovered, Early, During
  <2> QED BY <2>1, <2>3 DEF Displayed, Asleep, Carried, Afoot, Steerable
<1> QED BY <1>1, <1>2

LEMMA AsleepStep ==
  ASSUME Types, Asleep, [Next]_vars
  PROVE  Asleep'
<1>1. CASE Crash
  <2>1. \A s \in Steers : steer[s] \in SteerTyped
    BY ShownTyped
  <2> QED BY <1>1, <2>1 DEF Crash, Asleep, Afoot, SteerTyped
<1>2. CASE UNCHANGED vars
  BY <1>2 DEF vars, table, Asleep, Afoot
<1> QED BY <1>1, <1>2, StaysUp DEF Asleep

LEMMA DisplayedStep ==
  ASSUME Types, Down, Asleep, Displayed, [Next]_vars
  PROVE  Displayed'
<1>1. ASSUME UNCHANGED <<pc, turn, told, outcome, active, steer>> PROVE Displayed'
  BY <1>1 DEF Displayed, Shown, Carried, Steerable, Steered, Afoot, InHand
<1>2. ASSUME NEW c \in Calls, Interrupt(c) \/ Engine(c) \/ Resume(c) PROVE Displayed'
  <2>1. UNCHANGED <<records, active, calls, monitor, steer>>
    BY <1>2 DEF Interrupt, Engine, TakeOp, Work, Complete, Resume, table
  <2> QED BY <1>1, <2>1 DEF records, calls, monitor
<1>3. CASE UNCHANGED vars
  BY <1>1, <1>3 DEF vars, records, table, calls, monitor
<1> QED BY <1>2, <1>3, CallShown, MonitorShown, SteerShown, RestartShown DEF Next

DInv == Types /\ Down /\ Asleep /\ Displayed

LEMMA DisplayedAlways == Spec => []DInv
<1>1. Init => DInv
  <2>1. Init => Down /\ Asleep /\ Displayed
    BY DEF Init, Down, Asleep, Displayed, Shown, Carried, Steerable, Afoot, Early, During
  <2> QED BY <2>1, InitTypes DEF DInv
<1>2. DInv /\ [Next]_vars => DInv'
  <2>1. ASSUME Down, UNCHANGED vars PROVE Down'
    BY <2>1 DEF Down, vars, calls
  <2> QED BY <2>1, TypesStep, DownKeeps, AsleepStep, DisplayedStep DEF DInv
<1> QED BY <1>1, <1>2, PTL DEF Spec

(* Whoever steers, the status a turn.completed told is the one on disk     *)
(* ever after, through every restart, or a steer_turn of the turn put it   *)
(* back in progress (monitor_turn, recover_interrupted_state, steer_turn). *)
THEOREM AnnouncedStays == Spec => []AnnouncedIsRecorded
<1>1. DInv => AnnouncedIsRecorded
  BY DEF DInv, Displayed, Shown, AnnouncedIsRecorded
<1> QED BY <1>1, DisplayedAlways, PTL

(* What each step makes of a turn that has ended.                          *)
LEMMA EndedStep ==
  ASSUME DInv, [Next]_vars, NEW c \in Calls, turn[c] \in Outcomes
  PROVE  turn'[c] = turn[c] \/ (turn'[c] = "InProgress" /\ Steered(c)')
<1>0. /\ Shown(c) /\ turn \in [Calls -> Statuses] /\ Types /\ "InProgress" \notin Outcomes
      /\ "absent" \notin Outcomes
  BY ShownTyped DEF DInv, Displayed, Outcomes
<1>1. ASSUME NEW d \in Calls, Call(d) PROVE turn'[c] = turn[c]
  <2>1. CASE Save(d) \/ StartFails(d)
    <3>1. UNCHANGED turn \/ (pc[d] = "save" /\ turn' = [turn EXCEPT ![d] = "InProgress"])
      BY <2>1 DEF Save, StartFails, At
    <3>2. pc[d] = "save" => c # d
      BY <1>0 DEF Shown, Early
    <3> QED BY <1>0, <3>1, <3>2
  <2>2. CASE ~(Save(d) \/ StartFails(d))
    BY <1>1, <2>2 DEF Call, Begin, Load, Check, Move, Register, Send, records
  <2> QED BY <2>1, <2>2
<1>2. ASSUME NEW d \in Calls, Interrupt(d) \/ Engine(d) \/ Resume(d) PROVE turn'[c] = turn[c]
  BY <1>2 DEF Interrupt, Engine, TakeOp, Work, Complete, Resume, records
<1>3. ASSUME NEW d \in Calls, Monitor(d) \/ MonitorFails(d) PROVE turn'[c] = turn[c]
  <2>1. CASE Store(d)
    <3>1. c # d /\ turn' = [turn EXCEPT ![d] = outcome[d]]
      BY <1>0, <2>1 DEF Store, At, Shown, During
    <3> QED BY <1>0, <3>1
  <2>2. CASE ~Store(d)
    BY <1>3, <2>2 DEF Monitor, Hear, HearEnd, Judge, Announce, Clear, MonitorFails, records
  <2> QED BY <2>1, <2>2
<1>4. ASSUME NEW s \in Steers, Steer(s)
      PROVE  turn'[c] = turn[c] \/ (turn'[c] = "InProgress" /\ Steered(c)')
  <2>1. CASE SteerSave(s)
    <3>1. /\ steer[s].pc \in {"save", "resave"} /\ turn' = [turn EXCEPT ![steer[s].turn] = steer[s].status]
          /\ steer' = [steer EXCEPT ![s].pc = IF @ = "save" THEN "resave" ELSE "done"]
      BY <2>1 DEF SteerSave
    <3>2. Carried(s) /\ steer[s] \in SteerTyped /\ steer \in [Steers -> SteerTyped] /\ Afoot(s)
      BY <1>0, <3>1, ShownTyped DEF DInv, Displayed, Afoot
    <3>3. steer[s].turn = c => steer[s].status \in {"InProgress", turn[c]}
      BY <1>0, <3>1, <3>2 DEF Carried, InHand
    <3>4. steer'[s].turn = steer[s].turn /\ steer'[s].pc \in {"resave", "done"}
      BY <3>1, <3>2 DEF SteerTyped
    <3>5. steer[s].turn = c => Steered(c)'
      BY <3>4 DEF Steered
    <3> QED BY <1>0, <3>1, <3>3, <3>5
  <2>2. CASE ~SteerSave(s)
    BY <1>4, <2>2 DEF Steer, SteerBegin, SteerLoad, records
  <2> QED BY <2>1, <2>2
<1>5. CASE Crash \/ Open \/ UNCHANGED vars
  BY <1>0, <1>5 DEF Crash, Open, Recovered, vars, records
<1> QED BY <1>1, <1>2, <1>3, <1>4, <1>5 DEF Next

(* A turn that ended is never another end, and in progress again only by a *)
(* steer_turn of its own, for any number of them (steer_turn reads the     *)
(* record, and writes it twice, outside every lock).                       *)
THEOREM UndoneBySteers == Spec => OnlySteersUndo
<1>1. DInv /\ [Next]_vars =>
        [\A c \in Calls : turn[c] \in Outcomes =>
           turn'[c] = turn[c] \/ (turn'[c] = "InProgress" /\ Steered(c)')]_vars
  BY EndedStep
<1> QED BY <1>1, DisplayedAlways, PTL DEF Spec, OnlySteersUndo

-----------------------------------------------------------------------------
(* Clients that wait for an answer: the table.                             *)

(* No two calls start on a thread at once. *)
OneStarting ==
  \A c, d \in Calls : c # d /\ pc[c] \in Starting /\ pc[d] \in Starting => of[c] # of[d]

(* A call that spawns an engine finds the place for it empty; one that     *)
(* starts a turn has the engine of the thread, if it has one; and from its *)
(* registration to its end a turn is the active one, on its own engine.    *)
Seated(c) ==
  /\ pc[c] = "load" => engine[c] = c /\ loaded[of[c]] = None
  /\ pc[c] \in {"save", "register", "move"} => active[of[c]] = None
  /\ pc[c] \in {"save", "register"} \/ (pc[c] = "check" /\ kind[c] # "move") =>
       loaded[of[c]] \in {None, engine[c]}
  /\ pc[c] \in Monitored \cup {"route"} => active[of[c]] = c /\ loaded[of[c]] = engine[c]

Seating ==
  /\ \A h \in Threads : active[h] # None => loaded[h] # None
  /\ \A h \in Threads : loaded[h] # None =>
       of[loaded[h]] = h /\ pc[loaded[h]] \notin {"new", "load"}
  /\ \A c \in Calls : Seated(c)

LruIsLoaded == Range(lru) = Loaded

Orderly == OneStarting /\ Seating /\ LruIsLoaded

Rows ==
  /\ loaded \in [Threads -> Calls \cup {None}] /\ active \in [Threads -> Calls \cup {None}]
  /\ flagged \in [Threads -> BOOLEAN]
  /\ pc \in [Calls -> Location] /\ kind \in [Calls -> Kinds \cup {None}]
  /\ of \in [Calls -> Threads \cup {None}] /\ engine \in [Calls -> Calls \cup {None}]
  /\ None \notin Calls /\ None \notin Threads

LEMMA RowsTyped ==
  ASSUME Types
  PROVE  /\ Rows /\ lru \in Seq(Threads) /\ IsInjective(lru)
         /\ \A c \in Calls : pc[c] # "new" => of[c] \in Threads
         /\ \A c \in Calls : pc[c] \in Holding => engine[c] \in Calls
BY NamesAssumption DEF Types, TypeOK, Readiness, Ready, Rows

(* The steps that leave the table as it is and move a call on, or let it   *)
(* go.                                                                     *)
Proceeds(c) ==
  /\ UNCHANGED <<table, kind, of, engine>>
  /\ \E l \in Location :
       /\ Goto(c, l) /\ pc[c] # "new"
       /\ l = "gone" \/ (l \in Monitored /\ pc[c] \in Monitored \cup {"route"})

LEMMA Proceeding ==
  ASSUME NEW c \in Calls,
         Send(c) \/ StartFails(c) \/ Hear(c) \/ HearEnd(c) \/ Judge(c) \/ Store(c)
           \/ Announce(c) \/ MonitorFails(c),
         Types
  PROVE  Proceeds(c)
<1> USE DEF Proceeds, At, Location, Monitored
<1>1. CASE Send(c)
  BY <1>1 DEF Send
<1>2. CASE StartFails(c)
  BY <1>2 DEF StartFails
<1>3. CASE Hear(c)
  <2>1. pc' = [pc EXCEPT ![c] = "listen"] \/ Goto(c, "judge")
    BY <1>3 DEF Hear, Types, TypeOK
  <2> QED BY <1>3, <2>1 DEF Hear, Goto
<1>4. CASE HearEnd(c)
  BY <1>4 DEF HearEnd
<1>5. CASE Judge(c) \/ Store(c) \/ Announce(c)
  BY <1>5 DEF Judge, Store, Announce
<1>6. CASE MonitorFails(c)
  BY <1>6 DEF MonitorFails
<1> QED BY <1>1, <1>2, <1>3, <1>4, <1>5, <1>6

(* Those that move no call and no engine. *)
Rests == UNCHANGED <<calls, loaded, active>> /\ Range(lru') = Range(lru)

LEMMA TouchedLoaded ==
  ASSUME Types, LruIsLoaded
  PROVE  \A h \in Loaded : Range(Touched(lru, h)) = Range(lru)
<1>1. lru \in Seq(Threads) /\ IsInjective(lru)
  BY RowsTyped
<1> QED BY <1>1, TouchedThread DEF Loaded, LruIsLoaded

LEMMA Resting ==
  ASSUME Types, LruIsLoaded,
         \/ \E c \in Calls : Interrupt(c) \/ Engine(c) \/ Resume(c)
         \/ \E s \in Steers : Steer(s)
         \/ Open
         \/ UNCHANGED vars
  PROVE  Rests
<1>1. \A h \in Loaded : Range(Touched(lru, h)) = Range(lru)
  BY TouchedLoaded
<1>2. ASSUME NEW c \in Calls, Interrupt(c) PROVE Rests
  BY <1>1, <1>2 DEF Interrupt, Rests
<1>3. ASSUME NEW c \in Calls, Engine(c) \/ Resume(c) PROVE Rests
  BY <1>3 DEF Engine, TakeOp, Work, Complete, Resume, Rests, table
<1>4. ASSUME NEW s \in Steers, Steer(s) PROVE Rests
  <2>1. ASSUME NEW c \in Calls, SteerBegin(s, c) PROVE Rests
    <3>1. UNCHANGED <<calls, loaded, active>> /\ of[c] \in Loaded /\ lru' = Touched(lru, of[c])
      BY <2>1 DEF SteerBegin
    <3> QED BY <1>1, <3>1 DEF Rests
  <2>2. CASE SteerLoad(s) \/ SteerSave(s)
    <3>1. UNCHANGED <<calls, table>>
      BY <2>2 DEF SteerLoad, SteerSave
    <3> QED BY <3>1 DEF Rests, table
  <2> QED BY <1>4, <2>1, <2>2 DEF Steer
<1>5. CASE Open \/ UNCHANGED vars
  BY <1>5 DEF Open, vars, table, Rests
<1> QED BY <1>2, <1>3, <1>4, <1>5

LEMMA RestingOrderly ==
  ASSUME Orderly, Rests
  PROVE  Orderly'
<1>1. Loaded' = Loaded
  BY DEF Rests, Loaded
<1> QED BY <1>1 DEF Rests, calls, Orderly, OneStarting, Seating, Seated, LruIsLoaded

LEMMA ProceedingOrderly ==
  ASSUME Types, Orderly, NEW c \in Calls, Proceeds(c)
  PROVE  Orderly'
<1>0. Rows
  BY RowsTyped
<1>1. PICK l \in Location :
        /\ \A d \in Calls : pc'[d] = IF d = c THEN l ELSE pc[d]
        /\ l = "gone" \/ (l \in Monitored /\ pc[c] \in Monitored \cup {"route"})
        /\ pc[c] # "new"
  BY <1>0 DEF Proceeds, Goto, Rows
<1>2. UNCHANGED <<loaded, active, lru, kind, of, engine>>
  BY DEF Proceeds, table
<1>3. Loaded' = Loaded
  BY <1>2 DEF Loaded
<1>4. OneStarting'
  BY <1>1, <1>2 DEF Orderly, OneStarting, Starting, Monitored
<1>5. Seating'
  BY <1>0, <1>1, <1>2 DEF Orderly, Seating, Seated, Monitored, Rows
<1> QED BY <1>2, <1>3, <1>4, <1>5 DEF Orderly, LruIsLoaded

LEMMA BeginOrderly ==
  ASSUME OneAtATime, Types, Orderly, NEW c \in Calls, NEW h \in Threads, NEW k \in Kinds, Begin(c, h, k)
  PROVE  Orderly'
<1>0. Rows /\ lru \in Seq(Threads) /\ IsInjective(lru)
  BY RowsTyped
<1>1. pc[c] = "new" /\ \A d \in Calls : of[d] = h => pc[d] \notin Starting
  BY DEF Begin, At
<1>2. /\ \A d \in Calls \ {c} : /\ pc'[d] = pc[d] /\ of'[d] = of[d]
                                /\ kind'[d] = kind[d] /\ engine'[d] = engine[d]
      /\ of'[c] = h /\ kind'[c] = k /\ pc'[c] \in {"check", "gone", "load"}
      /\ pc'[c] = "load" => engine'[c] = c /\ loaded[h] = None
      /\ pc'[c] = "check" /\ k # "move" => engine'[c] = loaded[h]
      /\ UNCHANGED <<loaded, active>>
  BY <1>0 DEF Begin, Goto, Rows, Loaded
<1>3. Loaded' = Loaded
  BY <1>2 DEF Loaded
<1>4. Range(lru') = Range(lru)
  <2>1. h \in Loaded => Range(Touched(lru, h)) = Range(lru)
    BY TouchedLoaded DEF Orderly
  <2> QED BY <2>1 DEF Begin
<1>5. OneStarting'
  BY <1>1, <1>2 DEF Orderly, OneStarting
<1>6. Seating'
  <2>1. \A g \in Threads : loaded[g] # c
    BY <1>0, <1>1 DEF Orderly, Seating, Rows
  <2> QED BY <1>0, <1>1, <1>2, <2>1 DEF Orderly, Seating, Seated, Monitored, Rows
<1> QED BY <1>3, <1>4, <1>5, <1>6 DEF Orderly, LruIsLoaded

LEMMA LoadOrderly ==
  ASSUME Types, Orderly, NEW c \in Calls, Load(c)
  PROVE  Orderly'
<1> DEFINE h == of[c]
<1>0. Rows /\ lru \in Seq(Threads) /\ IsInjective(lru) /\ h \in Threads
  BY RowsTyped DEF Load, At
<1>1. pc[c] = "load" /\ engine[c] = c /\ loaded[h] = None /\ active[h] = None
  BY <1>0 DEF Load, At, Orderly, Seating, Seated, Rows
<1>2. /\ \A d \in Calls \ {c} : pc'[d] = pc[d]
      /\ pc'[c] \in {"check", "gone"}
      /\ UNCHANGED <<of, kind, engine>>
      /\ active' = active
      /\ \A g \in Threads : loaded'[g] = IF g = h THEN c ELSE IF g = Victim THEN None ELSE loaded[g]
  BY <1>0, <1>1 DEF Load, Goto, Rows
<1>3. /\ Range(ScannedLru) = Loaded \ {Victim} /\ Victim \notin Busy
      /\ Victim # h
      /\ Range(lru') = Range(ScannedLru) \cup {h}
  BY <1>0, <1>1, Scanned, TouchedThread DEF Load, Orderly, LruIsLoaded, Loaded, Rows, Victim
<1>4. Loaded' = (Loaded \ {Victim}) \cup {h}
  BY <1>0, <1>2, <1>3 DEF Loaded, Rows
<1>5. OneStarting'
  BY <1>1, <1>2 DEF Orderly, OneStarting, Starting
<1>6. Seating'
  <2>1. \A g \in Threads : active[g] # None => g # Victim /\ g # h
    BY <1>1, <1>3 DEF Busy, Loaded, Orderly, Seating
  <2>2. \A g \in Threads : active'[g] # None => loaded'[g] # None
    BY <1>2, <2>1 DEF Orderly, Seating
  <2>3. \A g \in Threads : loaded'[g] # None => of'[loaded'[g]] = g /\ pc'[loaded'[g]] \notin {"new", "load"}
    BY <1>0, <1>2 DEF Orderly, Seating, Rows
  <2>4. ASSUME NEW d \in Calls PROVE Seated(d)'
    <3>1. CASE d = c
      BY <1>0, <1>1, <1>2, <3>1 DEF Seated, Monitored
    <3>2. CASE d # c
      <4>1. Seated(d) /\ (pc[d] \in Starting => of[d] # h)
        BY <1>1, <3>2 DEF Orderly, Seating, OneStarting, Starting
      <4>2. pc[d] \in Monitored \cup {"route"} => active[of[d]] = d /\ of[d] \in Threads /\ of[d] # Victim /\ of[d] # h
        BY <1>0, <2>1, <4>1, RowsTyped DEF Seated, Rows, Monitored
      <4>3. pc[d] # "new" => of[d] \in Threads
        BY RowsTyped
      <4> QED BY <1>2, <3>2, <4>1, <4>2, <4>3 DEF Seated, Starting, Monitored
    <3> QED BY <3>1, <3>2
  <2> QED BY <2>2, <2>3, <2>4 DEF Seating
<1> QED BY <1>3, <1>4, <1>5, <1>6 DEF Orderly, LruIsLoaded

LEMMA CheckOrderly ==
  ASSUME Types, Orderly, NEW c \in Calls, Check(c)
  PROVE  Orderly'
<1>0. Rows
  BY RowsTyped
<1>1. /\ pc[c] = "check"
      /\ \A d \in Calls \ {c} : pc'[d] = pc[d]
      /\ pc'[c] \in {"gone", "move", "save"}
      /\ pc'[c] \in {"move", "save"} => active[of[c]] = None
      /\ pc'[c] = "save" => kind[c] # "move"
      /\ UNCHANGED <<loaded, active, lru, kind, of, engine>>
  BY <1>0 DEF Check, At, Goto, Rows, table
<1>2. Loaded' = Loaded
  BY <1>1 DEF Loaded
<1>3. OneStarting'
  BY <1>1 DEF Orderly, OneStarting, Starting
<1>4. Seating'
  BY <1>0, <1>1 DEF Orderly, Seating, Seated, Monitored, Rows
<1> QED BY <1>1, <1>2, <1>3, <1>4 DEF Orderly, LruIsLoaded

LEMMA MoveOrderly ==
  ASSUME Types, Orderly, NEW c \in Calls, Move(c)
  PROVE  Orderly'
<1> DEFINE h == of[c]
<1>0. Rows /\ lru \in Seq(Threads) /\ IsInjective(lru) /\ h \in Threads
  BY RowsTyped DEF Move, At
<1>1. pc[c] = "move" /\ active[h] = None
  BY DEF Move, At, Orderly, Seating, Seated
<1>2. /\ \A d \in Calls \ {c} : pc'[d] = pc[d]
      /\ pc'[c] = "gone"
      /\ UNCHANGED <<of, kind, engine>>
      /\ active' = active
      /\ \A g \in Threads : loaded'[g] = IF g = h THEN None ELSE loaded[g]
  BY <1>0, <1>1 DEF Move, Goto, Rows
<1>3. Range(lru') = Range(lru) \ {h}
  BY <1>0, WithoutThread DEF Move
<1>4. Loaded' = Loaded \ {h}
  BY <1>2 DEF Loaded
<1>5. OneStarting'
  BY <1>1, <1>2 DEF Orderly, OneStarting, Starting
<1>6. Seating'
  <2>1. \A g \in Threads : active'[g] # None => loaded'[g] # None
    BY <1>1, <1>2 DEF Orderly, Seating
  <2>2. \A g \in Threads : loaded'[g] # None => of'[loaded'[g]] = g /\ pc'[loaded'[g]] \notin {"new", "load"}
    BY <1>0, <1>2 DEF Orderly, Seating, Rows
  <2>3. ASSUME NEW d \in Calls PROVE Seated(d)'
    <3>1. CASE d = c
      BY <1>2, <3>1 DEF Seated, Monitored
    <3>2. CASE d # c
      <4>1. Seated(d) /\ (pc[d] \in Starting => of[d] # h)
        BY <1>1, <3>2 DEF Orderly, Seating, OneStarting, Starting
      <4>2. pc[d] \in Monitored \cup {"route"} => active[of[d]] = d /\ of[d] # h
        BY <1>0, <1>1, <4>1 DEF Seated, Rows
      <4>3. pc[d] # "new" => of[d] \in Threads
        BY RowsTyped
      <4> QED BY <1>2, <3>2, <4>1, <4>2, <4>3 DEF Seated, Starting, Monitored
    <3> QED BY <3>1, <3>2
  <2> QED BY <2>1, <2>2, <2>3 DEF Seating
<1> QED BY <1>3, <1>4, <1>5, <1>6 DEF Orderly, LruIsLoaded

LEMMA SaveOrderly ==
  ASSUME Types, Orderly, NEW c \in Calls, Save(c)
  PROVE  Orderly'
<1>0. Rows
  BY RowsTyped
<1>1. /\ pc[c] = "save"
      /\ \A d \in Calls \ {c} : pc'[d] = pc[d]
      /\ pc'[c] = "register"
      /\ UNCHANGED <<loaded, active, lru, kind, of, engine>>
  BY <1>0 DEF Save, At, Goto, Rows, table
<1>2. Loaded' = Loaded
  BY <1>1 DEF Loaded
<1>3. OneStarting'
  BY <1>1 DEF Orderly, OneStarting, Starting
<1>4. Seating'
  BY <1>0, <1>1 DEF Orderly, Seating, Seated, Monitored, Rows
<1> QED BY <1>1, <1>2, <1>3, <1>4 DEF Orderly, LruIsLoaded

LEMMA RegisterOrderly ==
  ASSUME Types, Orderly, NEW c \in Calls, Register(c)
  PROVE  Orderly'
<1> DEFINE h == of[c]
<1>0. Rows /\ lru \in Seq(Threads) /\ IsInjective(lru) /\ h \in Threads
  BY RowsTyped DEF Register, At
<1>1. /\ pc[c] = "register" /\ active[h] = None /\ loaded[h] \in {None, engine[c]}
  BY DEF Register, At, Orderly, Seating, Seated
<1>2. /\ \A d \in Calls \ {c} : pc'[d] = pc[d]
      /\ UNCHANGED <<loaded, of, kind, engine>>
      /\ \/ pc'[c] = "gone" /\ active' = active /\ lru' = lru
         \/ /\ pc'[c] = "route" /\ h \in Loaded /\ lru' = Touched(lru, h)
            /\ \A g \in Threads : active'[g] = IF g = h THEN c ELSE active[g]
  BY <1>0 DEF Register, Goto, Rows
<1>3. Loaded' = Loaded
  BY <1>2 DEF Loaded
<1>4. Range(lru') = Range(lru)
  <2>1. h \in Loaded => Range(Touched(lru, h)) = Range(lru)
    BY TouchedLoaded DEF Orderly
  <2> QED BY <1>2, <2>1
<1>5. OneStarting'
  BY <1>1, <1>2 DEF Orderly, OneStarting, Starting
<1>6. Seating'
  <2>1. \A g \in Threads : active'[g] # None => loaded'[g] # None
    BY <1>2 DEF Orderly, Seating, Loaded
  <2>2. \A g \in Threads : loaded'[g] # None => of'[loaded'[g]] = g /\ pc'[loaded'[g]] \notin {"new", "load"}
    BY <1>0, <1>2 DEF Orderly, Seating, Rows
  <2>3. ASSUME NEW d \in Calls PROVE Seated(d)'
    <3>1. CASE d = c
      BY <1>0, <1>1, <1>2, <3>1 DEF Seated, Monitored, Loaded
    <3>2. CASE d # c
      <4>1. Seated(d) /\ (pc[d] \in Starting => of[d] # h)
        BY <1>1, <3>2 DEF Orderly, Seating, OneStarting, Starting
      <4>2. pc[d] \in Monitored \cup {"route"} => active[of[d]] = d /\ of[d] # h
        BY <1>0, <1>1, <4>1 DEF Seated, Rows
      <4>3. pc[d] # "new" => of[d] \in Threads
        BY RowsTyped
      <4> QED BY <1>2, <3>2, <4>1, <4>2, <4>3 DEF Seated, Starting, Monitored
    <3> QED BY <3>1, <3>2
  <2> QED BY <2>1, <2>2, <2>3 DEF Seating
<1> QED BY <1>3, <1>4, <1>5, <1>6 DEF Orderly, LruIsLoaded

LEMMA ClearOrderly ==
  ASSUME Types, Orderly, NEW c \in Calls, Clear(c)
  PROVE  Orderly'
<1> DEFINE h == of[c]
<1>0. Rows /\ lru \in Seq(Threads) /\ IsInjective(lru) /\ h \in Threads
  BY RowsTyped DEF Clear, At
<1>1. pc[c] = "clear" /\ active[h] = c /\ h \in Loaded
  BY <1>0 DEF Clear, At, Orderly, Seating, Seated, Monitored, Loaded, Rows
<1>2. /\ \A d \in Calls \ {c} : pc'[d] = pc[d]
      /\ pc'[c] = "gone" /\ lru' = Touched(lru, h)
      /\ UNCHANGED <<loaded, of, kind, engine>>
      /\ \A g \in Threads : active'[g] = IF g = h THEN None ELSE active[g]
  BY <1>0, <1>1 DEF Clear, Goto, Rows
<1>3. Loaded' = Loaded
  BY <1>2 DEF Loaded
<1>4. Range(lru') = Range(lru)
  <2>1. h \in Loaded => Range(Touched(lru, h)) = Range(lru)
    BY TouchedLoaded DEF Orderly
  <2> QED BY <1>1, <1>2, <2>1
<1>5. OneStarting'
  BY <1>1, <1>2 DEF Orderly, OneStarting, Starting
<1>6. Seating'
  <2>1. \A d \in Calls \ {c} : pc[d] \in Monitored \cup {"route"} => of[d] # h
    BY <1>1 DEF Orderly, Seating, Seated
  <2> QED BY <1>0, <1>1, <1>2, <2>1, RowsTyped DEF Orderly, Seating, Seated, Monitored, Rows
<1> QED BY <1>3, <1>4, <1>5, <1>6 DEF Orderly, LruIsLoaded

LEMMA CrashOrderly ==
  ASSUME Types, Orderly, Crash
  PROVE  Orderly'
<1>1. /\ \A c \in Calls : pc'[c] \in {"new", "gone"}
      /\ \A h \in Threads : loaded'[h] = None /\ active'[h] = None
      /\ Range(lru') = {}
  BY DEF Crash, Range
<1>2. Loaded' = {}
  BY <1>1 DEF Loaded
<1> QED BY <1>1, <1>2 DEF Orderly, OneStarting, Seating, Seated, Monitored, Starting, LruIsLoaded

LEMMA OrderlyStep ==
  ASSUME OneAtATime, Types, Orderly, [Next]_vars
  PROVE  Orderly'
<1>1. ASSUME NEW c \in Calls, Call(c) PROVE Orderly'
  BY <1>1, BeginOrderly, LoadOrderly, CheckOrderly, MoveOrderly, SaveOrderly, RegisterOrderly,
     Proceeding, ProceedingOrderly DEF Call
<1>2. ASSUME NEW c \in Calls, Monitor(c) \/ MonitorFails(c) PROVE Orderly'
  BY <1>2, ClearOrderly, Proceeding, ProceedingOrderly DEF Monitor
<1>3. Rests => Orderly'
  BY RestingOrderly
<1>4. LruIsLoaded
  BY DEF Orderly
<1> QED BY <1>1, <1>2, <1>3, <1>4, Resting, CrashOrderly DEF Next

LEMMA InitOrderly == Init => Orderly
<1> SUFFICES ASSUME Init PROVE Orderly
  OBVIOUS
<1>1. /\ \A c \in Calls : pc[c] = "new"
      /\ \A h \in Threads : loaded[h] = None /\ active[h] = None
      /\ Range(lru) = {}
  BY DEF Init, Range
<1>2. Loaded = {}
  BY <1>1 DEF Loaded
<1> QED BY <1>1, <1>2 DEF Orderly, OneStarting, Seating, Seated, Monitored, Starting, LruIsLoaded

LEMMA LoadedFinite ==
  ASSUME Types, LruIsLoaded
  PROVE  IsFiniteSet(Loaded)
<1>1. DOMAIN lru = 1..Len(lru) /\ Len(lru) \in Nat
  BY RowsTyped, LenProperties
<1>2. IsFiniteSet(1..Len(lru))
  BY <1>1, FS_Interval
<1>3. lru \in [1..Len(lru) -> Threads] /\ \A i \in 1..Len(lru) : lru[i] \in Loaded
  BY <1>1, RowsTyped DEF LruIsLoaded, Range
<1>4. \A h \in Loaded : \E i \in 1..Len(lru) : lru[i] = h
  BY <1>1 DEF LruIsLoaded, Range
<1>5. lru \in Surjection(1..Len(lru), Loaded)
  BY <1>3, <1>4 DEF Surjection
<1> QED BY <1>2, <1>5, FS_Surjection

(* The table grows by a load that found no engine to give up. *)
LEMMA GrowthStep ==
  ASSUME Types, Orderly, [Next]_vars, MaxActive > 0,
         Cardinality(Loaded') > MaxActive, Cardinality(Loaded') > Cardinality(Loaded)
  PROVE  Busy = Loaded
<1>0. IsFiniteSet(Loaded) /\ Cardinality(Loaded) \in Nat /\ MaxActive \in Nat
  BY LoadedFinite, FS_CardinalityType, LimitsAssumption DEF Orderly
<1>1. ~(Loaded' \subseteq Loaded)
  BY <1>0, FS_Subset, FS_CardinalityType
<1>2. \E c \in Calls : Load(c)
  <2>1. ~Rests
    BY <1>1 DEF Rests, Loaded
  <2>2. \A c \in Calls : ~Proceeds(c)
    BY <1>1 DEF Proceeds, table, Loaded
  <2>3. ASSUME NEW c \in Calls, \/ \E h \in Threads, k \in Kinds : Begin(c, h, k)
                                \/ Check(c) \/ Save(c) \/ Register(c) \/ Clear(c)
        PROVE  FALSE
    BY <1>1, <2>3 DEF Begin, Check, Save, Register, Clear, table, Loaded
  <2>4. ASSUME NEW c \in Calls, Move(c) PROVE FALSE
    BY <1>1, <2>4 DEF Move, Loaded, Types, TypeOK
  <2>5. ~Crash
    BY <1>1 DEF Crash, Loaded
  <2> QED BY <2>1, <2>2, <2>3, <2>4, <2>5, Resting, Proceeding DEF Next, Call, Monitor, Orderly
<1>3. PICK c \in Calls : Load(c)
  BY <1>2
<1> DEFINE h == of[c]
<1>4. h \in Threads /\ h \notin Loaded /\ lru \in Seq(Threads) /\ IsInjective(lru)
  BY <1>3, RowsTyped DEF Load, At, Orderly, Seating, Seated, Loaded
<1>5. Loaded' = (Loaded \ {Victim}) \cup {h}
  <2>1. Victim # h
    <3>1. CASE Candidates = {}
      BY <1>4, <3>1, NamesAssumption DEF Victim
    <3>2. CASE Candidates # {}
      BY <1>4, <3>2, Scanned DEF Orderly, LruIsLoaded
    <3> QED BY <3>1, <3>2
  <2>2. \A g \in Threads : loaded'[g] = IF g = h THEN c ELSE IF g = Victim THEN None ELSE loaded[g]
    BY <1>3 DEF Load
  <2> QED BY <1>4, <2>1, <2>2, RowsTyped DEF Loaded, Rows
<1>6. Candidates = {}
  <2>1. SUFFICES ASSUME Candidates # {} PROVE FALSE
    OBVIOUS
  <2>2. Victim \in Loaded
    BY <1>4, <2>1, Scanned DEF Orderly, LruIsLoaded
  <2>3. Cardinality(Loaded \ {Victim}) = Cardinality(Loaded) - 1 /\ IsFiniteSet(Loaded \ {Victim})
    BY <1>0, <2>2, FS_RemoveElement
  <2>4. Cardinality(Loaded') = Cardinality(Loaded)
    <3>1. h \notin Loaded \ {Victim}
      BY <1>4
    <3>2. Cardinality((Loaded \ {Victim}) \cup {h}) = Cardinality(Loaded \ {Victim}) + 1
      BY <2>3, <3>1, FS_AddElement
    <3> QED BY <1>0, <1>5, <2>3, <3>2
  <2> QED BY <1>0, <2>4
<1>7. Cardinality(Loaded) >= MaxActive
  <2>1. Loaded' \subseteq Loaded \cup {h}
    BY <1>5
  <2>2. IsFiniteSet(Loaded \cup {h}) /\ Cardinality(Loaded \cup {h}) = Cardinality(Loaded) + 1
    BY <1>0, <1>4, FS_AddElement
  <2>3. Cardinality(Loaded') <= Cardinality(Loaded) + 1 /\ Cardinality(Loaded') \in Nat
    BY <2>1, <2>2, FS_Subset, FS_CardinalityType
  <2> QED BY <1>0, <2>3
<1>8. {i \in DOMAIN lru : lru[i] \notin Busy} = {}
  BY <1>0, <1>6, <1>7 DEF Candidates
<1> QED BY <1>8 DEF Orderly, LruIsLoaded, Range, Busy

LEMMA OrderlyAlways ==
  ASSUME OneAtATime
  PROVE  Spec => [](Types /\ Orderly)
<1>1. Init => Types /\ Orderly
  BY InitTypes, InitOrderly
<1>2. Types /\ Orderly /\ [Next]_vars => (Types /\ Orderly)'
  BY TypesStep, OrderlyStep
<1> QED BY <1>1, <1>2, PTL DEF Spec

(* With clients that wait for an answer, a turn whose start was            *)
(* acknowledged is its thread's active turn, on its own engine, until it   *)
(* ends (start_turn, register_and_send, enforce_lru_capacity).             *)
THEOREM StartedCorrect ==
  ASSUME OneAtATime
  PROVE  Spec => []StartedIsActive
<1>1. Types /\ Orderly => StartedIsActive
  BY DEF Orderly, Seating, Seated, StartedIsActive
<1> QED BY <1>1, OrderlyAlways, PTL

(* And the table outgrows max_active_threads only when every engine in it  *)
(* has a turn (enforce_lru_capacity).                                      *)
THEOREM GrowthCorrect ==
  ASSUME OneAtATime
  PROVE  Spec => GrowsOnlyWhenBusy
<1>1. Types /\ Orderly /\ [Next]_vars =>
        [/\ MaxActive > 0
         /\ Cardinality(Loaded') > MaxActive
         /\ Cardinality(Loaded') > Cardinality(Loaded)
         => Busy = Loaded]_vars
  BY GrowthStep
<1> QED BY <1>1, OrderlyAlways, PTL DEF Spec, GrowsOnlyWhenBusy

(* What each step makes of the active turn of a thread.                    *)
LEMMA ActiveStep ==
  ASSUME Types, Orderly, [Next]_vars, NEW h \in Threads, active[h] # None
  PROVE  active'[h] \in {active[h], None}
<1>1. ASSUME Rests \/ (\E c \in Calls : Proceeds(c)) \/ UNCHANGED vars PROVE active' = active
  BY <1>1 DEF Rests, Proceeds, vars, table
<1>2. ASSUME NEW c \in Calls, \/ \E g \in Threads, k \in Kinds : Begin(c, g, k)
                              \/ Check(c) \/ Save(c)
      PROVE  active' = active
  BY <1>2 DEF Begin, Check, Save, table
<1>3. ASSUME NEW c \in Calls, Load(c) \/ Move(c) \/ Clear(c)
      PROVE  active'[h] \in {active[h], None}
  BY <1>3 DEF Load, Move, Clear, Types, TypeOK
<1>4. ASSUME NEW c \in Calls, Register(c) PROVE active'[h] = active[h]
  <2>1. of[c] # h
    BY <1>4 DEF Register, At, Orderly, Seating, Seated
  <2> QED BY <1>4, <2>1 DEF Register, Types, TypeOK
<1>5. CASE Crash \/ Open
  BY <1>5 DEF Crash, Open, table
<1> QED BY <1>1, <1>2, <1>3, <1>4, <1>5, Resting, Proceeding DEF Next, Call, Monitor, Orderly

(* The active turn of a thread is followed by none before another takes    *)
(* its place: what the check in start_turn is for                          *)
(* (runtime_threads.rs:2082), and the registration does not repeat.        *)
THEOREM ReplacedCorrect ==
  ASSUME OneAtATime
  PROVE  Spec => NeverReplaced
<1>1. Types /\ Orderly /\ [Next]_vars =>
        [\A h \in Threads : active[h] # None => active'[h] \in {active[h], None}]_vars
  BY ActiveStep
<1> QED BY <1>1, OrderlyAlways, PTL DEF Spec, NeverReplaced

-----------------------------------------------------------------------------
(* ... the engines of the table take every operation, and who drives the   *)
(* active turn of a thread.                                                *)

Willing(e) == e \notin stopped /\ \A i \in DOMAIN ops[e] : ops[e][i].kind # "shutdown"

Unused(e) ==
  /\ pc[e] \in {"new", "load"} => e \notin stopped /\ ops[e] = <<>> /\ running[e] = Idle
  /\ pc[e] = "new" => engine[e] = None

Serving ==
  /\ \A h \in Threads : loaded[h] # None => Willing(loaded[h])
  /\ \A e \in Calls : Unused(e)

Driven ==
  \A h \in Threads : active[h] # None =>
    /\ of[active[h]] = h /\ pc[active[h]] \in Monitored \cup {"route", "gone"}
    /\ faults = 0 => pc[active[h]] # "gone"

(* A step that sends nothing, and works on nothing. *)
LEMMA QuietServing ==
  ASSUME Types, Serving, UNCHANGED <<loaded, ops, running, stopped>>,
         \A e \in Calls : /\ pc'[e] \in {"new", "load"} => pc[e] \in {"new", "load"}
                          /\ pc'[e] = "new" => pc[e] = "new" /\ engine'[e] = engine[e]
  PROVE  Serving'
BY DEF Serving, Willing, Unused

(* The engines that are sent a shutdown leave the table. *)
LEMMA ShutdownServing ==
  ASSUME Types, Orderly, Serving, NEW v, SendShutdown({v} \cap Loaded),
         UNCHANGED <<running, stopped, engine>>,
         \A e \in Calls : pc'[e] \in {"new", "load"} => pc'[e] = pc[e],
         \A g \in Threads : /\ loaded'[g] \in {loaded[g], None} \/ pc[loaded'[g]] = "load"
                            /\ loaded'[g] \in Calls \cup {None}
                            /\ g = v => loaded'[g] = None \/ loaded[v] = None
  PROVE  Serving'
<1>0. Rows /\ ops \in [Calls -> Seq(Operation)]
  BY RowsTyped DEF Types, TypeOK
<1>1. ASSUME NEW e \in Calls, ~ \E h \in {v} \cap Loaded : loaded[h] = e
      PROVE  ops'[e] = ops[e]
  BY <1>1 DEF SendShutdown
<1>2. \A h \in Threads : loaded[h] # None => of[loaded[h]] = h /\ pc[loaded[h]] \notin {"new", "load"}
  BY DEF Orderly, Seating
<1>3. ASSUME NEW e \in Calls, pc[e] \in {"new", "load"} PROVE ops'[e] = ops[e]
  BY <1>1, <1>2, <1>3 DEF Loaded
<1>4. ASSUME NEW g \in Threads, loaded'[g] # None PROVE Willing(loaded[g])'
  <2>1. CASE pc[loaded'[g]] = "load"
    <3>1. loaded'[g] \in Calls
      BY <1>4
    <3> QED BY <1>3, <2>1, <3>1 DEF Serving, Unused, Willing
  <2>2. CASE pc[loaded'[g]] # "load"
    <3>1. loaded'[g] = loaded[g] /\ g # v /\ loaded[g] \in Calls
      BY <1>0, <1>4, <2>2 DEF Rows
    <3>2. ops'[loaded[g]] = ops[loaded[g]]
      BY <1>1, <1>2, <3>1 DEF Loaded
    <3> QED BY <1>4, <3>1, <3>2 DEF Serving, Willing
  <2> QED BY <2>1, <2>2
<1>5. ASSUME NEW e \in Calls PROVE Unused(e)'
  BY <1>3 DEF Serving, Unused
<1> QED BY <1>4, <1>5 DEF Serving

LEMMA LoadServing ==
  ASSUME Types, Orderly, Serving, NEW c \in Calls, Load(c)
  PROVE  Serving'
<1>0. Rows
  BY RowsTyped
<1>1. /\ pc[c] = "load" /\ \A d \in Calls : pc'[d] = IF d = c THEN pc'[c] ELSE pc[d]
      /\ pc'[c] \in {"gone", "check"} /\ UNCHANGED <<running, stopped, engine>>
      /\ SendShutdown({Victim} \cap Loaded)
  BY <1>0 DEF Load, At, Goto, Rows
<1>2. ASSUME NEW g \in Threads
      PROVE  loaded'[g] = IF g = of[c] THEN c ELSE IF g = Victim THEN None ELSE loaded[g]
  BY DEF Load
<1>3. loaded[of[c]] = None
  BY <1>1 DEF Orderly, Seating, Seated
<1> QED BY <1>0, <1>1, <1>2, <1>3, ShutdownServing DEF Rows

LEMMA MoveServing ==
  ASSUME Types, Orderly, Serving, NEW c \in Calls, Move(c)
  PROVE  Serving'
<1>0. Rows
  BY RowsTyped
<1>1. /\ pc'[c] = "gone" /\ \A d \in Calls : pc'[d] = IF d = c THEN pc'[c] ELSE pc[d]
      /\ UNCHANGED <<running, stopped, engine>> /\ SendShutdown({of[c]} \cap Loaded)
  BY <1>0 DEF Move, At, Goto, Rows
<1>2. ASSUME NEW g \in Threads
      PROVE  loaded'[g] = IF g = of[c] THEN None ELSE loaded[g]
  BY <1>0 DEF Move, Rows
<1> QED BY <1>0, <1>1, <1>2, ShutdownServing DEF Rows

(* An operation goes to the engine of the thread, which takes it. *)
LEMMA SentTo ==
  ASSUME Types, Orderly, Serving, NEW c \in Calls, Send(c)
  PROVE  /\ pc[c] = "route" /\ of[c] \in Threads /\ engine[c] \in Calls /\ loaded[of[c]] = engine[c]
         /\ active[of[c]] = c
         /\ engine[c] \notin stopped
         /\ ops' = [ops EXCEPT ![engine[c]] = Append(@, [kind |-> kind[c], of |-> c])]
         /\ Goto(c, "listen")
         /\ UNCHANGED <<table, events, running, canceled, stopped, kind, of, engine, monitor, bounds>>
<1>1. pc[c] = "route" /\ of[c] \in Threads /\ engine[c] \in Calls /\ engine[c] # None
  BY RowsTyped DEF Send, At, Holding, Rows
<1>2. active[of[c]] = c /\ loaded[of[c]] = engine[c]
  BY <1>1 DEF Orderly, Seating, Seated
<1>3. engine[c] \notin stopped
  BY <1>1, <1>2 DEF Serving, Willing
<1> QED BY <1>1, <1>2, <1>3 DEF Send

LEMMA SendServing ==
  ASSUME Types, Orderly, Serving, NEW c \in Calls, Send(c)
  PROVE  Serving'
<1> DEFINE e == engine[c]
           op == [kind |-> kind[c], of |-> c]
<1>0. Rows /\ ops \in [Calls -> Seq(Operation)] /\ kind[c] \in Sends
  BY RowsTyped, SentTo DEF Types, TypeOK, Readiness, Ready
<1>1. /\ pc[c] = "route" /\ of[c] \in Threads /\ e \in Calls /\ loaded[of[c]] = e
      /\ ops' = [ops EXCEPT ![e] = Append(@, op)]
      /\ UNCHANGED <<loaded, running, stopped, engine>>
  BY SentTo DEF table
<1>2. pc'[c] = "listen" /\ \A d \in Calls \ {c} : pc'[d] = pc[d]
  <2>1. Goto(c, "listen")
    BY SentTo
  <2> QED BY <1>0, <2>1 DEF Goto, Rows
<1>3. Willing(e) /\ pc[e] \notin {"new", "load"}
  BY <1>0, <1>1 DEF Serving, Orderly, Seating, Rows
<1>4. Willing(e)'
  <2>1. /\ DOMAIN Append(ops[e], op) = 1..(Len(ops[e]) + 1) /\ Len(ops[e]) \in Nat
        /\ \A i \in 1..Len(ops[e]) : Append(ops[e], op)[i] = ops[e][i]
        /\ Append(ops[e], op)[Len(ops[e]) + 1] = op
        /\ DOMAIN ops[e] = 1..Len(ops[e])
    BY <1>0, <1>1, AppendProperties, LenProperties
  <2>2. ops'[e] = Append(ops[e], op)
    BY <1>0, <1>1
  <2>3. \A i \in 1..(Len(ops[e]) + 1) : i \in 1..Len(ops[e]) \/ i = Len(ops[e]) + 1
    BY <2>1
  <2> QED BY <1>0, <1>1, <1>3, <2>1, <2>2, <2>3 DEF Willing, Sends
<1>5. \A d \in Calls \ {e} : ops'[d] = ops[d]
  BY <1>0, <1>1
<1> QED BY <1>0, <1>1, <1>2, <1>3, <1>4, <1>5 DEF Serving, Willing, Unused, Rows

LEMMA TakeOpServing ==
  ASSUME Types, Orderly, Serving, NEW e \in Calls, TakeOp(e)
  PROVE  Serving'
<1> DEFINE op == Head(ops[e])
<1>0. Rows /\ ops \in [Calls -> Seq(Operation)] /\ ops[e] \in Seq(Operation) /\ ops[e] # <<>>
  BY RowsTyped DEF Types, TypeOK, TakeOp
<1>1. /\ UNCHANGED <<loaded, pc, engine>> /\ ops' = [ops EXCEPT ![e] = Tail(@)]
      /\ stopped' = stopped \/ (op.kind = "shutdown" /\ stopped' = stopped \cup {e})
      /\ \A d \in Calls \ {e} : running'[d] = running[d]
  BY DEF TakeOp, table, calls, Types, TypeOK
<1>2. pc[e] \notin {"new", "load"}
  BY <1>0 DEF Serving, Unused
<1>3. ASSUME Willing(e) PROVE Willing(e)'
  <2>1. /\ DOMAIN ops[e] = 1..Len(ops[e]) /\ Len(ops[e]) \in Nat \ {0}
        /\ DOMAIN Tail(ops[e]) = 1..(Len(ops[e]) - 1)
        /\ \A i \in 1..(Len(ops[e]) - 1) : Tail(ops[e])[i] = ops[e][i + 1]
        /\ op = ops[e][1]
    BY <1>0, HeadTailProperties, LenProperties, EmptySeq
  <2>2. ops'[e] = Tail(ops[e])
    BY <1>0, <1>1
  <2>3. op.kind # "shutdown"
    BY <1>3, <2>1 DEF Willing
  <2>4. \A i \in 1..(Len(ops[e]) - 1) : i + 1 \in 1..Len(ops[e])
    BY <2>1
  <2> QED BY <1>1, <1>3, <2>1, <2>2, <2>3, <2>4 DEF Willing
<1>4. \A d \in Calls \ {e} : ops'[d] = ops[d] /\ (d \in stopped' <=> d \in stopped)
  BY <1>0, <1>1
<1>5. \A d \in Calls : Willing(d) => Willing(d)'
  BY <1>1, <1>3, <1>4 DEF Willing
<1>6. \A d \in Calls : Unused(d)'
  BY <1>1, <1>2, <1>4 DEF Serving, Unused
<1> QED BY <1>0, <1>1, <1>5, <1>6 DEF Serving, Rows

LEMMA CompleteServing ==
  ASSUME Types, Orderly, Serving, NEW e \in Calls, NEW o \in Outcomes, Complete(e, o)
  PROVE  Serving'
<1> DEFINE op == [kind |-> "send", of |-> Extra]
<1>0. Rows /\ ops \in [Calls -> Seq(Operation)] /\ ops[e] \in Seq(Operation) /\ running \in [Calls -> Operation \cup {Idle}]
  BY RowsTyped DEF Types, TypeOK
<1>1. /\ UNCHANGED <<loaded, pc, engine, stopped>> /\ running[e] # Idle
      /\ ops' = ops \/ ops' = [ops EXCEPT ![e] = Append(@, op)]
      /\ \A d \in Calls \ {e} : running'[d] = running[d]
  BY <1>0 DEF Complete, table, calls
<1>2. pc[e] \notin {"new", "load"}
  BY <1>1 DEF Serving, Unused
<1>3. ASSUME Willing(e) PROVE Willing(e)'
  <2>1. /\ DOMAIN Append(ops[e], op) = 1..(Len(ops[e]) + 1) /\ Len(ops[e]) \in Nat
        /\ \A i \in 1..Len(ops[e]) : Append(ops[e], op)[i] = ops[e][i]
        /\ Append(ops[e], op)[Len(ops[e]) + 1] = op
        /\ DOMAIN ops[e] = 1..Len(ops[e])
    <3>1. op \in Operation
      BY DEF Operation
    <3> HIDE DEF op
    <3> QED BY <1>0, <3>1, AppendProperties, LenProperties
  <2>2. ops'[e] = Append(ops[e], op) \/ ops'[e] = ops[e]
    BY <1>0, <1>1
  <2>3. \A i \in 1..(Len(ops[e]) + 1) : i \in 1..Len(ops[e]) \/ i = Len(ops[e]) + 1
    BY <2>1
  <2>4. op.kind # "shutdown"
    OBVIOUS
  <2> HIDE DEF op
  <2> QED BY <1>1, <1>3, <2>1, <2>2, <2>3, <2>4 DEF Willing
<1>4. \A d \in Calls \ {e} : ops'[d] = ops[d]
  BY <1>0, <1>1
<1>5. \A d \in Calls : Willing(d) => Willing(d)'
  BY <1>1, <1>3, <1>4 DEF Willing
<1>6. \A d \in Calls : Unused(d)'
  BY <1>1, <1>2, <1>4 DEF Serving, Unused
<1> QED BY <1>0, <1>1, <1>5, <1>6 DEF Serving, Rows

LEMMA ResumeServing ==
  ASSUME Types, Serving, NEW e \in Calls, Resume(e)
  PROVE  Serving'
<1>1. /\ UNCHANGED <<loaded, pc, engine, stopped, ops>> /\ pc[e] \notin {"new", "load"}
      /\ \A d \in Calls \ {e} : running'[d] = running[d]
  BY NamesAssumption DEF Resume, table, calls, Types, TypeOK, Serving, Unused
<1> QED BY <1>1 DEF Serving, Willing, Unused

LEMMA ServingStep ==
  ASSUME Types, Orderly, Serving, [Next]_vars
  PROVE  Serving'
<1>0. Rows
  BY RowsTyped
<1>1. ASSUME NEW c \in Calls, NEW h \in Threads, NEW k \in Kinds, Begin(c, h, k) PROVE Serving'
  <2>1. /\ pc[c] = "new" /\ pc'[c] # "new"
        /\ \A e \in Calls \ {c} : pc'[e] = pc[e] /\ engine'[e] = engine[e]
        /\ UNCHANGED <<loaded, ops, running, stopped>>
    BY <1>0, <1>1 DEF Begin, At, Goto, Rows, engines
  <2> QED BY <2>1, QuietServing
<1>2. ASSUME NEW c \in Calls,
             Check(c) \/ Save(c) \/ Register(c) \/ StartFails(c) \/ HearEnd(c) \/ Judge(c) \/ Store(c)
               \/ Announce(c) \/ Clear(c) \/ MonitorFails(c)
      PROVE  Serving'
  <2>1. UNCHANGED <<loaded, engines, engine>>
    BY <1>2 DEF Check, Save, Register, StartFails, HearEnd, Judge, Store, Announce, Clear, MonitorFails, table
  <2>2. \E l \in Location \ {"new", "load"} : Goto(c, l)
    BY <1>2 DEF Check, Save, Register, StartFails, HearEnd, Judge, Store, Announce, Clear, MonitorFails,
                Location, Starting, Monitored
  <2>3. \A e \in Calls : pc'[e] \in {"new", "load"} => pc[e] = pc'[e]
    BY <1>0, <2>2 DEF Goto, Rows
  <2> QED BY <2>1, <2>3, QuietServing DEF engines
<1>3. ASSUME NEW c \in Calls, Hear(c) PROVE Serving'
  <2>1. UNCHANGED <<loaded, ops, running, stopped, engine>>
    BY <1>3 DEF Hear, table
  <2>2. pc[c] = "listen" /\ pc'[c] \notin {"new", "load"} /\ \A e \in Calls \ {c} : pc'[e] = pc[e]
    BY <1>0, <1>3 DEF Hear, At, Goto, Rows
  <2> QED BY <2>1, <2>2, QuietServing
<1>4. ASSUME NEW c \in Calls, Interrupt(c) \/ Work(c) PROVE Serving'
  BY <1>4, QuietServing DEF Interrupt, Work, calls, table
<1>5. ASSUME NEW s \in Steers, Steer(s) PROVE Serving'
  <2>1. UNCHANGED <<loaded, engines, calls>>
    <3>1. ASSUME NEW c \in Calls, SteerBegin(s, c) PROVE UNCHANGED <<loaded, engines, calls>>
      BY <3>1 DEF SteerBegin
    <3>2. SteerLoad(s) \/ SteerSave(s) => UNCHANGED <<loaded, engines, calls>>
      BY DEF SteerLoad, SteerSave, table
    <3> QED BY <1>5, <3>1, <3>2 DEF Steer
  <2> QED BY <2>1, QuietServing DEF engines, calls
<1>6. CASE Open \/ UNCHANGED vars
  BY <1>6, QuietServing DEF Open, vars, table, engines, calls
<1>7. CASE Crash
  <2>1. /\ \A h \in Threads : loaded'[h] = None
        /\ \A e \in Calls : ops'[e] = <<>> /\ running'[e] = Idle /\ engine'[e] = None
        /\ stopped' = {}
    BY <1>7 DEF Crash
  <2> QED BY <2>1 DEF Serving, Unused
<1>8. ASSUME NEW c \in Calls, Call(c) PROVE Serving'
  BY <1>1, <1>2, <1>8, LoadServing, MoveServing, SendServing DEF Call
<1>9. ASSUME NEW c \in Calls, Engine(c) \/ Resume(c) PROVE Serving'
  BY <1>4, <1>9, TakeOpServing, CompleteServing, ResumeServing DEF Engine
<1> QED BY <1>2, <1>3, <1>4, <1>5, <1>6, <1>7, <1>8, <1>9 DEF Next, Monitor

LEMMA FaultsGrow ==
  ASSUME Types, [Next]_vars
  PROVE  faults \in Nat /\ faults' \in Nat /\ faults <= faults'
<1>0. faults \in Nat
  BY BoundsAssumption DEF Types, TypeOK
<1>1. ASSUME NEW c \in Calls, StartFails(c) \/ MonitorFails(c) PROVE faults' = faults + 1
  BY <1>1 DEF StartFails, MonitorFails
<1>2. ASSUME NEW c \in Calls, Call(c), ~StartFails(c) PROVE UNCHANGED faults
  BY <1>2 DEF Call, Begin, Load, Check, Move, Save, Register, Send, bounds
<1>3. ASSUME NEW c \in Calls, Interrupt(c) \/ Engine(c) \/ Resume(c) PROVE UNCHANGED faults
  BY <1>3 DEF Interrupt, Engine, TakeOp, Work, Complete, Resume, bounds
<1>4. ASSUME NEW c \in Calls, Monitor(c) PROVE UNCHANGED faults
  BY <1>4 DEF Monitor, Hear, HearEnd, Judge, Store, Announce, Clear, bounds
<1>5. ASSUME NEW s \in Steers, Steer(s) PROVE UNCHANGED faults
  <2>1. ASSUME NEW c \in Calls, SteerBegin(s, c) PROVE UNCHANGED faults
    BY <2>1 DEF SteerBegin, bounds
  <2>2. SteerLoad(s) \/ SteerSave(s) => UNCHANGED faults
    BY DEF SteerLoad, SteerSave, bounds
  <2> QED BY <1>5, <2>1, <2>2 DEF Steer
<1>6. Crash \/ Open \/ UNCHANGED vars => UNCHANGED faults
  BY DEF Crash, Open, vars, bounds
<1> QED BY <1>0, <1>1, <1>2, <1>3, <1>4, <1>5, <1>6 DEF Next

(* A turn that is no longer monitored and yet blocks its thread was        *)
(* abandoned on an error.                                                  *)
LEMMA DrivenStep ==
  ASSUME Types, Orderly, Serving, Driven, [Next]_vars
  PROVE  Driven'
<1>0. Rows /\ faults \in Nat /\ faults' \in Nat /\ (faults' = 0 => faults = 0)
  BY RowsTyped, FaultsGrow
<1>1. ASSUME UNCHANGED <<pc, of, active>> PROVE Driven'
  BY <1>0, <1>1 DEF Driven
<1>2. CASE \/ \E c \in Calls : Interrupt(c) \/ Engine(c) \/ Resume(c)
           \/ \E s \in Steers : Steer(s)
           \/ Open \/ UNCHANGED vars
  BY <1>1, <1>2, Resting DEF Rests, calls, Orderly
<1>3. ASSUME NEW c \in Calls, NEW l, Goto(c, l), UNCHANGED <<of, active>>,
             \/ pc[c] \notin Monitored \cup {"route", "gone"}
             \/ l \in Monitored
             \/ l = "gone" /\ faults' # 0
      PROVE  Driven'
  <2>1. \A d \in Calls : pc'[d] = IF d = c THEN l ELSE pc[d]
    BY <1>0, <1>3 DEF Goto, Rows
  <2> QED BY <1>0, <1>3, <2>1 DEF Driven, Rows, Monitored
<1>4. ASSUME NEW c \in Calls, NEW h \in Threads, NEW k \in Kinds, Begin(c, h, k) PROVE Driven'
  <2>1. /\ pc[c] = "new" /\ active' = active
        /\ \A d \in Calls \ {c} : pc'[d] = pc[d] /\ of'[d] = of[d]
    BY <1>0, <1>4 DEF Begin, At, Goto, Rows
  <2>2. \A g \in Threads : active[g] # c
    BY <1>0, <2>1 DEF Driven, Monitored, Rows
  <2> QED BY <1>0, <2>1, <2>2 DEF Driven, Rows
<1>5. ASSUME NEW c \in Calls, Load(c) \/ Move(c) PROVE Driven'
  <2>1. PICK l \in {"gone", "check"} : Goto(c, l)
    BY <1>5 DEF Load, Move
  <2>2. pc[c] \in {"load", "move"} /\ UNCHANGED of
    BY <1>5 DEF Load, Move, At
  <2>3. active[of[c]] = None
    BY <2>2, RowsTyped DEF Orderly, Seating, Seated
  <2>4. active' = active
    BY <1>0, <1>5, <2>3 DEF Load, Move, Rows
  <2> QED BY <1>3, <2>1, <2>2, <2>4 DEF Monitored
<1>6. ASSUME NEW c \in Calls, Check(c) \/ Save(c) PROVE Driven'
  <2>1. PICK l : Goto(c, l)
    BY <1>6 DEF Check, Save
  <2> QED BY <1>3, <1>6, <2>1 DEF Check, Save, At, Monitored, table
<1>7. ASSUME NEW c \in Calls, Register(c) PROVE Driven'
  <2>1. pc[c] = "register" /\ UNCHANGED of /\ of[c] \in Threads
    BY <1>7, RowsTyped DEF Register, At
  <2>2. CASE Goto(c, "gone") /\ UNCHANGED active
    BY <1>3, <2>1, <2>2 DEF Monitored
  <2>3. CASE Goto(c, "route") /\ active' = [active EXCEPT ![of[c]] = c]
    <3>1. \A d \in Calls : pc'[d] = IF d = c THEN "route" ELSE pc[d]
      BY <1>0, <2>3 DEF Goto, Rows
    <3>2. \A h \in Threads : active'[h] = IF h = of[c] THEN c ELSE active[h]
      BY <1>0, <2>3 DEF Rows
    <3> QED BY <1>0, <2>1, <3>1, <3>2 DEF Driven, Rows
  <2> QED BY <1>7, <2>2, <2>3 DEF Register
<1>8. ASSUME NEW c \in Calls, Send(c) PROVE Driven'
  <2>1. Goto(c, "listen") /\ UNCHANGED <<of, active>>
    BY <1>8, SentTo DEF table
  <2> QED BY <1>3, <2>1 DEF Monitored
<1>9. ASSUME NEW c \in Calls, StartFails(c) \/ MonitorFails(c) PROVE Driven'
  <2>1. Goto(c, "gone") /\ UNCHANGED <<of, active>> /\ faults' # 0
    BY <1>0, <1>9 DEF StartFails, MonitorFails, table
  <2> QED BY <1>3, <2>1
<1>10. ASSUME NEW c \in Calls, Hear(c) \/ HearEnd(c) \/ Judge(c) \/ Store(c) \/ Announce(c) PROVE Driven'
  <2>1. Proceeds(c) /\ pc'[c] # "gone"
    <3>1. Proceeds(c)
      BY <1>10, Proceeding
    <3>2. CASE Hear(c)
      BY <1>0, <3>1, <3>2 DEF Hear, At, Goto, Rows
    <3>3. CASE HearEnd(c) \/ Judge(c) \/ Store(c) \/ Announce(c)
      BY <1>0, <3>1, <3>3 DEF HearEnd, Judge, Store, Announce, Goto, Rows
    <3> QED BY <1>10, <3>1, <3>2, <3>3
  <2>2. PICK l \in Location : Goto(c, l) /\ (l = "gone" \/ l \in Monitored)
    BY <2>1 DEF Proceeds
  <2>3. l # "gone"
    BY <1>0, <2>1, <2>2 DEF Goto, Rows
  <2> QED BY <1>3, <2>1, <2>2, <2>3 DEF Proceeds, table
<1>11. ASSUME NEW c \in Calls, Clear(c) PROVE Driven'
  <2>1. /\ \A d \in Calls \ {c} : pc'[d] = pc[d]
        /\ active[of[c]] = c /\ of[c] \in Threads
        /\ UNCHANGED of
    BY <1>0, <1>11, RowsTyped DEF Clear, At, Goto, Rows, Orderly, Seating, Seated, Monitored
  <2>2. \A h \in Threads : active'[h] = IF h = of[c] THEN None ELSE active[h]
    BY <1>0, <1>11, <2>1 DEF Clear, Rows
  <2>3. \A h \in Threads : active'[h] # None => active[h] # c
    BY <1>0, <2>2 DEF Driven, Rows
  <2> QED BY <1>0, <2>1, <2>2, <2>3 DEF Driven, Rows
<1>12. Crash => Driven'
  BY DEF Crash, Driven
<1>13. ASSUME NEW c \in Calls, Call(c) PROVE Driven'
  BY <1>4, <1>5, <1>6, <1>7, <1>8, <1>9, <1>13 DEF Call
<1> QED BY <1>2, <1>9, <1>10, <1>11, <1>12, <1>13 DEF Next, Monitor

Polite == Types /\ Orderly /\ Serving /\ Driven

LEMMA PoliteAlways ==
  ASSUME OneAtATime
  PROVE  Spec => []Polite
<1>1. Init => Polite
  BY InitTypes, InitOrderly DEF Polite, Init, Serving, Unused, Driven
<1>2. Polite /\ [Next]_vars => Polite'
  BY TypesStep, OrderlyStep, ServingStep, DrivenStep DEF Polite
<1> QED BY <1>1, <1>2, PTL DEF Spec

(* As long as nothing fails, a thread is blocked by a turn only while the  *)
(* turn is monitored, or about to be: no operation is refused, since the   *)
(* engine of a thread with a turn is never shut down.                      *)
THEOREM BlockedCorrect ==
  ASSUME OneAtATime
  PROVE  Spec => []BlockedIsDriven
<1>1. Polite => BlockedIsDriven
  BY DEF Polite, Driven, BlockedIsDriven
<1> QED BY <1>1, PoliteAlways, PTL

-----------------------------------------------------------------------------
(* ... what an interrupted turn ends with.                                 *)

Lasting == {"InProgress", "Interrupted"}

(* What a steer_turn read is the turn in progress until the monitor writes *)
(* how it ended, and what it writes afterwards is no news.                 *)
Steering(s) ==
  LET c == steer[s].turn
  IN  /\ steer[s].pc # "new" => pc[c] \in Monitored \cup {"route", "gone"}
      /\ steer[s].pc \in {"save", "resave"} /\ pc[c] \in During => steer[s].status = "InProgress"
      /\ steer[s].pc \in {"save", "resave"} /\ c \in interrupted /\ faults = 0 =>
           steer[s].status \in Lasting

(* The flag stays until the monitor has looked at it, and what it made of  *)
(* it until the turn is gone.                                              *)
Lasts(c) ==
  /\ pc[c] \in Monitored \cup {"route", "gone"}
  /\ turn[c] \in Lasting /\ told[c] \in {None, "Interrupted"}
  /\ pc[c] \in {"route", "listen", "judge"} => flagged[of[c]]
  /\ pc[c] \in {"store", "announce", "clear"} => outcome[c] = "Interrupted"

Recording ==
  /\ \A c \in Calls : pc[c] \in Early \cup During => told[c] = None
  /\ \A c \in Calls : pc[c] \in During => turn[c] = "InProgress"
  /\ \A s \in Steers : Steering(s)
  /\ faults = 0 => \A c \in interrupted : Lasts(c)

(* A step that writes no record and takes no flag away. *)
LEMMA MovesRecording ==
  ASSUME Types, Recording, NEW c \in Calls, NEW l, Goto(c, l),
         UNCHANGED <<turn, told, steer, interrupted>>, faults' = 0 => faults = 0,
         \A d \in Calls : /\ outcome'[d] = outcome[d] \/ pc[d] = "listen"
                          /\ pc[d] \in {"route", "listen", "judge"} => of'[d] = of[d] /\ (flagged[of[d]] => flagged'[of[d]]),
         \/ pc[c] \in Early /\ l \in Early
         \/ pc[c] \in {"register", "route", "listen"} /\ l \in {"route", "listen", "judge"}
         \/ l = "gone"
  PROVE  Recording'
<1>0. Rows /\ interrupted \subseteq Calls /\ \A s \in Steers : steer[s].pc # "new" => steer[s].turn \in Calls
  BY RowsTyped, RecordTyped
<1>1. \A d \in Calls : pc'[d] = IF d = c THEN l ELSE pc[d]
  BY <1>0 DEF Goto, Rows
<1>2. ASSUME NEW s \in Steers PROVE Steering(s)'
  <2>1. Steering(s)
    BY DEF Recording
  <2>2. CASE steer[s].pc = "new"
    BY <2>2 DEF Steering
  <2>3. CASE steer[s].pc # "new"
    <3>1. steer[s].turn \in Calls
      BY <1>0, <2>3
    <3> QED BY <1>1, <2>1, <2>3, <3>1 DEF Steering, Early, During, Monitored
  <2> QED BY <2>2, <2>3
<1>3. ASSUME faults' = 0, NEW d \in interrupted PROVE Lasts(d)'
  <2>1. Lasts(d) /\ d \in Calls
    BY <1>0, <1>3 DEF Recording
  <2> QED BY <1>1, <2>1 DEF Lasts, Early, Monitored
<1>4. \A d \in Calls : /\ pc'[d] \in Early \cup During => told'[d] = None
                       /\ pc'[d] \in During => turn'[d] = "InProgress"
  BY <1>1 DEF Recording, Early, During
<1> QED BY <1>2, <1>3, <1>4 DEF Recording

(* A turn that is about to end has the flag of its thread to itself. *)
LEMMA OwnFlag ==
  ASSUME Types, Orderly, NEW c \in Calls, pc[c] \in {"route", "listen", "judge"}
  PROVE  /\ of[c] \in Threads /\ loaded[of[c]] # None
         /\ active[of[c]] = c /\ active[of[c]] # None
BY RowsTyped DEF Orderly, Seating, Seated, Monitored, Holding, Rows

LEMMA CallRecording ==
  ASSUME Types, Orderly, Serving, Recording, NEW c \in Calls, Call(c), ~StartFails(c), ~Save(c)
  PROVE  Recording'
<1>0. Rows
  BY RowsTyped
<1>1. UNCHANGED <<turn, told, steer, interrupted, outcome, faults>>
  BY DEF Call, Begin, Load, Check, Move, Register, Send, records, monitor, bounds
<1>2. ASSUME NEW h \in Threads, NEW k \in Kinds, Begin(c, h, k) PROVE Recording'
  <2>1. pc[c] = "new" /\ UNCHANGED flagged /\ \A d \in Calls \ {c} : of'[d] = of[d]
    BY <1>0, <1>2 DEF Begin, At, Rows
  <2>2. PICK l \in {"check", "gone", "load"} : Goto(c, l)
    BY <1>2 DEF Begin
  <2> QED BY <1>1, <2>1, <2>2, MovesRecording DEF Early
<1>3. CASE Load(c) \/ Check(c) \/ Move(c)
  <2>1. pc[c] \in Early /\ UNCHANGED of
    BY <1>3 DEF Load, Check, Move, At, Early
  <2>2. PICK l \in Early \cup {"gone"} : Goto(c, l)
    BY <1>3 DEF Load, Check, Move, Early
  <2>3. ASSUME NEW d \in Calls, pc[d] \in {"route", "listen", "judge"}, flagged[of[d]]
        PROVE  flagged'[of[d]]
    <3>1. CASE Load(c)
      <4>1. loaded[of[c]] = None /\ flagged' = [flagged EXCEPT ![of[c]] = FALSE]
        BY <3>1 DEF Load, At, Orderly, Seating, Seated
      <4> QED BY <1>0, <2>3, <4>1, OwnFlag DEF Rows
    <3>2. CASE Move(c)
      <4>1. active[of[c]] = None /\ flagged' = [flagged EXCEPT ![of[c]] = FALSE]
        BY <3>2 DEF Move, At, Orderly, Seating, Seated
      <4> QED BY <1>0, <2>3, <4>1, OwnFlag DEF Rows
    <3>3. CASE Check(c)
      BY <2>3, <3>3 DEF Check, table
    <3> QED BY <1>3, <3>1, <3>2, <3>3
  <2> QED BY <1>1, <2>1, <2>2, <2>3, MovesRecording
<1>4. CASE Register(c)
  <2>1. pc[c] = "register" /\ UNCHANGED of /\ active[of[c]] = None
    BY <1>4 DEF Register, At, Orderly, Seating, Seated
  <2>2. PICK l \in {"route", "gone"} : Goto(c, l)
    BY <1>4 DEF Register
  <2>3. ASSUME NEW d \in Calls, pc[d] \in {"route", "listen", "judge"}, flagged[of[d]]
        PROVE  flagged'[of[d]]
    <3>1. flagged' = [flagged EXCEPT ![of[c]] = FALSE] \/ flagged' = flagged
      BY <1>4 DEF Register
    <3> QED BY <1>0, <2>1, <2>3, <3>1, OwnFlag DEF Rows
  <2> QED BY <1>1, <2>1, <2>2, <2>3, MovesRecording
<1>5. CASE Send(c)
  <2>1. pc[c] = "route" /\ UNCHANGED <<of, flagged>> /\ Goto(c, "listen")
    BY <1>5, SentTo DEF table
  <2> QED BY <1>1, <2>1, MovesRecording
<1> QED BY <1>2, <1>3, <1>4, <1>5 DEF Call

LEMMA SaveRecording ==
  ASSUME Types, Recording, NEW c \in Calls, Save(c)
  PROVE  Recording'
<1>0. /\ Rows /\ interrupted \subseteq Calls /\ turn \in [Calls -> Statuses]
      /\ \A s \in Steers : steer[s].pc # "new" => steer[s].turn \in Calls
  BY RowsTyped, RecordTyped
<1>1. /\ pc[c] = "save" /\ UNCHANGED <<told, steer, interrupted, outcome, of, flagged, faults>>
      /\ \A d \in Calls : pc'[d] = IF d = c THEN "register" ELSE pc[d]
      /\ \A d \in Calls : turn'[d] = IF d = c THEN "InProgress" ELSE turn[d]
  BY <1>0 DEF Save, At, Goto, Rows, monitor, bounds, table
<1>2. ASSUME NEW s \in Steers PROVE Steering(s)'
  <2>1. Steering(s) /\ (steer[s].pc # "new" => steer[s].turn \in Calls)
    BY <1>0 DEF Recording
  <2> QED BY <1>1, <2>1 DEF Steering, Monitored
<1>3. ASSUME faults' = 0, NEW d \in interrupted PROVE Lasts(d)'
  <2>1. Lasts(d) /\ d \in Calls
    BY <1>0, <1>1, <1>3 DEF Recording
  <2> QED BY <1>1, <2>1 DEF Lasts, Monitored
<1> QED BY <1>1, <1>2, <1>3 DEF Recording, Early, During

LEMMA FailRecording ==
  ASSUME Types, Recording, NEW c \in Calls, StartFails(c) \/ MonitorFails(c)
  PROVE  Recording'
<1>0. /\ Rows /\ interrupted \subseteq Calls /\ turn \in [Calls -> Statuses]
      /\ \A s \in Steers : steer[s].pc # "new" => steer[s].turn \in Calls
      /\ faults \in Nat
  BY RowsTyped, RecordTyped, BoundsAssumption DEF Types, TypeOK
<1>1. /\ pc[c] # "new" /\ UNCHANGED <<told, steer, interrupted>> /\ faults' # 0
      /\ \A d \in Calls : pc'[d] = IF d = c THEN "gone" ELSE pc[d]
      /\ \A d \in Calls : d # c => turn'[d] = turn[d]
  BY <1>0 DEF StartFails, MonitorFails, Monitored, Goto, Rows, records
<1>2. ASSUME NEW s \in Steers PROVE Steering(s)'
  <2>1. Steering(s) /\ (steer[s].pc # "new" => steer[s].turn \in Calls)
    BY <1>0 DEF Recording
  <2> QED BY <1>1, <2>1 DEF Steering, During
<1> QED BY <1>1, <1>2 DEF Recording, Early, During

LEMMA MonitorRecording ==
  ASSUME Types, Orderly, Recording, NEW c \in Calls, Monitor(c)
  PROVE  Recording'
<1>0. /\ Rows /\ interrupted \subseteq Calls /\ turn \in [Calls -> Statuses]
      /\ told \in [Calls -> Outcomes \cup {None}] /\ outcome \in [Calls -> Outcomes]
      /\ \A s \in Steers : steer[s].pc # "new" => steer[s].turn \in Calls
  BY RowsTyped, RecordTyped
<1>1. CASE Hear(c)
  <2>1. /\ pc[c] = "listen" /\ UNCHANGED <<turn, told, steer, interrupted, faults, of, flagged>>
        /\ \A d \in Calls \ {c} : outcome'[d] = outcome[d]
    BY <1>0, <1>1 DEF Hear, At, records, table, bounds
  <2>2. Goto(c, "listen") \/ Goto(c, "judge")
    BY <1>0, <1>1, <2>1 DEF Hear, Goto, Rows
  <2> QED BY <2>1, <2>2, MovesRecording
<1>2. CASE HearEnd(c)
  BY <1>2, MovesRecording DEF HearEnd, At, records, table, bounds, monitor
<1>3. CASE Clear(c)
  <2>1. pc[c] = "clear" /\ Goto(c, "gone") /\ UNCHANGED <<turn, told, steer, interrupted, faults, of, outcome>>
    BY <1>3 DEF Clear, At, records, monitor, bounds
  <2>2. ASSUME NEW d \in Calls, pc[d] \in {"route", "listen", "judge"}, flagged[of[d]]
        PROVE  flagged'[of[d]]
    <3>1. active[of[c]] = c
      BY <2>1 DEF Orderly, Seating, Seated, Monitored
    <3>2. flagged' = [flagged EXCEPT ![of[c]] = FALSE]
      BY <1>3, <3>1 DEF Clear
    <3>3. of[d] # of[c]
      BY <2>1, <2>2, <3>1, OwnFlag
    <3> QED BY <1>0, <2>2, <3>2, <3>3, OwnFlag DEF Rows
  <2> QED BY <2>1, <2>2, MovesRecording
<1>4. CASE Judge(c)
  <2>1. /\ pc[c] = "judge" /\ UNCHANGED <<turn, told, steer, interrupted, faults, of, flagged>>
        /\ \A d \in Calls : pc'[d] = IF d = c THEN "store" ELSE pc[d]
        /\ \A d \in Calls : outcome'[d] = IF d = c THEN Verdict(c) ELSE outcome[d]
    BY <1>0, <1>4 DEF Judge, At, Goto, Rows, records, table, bounds
  <2>2. ASSUME NEW s \in Steers PROVE Steering(s)'
    <3>1. Steering(s) /\ (steer[s].pc # "new" => steer[s].turn \in Calls)
      BY <1>0 DEF Recording
    <3> QED BY <2>1, <3>1 DEF Steering, Monitored, During
  <2>3. ASSUME faults' = 0, NEW d \in interrupted PROVE Lasts(d)'
    <3>1. Lasts(d) /\ d \in Calls
      BY <1>0, <2>1, <2>3 DEF Recording
    <3>2. flagged[of[c]] => Verdict(c) = "Interrupted"
      BY <2>1, OwnFlag DEF Verdict, Flagged, Loaded
    <3> QED BY <2>1, <3>1, <3>2 DEF Lasts, Monitored
  <2> QED BY <2>1, <2>2, <2>3 DEF Recording, Early, During
<1>5. CASE Store(c)
  <2>1. /\ pc[c] = "store" /\ UNCHANGED <<told, steer, interrupted, faults, of, flagged, outcome>>
        /\ \A d \in Calls : pc'[d] = IF d = c THEN "announce" ELSE pc[d]
        /\ \A d \in Calls : turn'[d] = IF d = c THEN outcome[c] ELSE turn[d]
    BY <1>0, <1>5 DEF Store, At, Goto, Rows, table, bounds, monitor
  <2>2. ASSUME NEW s \in Steers PROVE Steering(s)'
    <3>1. Steering(s) /\ (steer[s].pc # "new" => steer[s].turn \in Calls)
      BY <1>0 DEF Recording
    <3> QED BY <2>1, <3>1 DEF Steering, Monitored, During
  <2>3. ASSUME faults' = 0, NEW d \in interrupted PROVE Lasts(d)'
    <3>1. Lasts(d) /\ d \in Calls
      BY <1>0, <2>1, <2>3 DEF Recording
    <3> QED BY <2>1, <3>1 DEF Lasts, Monitored, Lasting
  <2> QED BY <2>1, <2>2, <2>3 DEF Recording, Early, During
<1>6. CASE Announce(c)
  <2>1. /\ pc[c] = "announce" /\ UNCHANGED <<turn, steer, interrupted, faults, of, flagged, outcome>>
        /\ \A d \in Calls : pc'[d] = IF d = c THEN "clear" ELSE pc[d]
        /\ \A d \in Calls : told'[d] = IF d = c THEN outcome[c] ELSE told[d]
    BY <1>0, <1>6 DEF Announce, At, Goto, Rows, table, bounds, monitor
  <2>2. ASSUME NEW s \in Steers PROVE Steering(s)'
    <3>1. Steering(s) /\ (steer[s].pc # "new" => steer[s].turn \in Calls)
      BY <1>0 DEF Recording
    <3> QED BY <2>1, <3>1 DEF Steering, Monitored, During
  <2>3. ASSUME faults' = 0, NEW d \in interrupted PROVE Lasts(d)'
    <3>1. Lasts(d) /\ d \in Calls
      BY <1>0, <2>1, <2>3 DEF Recording
    <3> QED BY <2>1, <3>1 DEF Lasts, Monitored, Lasting
  <2> QED BY <2>1, <2>2, <2>3 DEF Recording, Early, During
<1> QED BY <1>1, <1>2, <1>3, <1>4, <1>5, <1>6 DEF Monitor

LEMMA InterruptRecording ==
  ASSUME Types, Driven, Recording, NEW c \in Calls, Interrupt(c)
  PROVE  Recording'
<1>0. /\ Rows /\ interrupted \subseteq Calls
      /\ \A s \in Steers : steer[s].pc # "new" => steer[s].turn \in Calls
  BY RowsTyped, RecordTyped
<1>1. /\ UNCHANGED <<pc, of, turn, told, steer, outcome, faults>>
      /\ \/ interrupted' = interrupted
         \/ pc[c] \notin {"store", "announce", "clear"} /\ interrupted' = interrupted \cup {c}
      /\ of[c] \in Threads /\ active[of[c]] = c
      /\ flagged'[of[c]] /\ \A h \in Threads : flagged[h] => flagged'[h]
  <2>1. UNCHANGED <<pc, of, turn, told, steer, outcome, faults>>
    BY DEF Interrupt, calls, records, monitor, bounds
  <2>2. \/ interrupted' = interrupted
        \/ pc[c] \notin {"store", "announce", "clear"} /\ interrupted' = interrupted \cup {c}
    BY DEF Interrupt
  <2>3. of[c] \in Threads /\ active[of[c]] = c
    BY DEF Interrupt, Loaded
  <2>4. flagged' = [flagged EXCEPT ![of[c]] = TRUE] /\ flagged \in [Threads -> BOOLEAN]
    BY <1>0 DEF Interrupt, Rows
  <2>5. flagged'[of[c]] /\ \A h \in Threads : flagged[h] => flagged'[h]
    BY <2>3, <2>4
  <2> QED BY <2>1, <2>2, <2>3, <2>5
<1>2. /\ pc[c] \in Monitored \cup {"route", "gone"}
      /\ faults = 0 => pc[c] # "gone"
  BY <1>0, <1>1 DEF Driven, Rows
<1>3. c \in interrupted' \ interrupted /\ faults = 0 => pc[c] \in {"route", "listen", "judge"}
  BY <1>1, <1>2 DEF Monitored
<1>4. ASSUME NEW s \in Steers PROVE Steering(s)'
  <2>1. Steering(s) /\ (steer[s].pc # "new" => steer[s].turn \in Calls)
    BY <1>0 DEF Recording
  <2> QED BY <1>1, <1>3, <2>1 DEF Steering, During, Lasting
<1>5. ASSUME faults' = 0, NEW d \in interrupted' PROVE Lasts(d)'
  <2>1. CASE d \in interrupted
    <3>1. Lasts(d) /\ d \in Calls /\ (pc[d] # "new" => of[d] \in Threads)
      BY <1>0, <1>1, <1>5, <2>1, RowsTyped DEF Recording
    <3> QED BY <1>1, <3>1 DEF Lasts, Monitored
  <2>2. CASE d = c /\ d \notin interrupted
    <3>1. pc[c] \in {"route", "listen", "judge"}
      BY <1>1, <1>3, <1>5, <2>2
    <3> QED BY <1>1, <2>2, <3>1 DEF Recording, Lasts, Monitored, During, Lasting
  <2> QED BY <1>1, <1>5, <2>1, <2>2
<1> QED BY <1>1, <1>4, <1>5 DEF Recording

LEMMA SteerRecording ==
  ASSUME Types, Driven, Recording, NEW s \in Steers, Steer(s)
  PROVE  Recording'
<1>0. /\ Rows /\ interrupted \subseteq Calls /\ turn \in [Calls -> Statuses]
      /\ steer \in [Steers -> SteerTyped] /\ steer[s] \in SteerTyped
      /\ \A t \in Steers : steer[t].pc # "new" => steer[t].turn \in Calls
  BY RowsTyped, RecordTyped
<1>1. \A t \in Steers : Steering(t)
  BY DEF Recording
<1>2. ASSUME NEW c \in Calls, SteerBegin(s, c) PROVE Recording'
  <2>1. /\ UNCHANGED <<pc, of, turn, told, interrupted, outcome, faults, flagged>>
        /\ \A t \in Steers : steer'[t] = IF t = s THEN [steer[s] EXCEPT !.pc = "load", !.turn = c] ELSE steer[t]
        /\ of[c] \in Threads /\ active[of[c]] = c
    BY <1>0, <1>2 DEF SteerBegin, calls, records, monitor, bounds, Loaded
  <2>2. pc[c] \in Monitored \cup {"route", "gone"}
    BY <1>0, <2>1 DEF Driven, Rows
  <2>3. ASSUME NEW t \in Steers PROVE Steering(t)'
    <3>1. CASE t = s
      <4>1. steer'[t].pc = "load" /\ steer'[t].turn = c
        BY <1>0, <2>1, <3>1 DEF SteerTyped
      <4> QED BY <2>1, <2>2, <4>1 DEF Steering
    <3>2. CASE t # s
      BY <1>1, <2>1, <3>2 DEF Steering
    <3> QED BY <3>1, <3>2
  <2>4. faults' = 0 => \A d \in interrupted' : Lasts(d)'
    BY <2>1 DEF Recording, Lasts
  <2> QED BY <2>1, <2>3, <2>4 DEF Recording
<1>3. CASE SteerLoad(s)
  <2>1. /\ UNCHANGED <<pc, of, turn, told, interrupted, outcome, faults, flagged>>
        /\ \A t \in Steers : steer'[t] = IF t = s THEN [steer[s] EXCEPT !.pc = "save", !.status = turn[steer[s].turn]] ELSE steer[t]
        /\ steer[s].pc = "load"
    BY <1>0, <1>3 DEF SteerLoad, calls, records, monitor, bounds, table
  <2>2. ASSUME NEW t \in Steers PROVE Steering(t)'
    <3>1. CASE t = s
      <4>1. /\ steer'[t].pc = "save" /\ steer'[t].turn = steer[s].turn
            /\ steer'[t].status = turn[steer[s].turn] /\ steer[s].turn \in Calls
        BY <1>0, <2>1, <3>1 DEF SteerTyped
      <4>2. pc[steer[s].turn] \in Monitored \cup {"route", "gone"}
        BY <1>1, <2>1 DEF Steering
      <4>3. faults = 0 /\ steer[s].turn \in interrupted => turn[steer[s].turn] \in Lasting
        BY DEF Recording, Lasts
      <4>4. pc[steer[s].turn] \in During => turn[steer[s].turn] = "InProgress"
        BY <4>1 DEF Recording
      <4> QED BY <2>1, <4>1, <4>2, <4>3, <4>4 DEF Steering
    <3>2. CASE t # s
      BY <1>1, <2>1, <3>2 DEF Steering
    <3> QED BY <3>1, <3>2
  <2>3. faults' = 0 => \A d \in interrupted' : Lasts(d)'
    BY <2>1 DEF Recording, Lasts
  <2> QED BY <2>1, <2>2, <2>3 DEF Recording
<1>4. CASE SteerSave(s)
  <2> DEFINE c == steer[s].turn
  <2>1. /\ UNCHANGED <<pc, of, told, interrupted, outcome, faults, flagged>>
        /\ steer[s].pc \in {"save", "resave"} /\ c \in Calls
        /\ steer' = [steer EXCEPT ![s].pc = IF @ = "save" THEN "resave" ELSE "done"]
        /\ \A d \in Calls : turn'[d] = IF d = c THEN steer[s].status ELSE turn[d]
    <3>1. steer[s].pc \in {"save", "resave"} /\ c \in Calls
      BY <1>0, <1>4 DEF SteerSave
    <3>2. turn' = [turn EXCEPT ![c] = steer[s].status]
      BY <1>4 DEF SteerSave
    <3> QED BY <1>0, <1>4, <3>1, <3>2 DEF SteerSave, calls, monitor, bounds, table
  <2>2. \A t \in Steers \ {s} : steer'[t] = steer[t]
    BY <1>0, <2>1
  <2>3. steer'[s].turn = c /\ steer'[s].status = steer[s].status /\ steer'[s].pc \in {"resave", "done"}
    BY <1>0, <2>1 DEF SteerTyped
  <2>4. ASSUME NEW t \in Steers PROVE Steering(t)'
    <3>1. CASE t = s
      BY <1>1, <2>1, <2>3, <3>1 DEF Steering
    <3>2. CASE t # s
      BY <1>1, <2>1, <2>2, <3>2 DEF Steering
    <3> QED BY <3>1, <3>2
  <2>5. ASSUME faults' = 0, NEW d \in interrupted' PROVE Lasts(d)'
    <3>1. Lasts(d) /\ d \in Calls /\ faults = 0
      BY <1>0, <2>1, <2>5 DEF Recording
    <3>2. d = c => steer[s].status \in Lasting
      BY <1>1, <2>1, <2>5, <3>1 DEF Steering
    <3> QED BY <2>1, <3>1, <3>2 DEF Lasts
  <2>6. \A d \in Calls : pc[d] \in During => turn'[d] = "InProgress"
    BY <1>1, <2>1 DEF Steering, Recording
  <2> QED BY <2>1, <2>4, <2>5, <2>6 DEF Recording
<1> QED BY <1>2, <1>3, <1>4 DEF Steer

LEMMA RestartRecording ==
  ASSUME Types, Down, Recording, Crash \/ Open
  PROVE  Recording'
<1>0. /\ interrupted \subseteq Calls /\ steer \in [Steers -> SteerTyped]
      /\ \A s \in Steers : steer[s].pc # "new" => steer[s].turn \in Calls
  BY RecordTyped
<1>1. CASE Crash
  <2>1. /\ UNCHANGED <<turn, told, interrupted, faults>>
        /\ \A c \in Calls : pc'[c] = IF pc[c] = "new" THEN "new" ELSE "gone"
        /\ \A s \in Steers : steer'[s] = [steer[s] EXCEPT !.pc = IF steer[s].pc = "new" THEN "new" ELSE "done"]
    BY <1>1 DEF Crash, records
  <2>2. ASSUME NEW s \in Steers PROVE Steering(s)'
    <3>1. steer[s] \in SteerTyped /\ Steering(s)
      BY <1>0 DEF Recording
    <3>2. steer'[s].turn = steer[s].turn /\ steer'[s].pc = IF steer[s].pc = "new" THEN "new" ELSE "done"
      BY <2>1, <3>1 DEF SteerTyped
    <3> QED BY <1>0, <2>1, <3>1, <3>2 DEF Steering, Monitored
  <2>3. ASSUME faults' = 0, NEW d \in interrupted PROVE Lasts(d)'
    <3>1. Lasts(d) /\ d \in Calls
      BY <1>0, <2>1, <2>3 DEF Recording
    <3> QED BY <2>1, <3>1 DEF Lasts, Monitored
  <2> QED BY <2>1, <2>2, <2>3 DEF Recording, Early, During
<1>2. CASE Open
  <2>1. /\ UNCHANGED <<told, interrupted, faults, pc, steer, of, flagged, outcome>>
        /\ \A c \in Calls : turn'[c] = Recovered(turn[c]) /\ pc[c] \in {"new", "gone"}
    BY <1>2 DEF Open, Down, calls, monitor, table, bounds
  <2>2. \A s \in Steers : Steering(s)'
    BY <2>1 DEF Recording, Steering
  <2>3. ASSUME faults' = 0, NEW d \in interrupted PROVE Lasts(d)'
    <3>1. Lasts(d) /\ d \in Calls
      BY <1>0, <2>1, <2>3 DEF Recording
    <3> QED BY <2>1, <3>1 DEF Lasts, Lasting, Recovered
  <2> QED BY <2>1, <2>2, <2>3 DEF Recording, During
<1> QED BY <1>1, <1>2

LEMMA RecordingStep ==
  ASSUME Polite, Down, Recording, [Next]_vars
  PROVE  Recording'
<1>1. ASSUME NEW c \in Calls, Call(c) PROVE Recording'
  BY <1>1, CallRecording, SaveRecording, FailRecording DEF Polite
<1>2. ASSUME NEW c \in Calls, Engine(c) \/ Resume(c) PROVE Recording'
  <2>1. UNCHANGED <<records, table, calls, monitor, steer, interrupted, faults>>
    BY <1>2 DEF Engine, TakeOp, Work, Complete, Resume, bounds
  <2> QED BY <2>1 DEF records, table, calls, monitor, Recording, Steering, Lasts
<1>3. CASE UNCHANGED vars
  BY <1>3 DEF vars, records, table, calls, monitor, bounds, Recording, Steering, Lasts
<1> QED BY <1>1, <1>2, <1>3, MonitorRecording, FailRecording, InterruptRecording, SteerRecording,
           RestartRecording DEF Next, Polite

(* As long as nothing fails, a turn that was interrupted before its        *)
(* monitor's last look ends interrupted, whatever became of the token and  *)
(* though it is steered (interrupt_turn, monitor_turn, steer_turn).        *)
THEOREM InterruptCorrect ==
  ASSUME OneAtATime
  PROVE  Spec => []InterruptSticks
<1>1. Init => Down /\ Recording
  BY DEF Init, Down, Recording, Steering, Early, During
<1>2. Polite /\ Down /\ Recording /\ [Next]_vars => (Down /\ Recording)'
  <2>1. ASSUME Down, UNCHANGED vars PROVE Down'
    BY <2>1 DEF Down, vars, calls
  <2> QED BY <2>1, DownKeeps, RecordingStep
<1>3. Recording => InterruptSticks
  BY DEF Recording, Lasts, Lasting, InterruptSticks
<1> QED BY <1>1, <1>2, <1>3, PoliteAlways, PTL DEF Spec

-----------------------------------------------------------------------------
(* ... and whose outcome a turn ends with.                                 *)

Jobs(q)    == {i \in DOMAIN q : q[i].kind # "shutdown"}
Answers(q) == {i \in DOMAIN q : q[i].what # "activity"}

LEMMA AppendedJobs ==
  ASSUME NEW q \in Seq(Operation), NEW op \in Operation
  PROVE  LET r == Append(q, op)
         IN  /\ \A i \in Jobs(q) : i \in Jobs(r) /\ r[i] = q[i]
             /\ \A i \in Jobs(r) : i \in Jobs(q) \/ (op.kind # "shutdown" /\ i = Len(q) + 1 /\ r[i] = op)
<1> DEFINE r == Append(q, op)
<1>1. Len(q) \in Nat /\ DOMAIN q = 1..Len(q) /\ DOMAIN r = 1..(Len(q) + 1)
  BY LenProperties, AppendProperties
<1>2. r[Len(q) + 1] = op /\ \A i \in 1..Len(q) : r[i] = q[i]
  BY AppendProperties
<1>3. \A i \in 1..(Len(q) + 1) : i \in 1..Len(q) \/ i = Len(q) + 1
  BY <1>1
<1>4. \A i \in 1..Len(q) : i \in 1..(Len(q) + 1)
  BY <1>1
<1> HIDE DEF r
<1> QED BY <1>1, <1>2, <1>3, <1>4 DEF Jobs, r

LEMMA AppendedAnswers ==
  ASSUME NEW q \in Seq(Event), NEW ev \in Event
  PROVE  LET r == Append(q, ev)
         IN  /\ \A i \in Answers(q) : i \in Answers(r) /\ r[i] = q[i]
             /\ \A i \in Answers(r) : i \in Answers(q) \/ (ev.what # "activity" /\ i = Len(q) + 1 /\ r[i] = ev)
<1> DEFINE r == Append(q, ev)
<1>1. Len(q) \in Nat /\ DOMAIN q = 1..Len(q) /\ DOMAIN r = 1..(Len(q) + 1)
  BY LenProperties, AppendProperties
<1>2. r[Len(q) + 1] = ev /\ \A i \in 1..Len(q) : r[i] = q[i]
  BY AppendProperties
<1>3. \A i \in 1..(Len(q) + 1) : i \in 1..Len(q) \/ i = Len(q) + 1
  BY <1>1
<1>4. \A i \in 1..Len(q) : i \in 1..(Len(q) + 1)
  BY <1>1
<1> HIDE DEF r
<1> QED BY <1>1, <1>2, <1>3, <1>4 DEF Answers, r

LEMMA RemainingJobs ==
  ASSUME NEW q \in Seq(Operation), q # <<>>
  PROVE  /\ \A i \in Jobs(Tail(q)) : i + 1 \in Jobs(q) /\ Tail(q)[i] = q[i + 1] /\ i + 1 # 1
         /\ Head(q).kind # "shutdown" => 1 \in Jobs(q) /\ q[1] = Head(q)
<1>1. /\ DOMAIN q = 1..Len(q) /\ Len(q) \in Nat \ {0}
      /\ DOMAIN Tail(q) = 1..(Len(q) - 1)
      /\ \A i \in 1..(Len(q) - 1) : Tail(q)[i] = q[i + 1]
      /\ Head(q) = q[1]
  BY HeadTailProperties, LenProperties, EmptySeq
<1>2. \A i \in 1..(Len(q) - 1) : i + 1 \in 1..Len(q) /\ i + 1 # 1
  BY <1>1
<1>3. 1 \in 1..Len(q)
  BY <1>1
<1> QED BY <1>1, <1>2, <1>3 DEF Jobs

LEMMA RemainingAnswers ==
  ASSUME NEW q \in Seq(Event), q # <<>>
  PROVE  /\ \A i \in Answers(Tail(q)) : i + 1 \in Answers(q) /\ Tail(q)[i] = q[i + 1] /\ i + 1 # 1 /\ i \in Nat
         /\ Head(q).what # "activity" => 1 \in Answers(q) /\ q[1] = Head(q)
<1>1. /\ DOMAIN q = 1..Len(q) /\ Len(q) \in Nat \ {0}
      /\ DOMAIN Tail(q) = 1..(Len(q) - 1)
      /\ \A i \in 1..(Len(q) - 1) : Tail(q)[i] = q[i + 1]
      /\ Head(q) = q[1]
  BY HeadTailProperties, LenProperties, EmptySeq
<1>2. \A i \in 1..(Len(q) - 1) : i + 1 \in 1..Len(q) /\ i + 1 # 1 /\ i \in Nat
  BY <1>1
<1>3. 1 \in 1..Len(q)
  BY <1>1
<1> QED BY <1>1, <1>2, <1>3 DEF Answers

(* The call d is the active turn of a thread, with the engine e, and its   *)
(* operation is still with the engine, or its answer on the way.           *)
Awaits(d, e) ==
  /\ d \in Calls /\ pc[d] \in {"listen", "gone"}
  /\ active[of[d]] = d /\ loaded[of[d]] = e

(* An engine has at most one operation, queued, running or answered, and   *)
(* it is that of the thread's active turn.                                 *)
Lone(e) ==
  /\ \A i \in Jobs(ops[e]) :
       Awaits(ops[e][i].of, e) /\ running[e] = Idle /\ Answers(events[e]) = {}
  /\ running[e] # Idle => Awaits(running[e].of, e) /\ Answers(events[e]) = {}
  /\ \A i \in Answers(events[e]) : Awaits(events[e][i].of, e)
  /\ \A i, j \in Jobs(ops[e]) : i = j
  /\ \A i, j \in Answers(events[e]) : i = j

Answered ==
  extras = 0 => /\ \A e \in Calls : Lone(e)
                /\ \A c \in Calls : heard[c] \in {c, None}

LEMMA OneAwaited ==
  ASSUME Types, Orderly, NEW c \in Calls, NEW d, NEW e \in Calls, pc[c] # "new",
         active[of[c]] = c, loaded[of[c]] = e, Awaits(d, e)
  PROVE  c = d
<1>1. d \in Calls /\ of[c] \in Threads /\ of[d] \in Threads /\ e # None
  BY RowsTyped DEF Awaits, Rows
<1>2. of[e] = of[c] /\ of[e] = of[d]
  BY <1>1 DEF Awaits, Orderly, Seating
<1> QED BY <1>2 DEF Awaits

(* A step that takes nothing from an engine and gives it nothing to do. *)
LEMMA QuietAnswered ==
  ASSUME Types, Answered, UNCHANGED <<ops, events, running>>, extras' = 0 => extras = 0,
         UNCHANGED heard, \A d, e \in Calls : Awaits(d, e) => Awaits(d, e)'
  PROVE  Answered'
<1>1. \A d, e : Awaits(d, e) => d \in Calls
  BY DEF Awaits
<1>2. ASSUME NEW e \in Calls, Lone(e) PROVE Lone(e)'
  BY <1>1, <1>2 DEF Lone
<1> QED BY <1>2 DEF Answered

(* A shutdown is no answer to anybody, and the thread that loses its       *)
(* engine has no turn.                                                     *)
LEMMA ShutdownAnswered ==
  ASSUME Types, Answered, NEW S, SendShutdown(S), UNCHANGED <<events, running, heard, extras>>,
         \A d, e \in Calls : Awaits(d, e) => Awaits(d, e)'
  PROVE  Answered'
<1> DEFINE op == [kind |-> "shutdown", of |-> Extra]
<1>0. op \in Operation /\ op.kind = "shutdown" /\ ops \in [Calls -> Seq(Operation)]
  BY DEF Operation, Types, TypeOK
<1>1. ASSUME NEW e \in Calls PROVE Jobs(ops'[e]) = Jobs(ops[e]) /\ \A i \in Jobs(ops[e]) : ops'[e][i] = ops[e][i]
  <2>1. ops'[e] \in {ops[e], Append(ops[e], op)}
    BY DEF SendShutdown
  <2>2. ops[e] \in Seq(Operation) /\ op \in Operation /\ op.kind = "shutdown"
    BY <1>0
  <2> HIDE DEF op
  <2>3. CASE ops'[e] = ops[e]
    BY <2>3
  <2>4. CASE ops'[e] = Append(ops[e], op)
    <3> DEFINE r == Append(ops[e], op)
    <3>1. /\ \A i \in Jobs(ops[e]) : i \in Jobs(r) /\ r[i] = ops[e][i]
          /\ \A i \in Jobs(r) : i \in Jobs(ops[e]) \/ op.kind # "shutdown"
      BY <2>2, AppendedJobs
    <3> HIDE DEF r
    <3>2. ops'[e] = r
      BY <2>4 DEF r
    <3> QED BY <2>2, <3>1, <3>2
  <2> QED BY <2>1, <2>3, <2>4
<1>2. \A d, e : Awaits(d, e) => d \in Calls
  BY DEF Awaits
<1>3. ASSUME NEW e \in Calls, Lone(e) PROVE Lone(e)'
  BY <1>1, <1>2, <1>3 DEF Lone
<1> QED BY <1>3 DEF Answered

(* Somebody who awaits an answer still does after a step of another call,  *)
(* or of a monitor that fails.                                             *)
LEMMA StillAwaits ==
  ASSUME Types, Orderly, NEW c \in Calls, NEW d \in Calls, NEW e \in Calls, Awaits(d, e),
         \/ \E h \in Threads, k \in Kinds : Begin(c, h, k)
         \/ Load(c) \/ Check(c) \/ Move(c) \/ Save(c) \/ Register(c) \/ StartFails(c)
         \/ Judge(c) \/ Store(c) \/ Announce(c) \/ Clear(c) \/ MonitorFails(c)
  PROVE  Awaits(d, e)'
<1>0. Rows /\ of[d] \in Threads /\ d # None
  BY RowsTyped DEF Awaits, Rows
<1>1. ASSUME NEW h \in Threads, NEW k \in Kinds, Begin(c, h, k) PROVE Awaits(d, e)'
  BY <1>0, <1>1 DEF Awaits, Begin, At, Goto, Rows
<1>2. CASE Load(c)
  <2>1. pc[c] = "load" /\ UNCHANGED of /\ \A b \in Calls \ {c} : pc'[b] = pc[b]
    BY <1>0, <1>2 DEF Load, At, Goto, Rows
  <2>2. of[c] # of[d]
    <3>1. loaded[of[c]] = None
      BY <2>1 DEF Orderly, Seating, Seated
    <3> QED BY <1>0, <3>1 DEF Awaits, Rows
  <2>3. of[d] # Victim
    <3>1. Victim \notin Busy
      BY RowsTyped, Scanned
    <3> QED BY <1>0, <3>1 DEF Awaits, Busy, Loaded, Rows
  <2>4. active'[of[d]] = active[of[d]] /\ loaded'[of[d]] = loaded[of[d]]
    BY <1>0, <1>2, <2>2, <2>3 DEF Load, Rows
  <2> QED BY <2>1, <2>4 DEF Awaits
<1>3. CASE Move(c)
  <2>1. /\ pc[c] = "move" /\ UNCHANGED of /\ \A b \in Calls \ {c} : pc'[b] = pc[b]
        /\ active[of[c]] = None
    BY <1>0, <1>3 DEF Move, At, Goto, Rows, Orderly, Seating, Seated
  <2>2. active'[of[d]] = active[of[d]] /\ loaded'[of[d]] = loaded[of[d]]
    BY <1>0, <1>3, <2>1 DEF Move, Rows, Awaits
  <2> QED BY <2>1, <2>2 DEF Awaits
<1>4. CASE Register(c)
  <2>1. /\ pc[c] = "register" /\ UNCHANGED <<of, loaded>> /\ \A b \in Calls \ {c} : pc'[b] = pc[b]
        /\ active[of[c]] = None
    BY <1>0, <1>4 DEF Register, At, Goto, Rows, Orderly, Seating, Seated
  <2>2. active'[of[d]] = active[of[d]]
    BY <1>0, <1>4, <2>1 DEF Register, Rows, Awaits
  <2> QED BY <2>1, <2>2 DEF Awaits
<1>5. CASE Clear(c)
  <2>1. /\ pc[c] = "clear" /\ UNCHANGED <<of, loaded>> /\ \A b \in Calls \ {c} : pc'[b] = pc[b]
        /\ active[of[c]] = c
    BY <1>0, <1>5 DEF Clear, At, Goto, Rows, Orderly, Seating, Seated, Monitored
  <2>2. active'[of[d]] = active[of[d]]
    BY <1>0, <1>5, <2>1 DEF Clear, Rows, Awaits
  <2> QED BY <2>1, <2>2 DEF Awaits
<1>6. CASE Check(c) \/ Save(c) \/ Judge(c) \/ Store(c) \/ Announce(c)
  <2>1. UNCHANGED <<table, of>> /\ pc[c] \notin {"listen", "gone"} /\ \A b \in Calls \ {c} : pc'[b] = pc[b]
    BY <1>0, <1>6 DEF Check, Save, Judge, Store, Announce, At, Goto, Rows
  <2> QED BY <2>1 DEF Awaits, table
<1>7. CASE StartFails(c) \/ MonitorFails(c)
  <2>1. UNCHANGED <<table, of>> /\ \A b \in Calls : pc'[b] = IF b = c THEN "gone" ELSE pc[b]
    BY <1>0, <1>7 DEF StartFails, MonitorFails, Goto, Rows
  <2> QED BY <2>1 DEF Awaits, table
<1> QED BY <1>1, <1>2, <1>3, <1>4, <1>5, <1>6, <1>7

LEMMA ChannelsTyped ==
  ASSUME Types
  PROVE  /\ ops \in [Calls -> Seq(Operation)] /\ events \in [Calls -> Seq(Event)]
         /\ running \in [Calls -> Operation \cup {Idle}]
         /\ heard \in [Calls -> Calls \cup {None, Extra}]
         /\ extras \in Nat
BY BoundsAssumption DEF Types, TypeOK

LEMMA SendAnswered ==
  ASSUME Types, Orderly, Serving, Answered, NEW c \in Calls, Send(c)
  PROVE  Answered'
<1> DEFINE e == engine[c]
           op == [kind |-> kind[c], of |-> c]
<1>0. Rows /\ ops \in [Calls -> Seq(Operation)] /\ op \in Operation /\ op.kind # "shutdown" /\ op.of = c
  BY RowsTyped, ChannelsTyped, SentTo DEF Types, Readiness, Ready, Sends, Operation
<1>1. /\ pc[c] = "route" /\ e \in Calls /\ loaded[of[c]] = e /\ active[of[c]] = c
      /\ \A b \in Calls : pc'[b] = IF b = c THEN "listen" ELSE pc[b]
      /\ UNCHANGED <<loaded, active, of, engine, events, running, heard, extras>>
  <2>1. Goto(c, "listen")
    BY SentTo
  <2> QED BY <1>0, <2>1, SentTo DEF Goto, Rows, table, monitor, bounds
<1>2. ops' = [ops EXCEPT ![e] = Append(@, op)]
  BY SentTo
<1>3. SUFFICES ASSUME extras = 0 PROVE Answered'
  BY <1>1 DEF Answered
<1>4. \A d, b : Awaits(d, b) => Awaits(d, b)'
  BY <1>1 DEF Awaits
<1>5. \A d : ~Awaits(d, e)
  <2>1. \A d : Awaits(d, e) => c = d
    BY <1>1, OneAwaited
  <2> QED BY <1>1, <2>1 DEF Awaits
<1>6. Awaits(c, e)'
  BY <1>1 DEF Awaits
<1>7. Jobs(ops[e]) = {} /\ running[e] = Idle /\ Answers(events[e]) = {}
  BY <1>1, <1>3, <1>5 DEF Answered, Lone
<1>8. Lone(e)'
  <2>1. ops'[e] = Append(ops[e], op) /\ ops[e] \in Seq(Operation)
    BY <1>0, <1>1, <1>2
  <2> HIDE DEF op
  <2>2. \A i \in Jobs(ops'[e]) : i = Len(ops[e]) + 1 /\ ops'[e][i] = op
    BY <1>0, <1>7, <2>1, AppendedJobs
  <2>3. op.of = c /\ running'[e] = Idle /\ events'[e] = events[e]
    BY <1>0, <1>1, <1>7
  <2>4. \A i \in Jobs(ops'[e]) : ops'[e][i].of = c
    BY <2>2, <2>3
  <2>5. \A i, j \in Jobs(ops'[e]) : i = j
    BY <2>2
  <2> QED BY <1>1, <1>6, <1>7, <2>3, <2>4, <2>5 DEF Lone
<1>9. ASSUME NEW b \in Calls \ {e} PROVE Lone(b)'
  <2>1. ops'[b] = ops[b]
    BY <1>0, <1>1, <1>2
  <2>2. Lone(b) /\ running'[b] = running[b] /\ events'[b] = events[b]
    BY <1>1, <1>3 DEF Answered
  <2>3. \A d : Awaits(d, b) => Awaits(d, b)'
    BY <1>4
  <2> QED BY <2>1, <2>2, <2>3 DEF Lone
<1> QED BY <1>1, <1>8, <1>9 DEF Answered

LEMMA TakeOpAnswered ==
  ASSUME Types, Orderly, Serving, Answered, NEW e \in Calls, TakeOp(e)
  PROVE  Answered'
<1> DEFINE op == Head(ops[e])
           ev == [what |-> "activity", of |-> op.of]
<1>0. /\ ops \in [Calls -> Seq(Operation)] /\ ops[e] \in Seq(Operation) /\ ops[e] # <<>>
      /\ events \in [Calls -> Seq(Event)] /\ running \in [Calls -> Operation \cup {Idle}]
  BY ChannelsTyped DEF TakeOp
<1>1. op \in Operation /\ ev \in Event
  <2>1. op \in Operation
    BY <1>0, HeadTailProperties
  <2> QED BY <2>1 DEF Operation, Event
<1>2. /\ UNCHANGED <<pc, loaded, active, of, heard, extras>> /\ running[e] = Idle
      /\ ops' = [ops EXCEPT ![e] = Tail(@)]
  BY DEF TakeOp, calls, table, monitor, bounds
<1>3. \/ op.kind = "shutdown" /\ UNCHANGED <<events, running>>
      \/ /\ op.kind # "shutdown" /\ running' = [running EXCEPT ![e] = op]
         /\ events' = events \/ events' = [events EXCEPT ![e] = Append(@, ev)]
  BY DEF TakeOp
<1> HIDE DEF op, ev
<1>4. SUFFICES ASSUME extras = 0 PROVE Answered'
  BY <1>2 DEF Answered
<1>5. Lone(e)
  BY <1>4 DEF Answered
<1>6. \A d, b : Awaits(d, b) => Awaits(d, b)'
  BY <1>2 DEF Awaits
<1>7. ops'[e] = Tail(ops[e])
  BY <1>0, <1>2
<1>8. Lone(e)'
  <2>1. /\ \A i \in Jobs(ops'[e]) : i + 1 \in Jobs(ops[e]) /\ ops'[e][i] = ops[e][i + 1] /\ i + 1 # 1
        /\ op.kind # "shutdown" => 1 \in Jobs(ops[e]) /\ ops[e][1] = op
    BY <1>0, <1>7, RemainingJobs DEF op
  <2>2. CASE op.kind = "shutdown"
    <3>1. UNCHANGED <<events, running>>
      BY <1>3, <2>2
    <3>2. \A i \in Jobs(ops'[e]) : i \in Nat
      <4>1. Tail(ops[e]) \in Seq(Operation)
        BY <1>0, HeadTailProperties
      <4> QED BY <1>7, <4>1, LenProperties DEF Jobs
    <3>3. \A i, j \in Jobs(ops'[e]) : i = j
      <4>1. \A i, j \in Jobs(ops'[e]) : i + 1 = j + 1
        BY <1>5, <2>1 DEF Lone
      <4> QED BY <3>2, <4>1
    <3> QED BY <1>5, <1>6, <2>1, <3>1, <3>3 DEF Lone
  <2>3. CASE op.kind # "shutdown"
    <3>1. Awaits(op.of, e) /\ Answers(events[e]) = {} /\ Jobs(ops'[e]) = {}
      BY <1>5, <2>1, <2>3 DEF Lone
    <3>2. running'[e] = op /\ Answers(events'[e]) = {}
      <4>1. running'[e] = op
        BY <1>0, <1>3, <2>3
      <4>2. events'[e] \in {events[e], Append(events[e], ev)} /\ events[e] \in Seq(Event)
        BY <1>0, <1>3
      <4>3. Answers(Append(events[e], ev)) = {}
        BY <1>1, <3>1, <4>2, AppendedAnswers DEF ev
      <4> QED BY <3>1, <4>1, <4>2, <4>3
    <3> QED BY <1>6, <3>1, <3>2 DEF Lone
  <2> QED BY <2>2, <2>3
<1>9. ASSUME NEW b \in Calls \ {e} PROVE Lone(b)'
  <2>1. ops'[b] = ops[b] /\ events'[b] = events[b] /\ running'[b] = running[b]
    BY <1>0, <1>2, <1>3
  <2> QED BY <1>4, <1>6, <2>1 DEF Answered, Lone
<1> QED BY <1>2, <1>4, <1>8, <1>9 DEF Answered

LEMMA WorkAnswered ==
  ASSUME Types, Answered, NEW e \in Calls, Work(e) \/ \E o \in Outcomes : Complete(e, o)
  PROVE  Answered'
<1>0. /\ events \in [Calls -> Seq(Event)] /\ running \in [Calls -> Operation \cup {Idle}] /\ extras \in Nat
  BY ChannelsTyped
<1>1. SUFFICES ASSUME extras' = 0 PROVE Answered'
  BY DEF Answered
<1>2. PICK o \in {"activity"} \cup Outcomes :
        /\ events' = [events EXCEPT ![e] = Said(e, o)]
        /\ \/ o = "activity" /\ UNCHANGED running
           \/ o # "activity" /\ running' = [running EXCEPT ![e] = Idle]
        /\ UNCHANGED ops
  <2>1. Work(e) => events' = [events EXCEPT ![e] = Said(e, "activity")] /\ UNCHANGED <<running, ops>>
    BY DEF Work
  <2>2. ASSUME NEW o \in Outcomes, Complete(e, o)
        PROVE  /\ events' = [events EXCEPT ![e] = Said(e, o)] /\ running' = [running EXCEPT ![e] = Idle]
               /\ UNCHANGED ops /\ o # "activity"
    BY <1>0, <1>1, <2>2 DEF Complete, Outcomes
  <2> QED BY <2>1, <2>2
<1>3. UNCHANGED <<pc, loaded, active, of, heard>> /\ running[e] # Idle /\ extras = 0
  <2>1. Work(e) => UNCHANGED <<table, calls, monitor, bounds>> /\ running[e] # Idle
    BY DEF Work
  <2>2. ASSUME NEW p \in Outcomes, Complete(e, p)
        PROVE  UNCHANGED <<table, calls, monitor>> /\ running[e] # Idle /\ extras = 0
    BY <1>0, <1>1, <2>2 DEF Complete
  <2> QED BY <1>1, <2>1, <2>2 DEF table, calls, monitor, bounds
<1> DEFINE ev == [what |-> o, of |-> running[e].of]
<1>4. ev \in Event /\ ev.what = o /\ ev.of = running[e].of
  <2>1. running[e] \in Operation
    BY <1>0, <1>3
  <2> QED BY <2>1 DEF Operation, Event
<1>5. Lone(e) /\ Awaits(running[e].of, e) /\ Answers(events[e]) = {} /\ Jobs(ops[e]) = {}
  BY <1>3 DEF Answered, Lone
<1>6. \A d, b : Awaits(d, b) => Awaits(d, b)'
  BY <1>3 DEF Awaits
<1>7. events'[e] = Append(events[e], ev) /\ events[e] \in Seq(Event)
  BY <1>0, <1>2 DEF Said
<1> HIDE DEF ev
<1>8. \A i \in Answers(events'[e]) : o # "activity" /\ i = Len(events[e]) + 1 /\ events'[e][i] = ev
  BY <1>4, <1>5, <1>7, AppendedAnswers
<1>9. Lone(e)'
  <2>1. CASE o = "activity"
    BY <1>2, <1>3, <1>5, <1>6, <1>8, <2>1 DEF Lone, Outcomes
  <2>2. CASE o # "activity"
    <3>1. running'[e] = Idle
      BY <1>0, <1>2, <2>2
    <3> QED BY <1>2, <1>4, <1>5, <1>6, <1>8, <3>1 DEF Lone
  <2> QED BY <2>1, <2>2
<1>10. ASSUME NEW b \in Calls \ {e} PROVE Lone(b)'
  <2>1. ops'[b] = ops[b] /\ events'[b] = events[b] /\ running'[b] = running[b]
    BY <1>0, <1>2
  <2> QED BY <1>3, <1>6, <2>1 DEF Answered, Lone
<1> QED BY <1>3, <1>9, <1>10 DEF Answered

(* The monitor of a thread's turn hears no other turn's answer. *)
LEMMA HearAnswered ==
  ASSUME Types, Orderly, Answered, NEW c \in Calls, Hear(c)
  PROVE  Answered'
<1> DEFINE e == engine[c]
           ev == Head(events[e])
<1>0. /\ Rows /\ events \in [Calls -> Seq(Event)] /\ heard \in [Calls -> Calls \cup {None, Extra}]
      /\ e \in Calls /\ events[e] \in Seq(Event) /\ events[e] # <<>> /\ ev \in Event
  BY RowsTyped, ChannelsTyped, HearsEvent
<1>1. /\ pc[c] = "listen" /\ UNCHANGED <<loaded, active, of, engine, ops, running, extras>>
      /\ events' = [events EXCEPT ![e] = Tail(@)]
      /\ \A b \in Calls \ {c} : pc'[b] = pc[b] /\ heard'[b] = heard[b]
      /\ \/ ev.what = "activity" /\ UNCHANGED <<pc, heard>>
         \/ ev.what # "activity" /\ heard'[c] = ev.of
  BY <1>0 DEF Hear, At, Goto, Rows, table, bounds
<1> HIDE DEF ev
<1>2. active[of[c]] = c /\ loaded[of[c]] = e
  BY <1>1 DEF Orderly, Seating, Seated, Monitored
<1>3. SUFFICES ASSUME extras = 0 PROVE Answered'
  BY <1>1 DEF Answered
<1>4. \A b \in Calls : Lone(b)
  BY <1>3 DEF Answered
<1>5. events'[e] = Tail(events[e])
  BY <1>0, <1>1
<1>6. /\ \A i \in Answers(events'[e]) : i + 1 \in Answers(events[e]) /\ events'[e][i] = events[e][i + 1]
                                       /\ i + 1 # 1 /\ i \in Nat
      /\ ev.what # "activity" => 1 \in Answers(events[e]) /\ events[e][1] = ev
  BY <1>0, <1>5, RemainingAnswers DEF ev
<1>7. \A b \in Calls \ {e} : events'[b] = events[b]
  BY <1>0, <1>1
<1>8. CASE ev.what = "activity"
  <2>1. \A d, b : Awaits(d, b) => Awaits(d, b)'
    BY <1>1, <1>8 DEF Awaits
  <2>2. \A i, j \in Answers(events'[e]) : i = j
    <3>1. \A i, j \in Answers(events'[e]) : i + 1 = j + 1 /\ i \in Nat /\ j \in Nat
      BY <1>0, <1>4, <1>6 DEF Lone
    <3> QED BY <3>1
  <2>3. Answers(events[e]) = {} => Answers(events'[e]) = {}
    BY <1>6
  <2>4. Lone(e)'
    <3>1. Lone(e) /\ engine'[c] = e /\ ops'[e] = ops[e] /\ running'[e] = running[e]
      BY <1>0, <1>1, <1>4
    <3>2. \A i \in Jobs(ops'[e]) :
            Awaits(ops[e][i].of, e)' /\ running'[e] = Idle /\ Answers(events'[e]) = {}
      BY <2>1, <2>3, <3>1 DEF Lone
    <3>3. running'[e] # Idle => Awaits(running[e].of, e)' /\ Answers(events'[e]) = {}
      BY <2>1, <2>3, <3>1 DEF Lone
    <3>4. \A i \in Answers(events'[e]) : Awaits(events[e][i].of, e)'
      BY <1>6, <2>1, <3>1 DEF Lone
    <3> QED BY <2>2, <3>1, <3>2, <3>3, <3>4 DEF Lone
  <2>5. ASSUME NEW b \in Calls \ {e} PROVE Lone(b)'
    <3>1. Lone(b) /\ ops'[b] = ops[b] /\ running'[b] = running[b] /\ events'[b] = events[b]
      BY <1>1, <1>4, <1>7
    <3> QED BY <2>1, <3>1 DEF Lone
  <2> QED BY <1>0, <1>1, <1>3, <1>8, <2>4, <2>5 DEF Answered
<1>9. CASE ev.what # "activity"
  <2>1. Awaits(ev.of, e) /\ Jobs(ops[e]) = {} /\ running[e] = Idle /\ Answers(events'[e]) = {}
    <3>1. Lone(e) /\ 1 \in Answers(events[e]) /\ events[e][1] = ev
      BY <1>0, <1>4, <1>6, <1>9
    <3>2. Answers(events'[e]) = {}
      BY <1>6, <3>1 DEF Lone
    <3> QED BY <3>1, <3>2 DEF Lone
  <2>2. ev.of = c
    BY <1>0, <1>1, <1>2, <2>1, OneAwaited
  <2>3. heard'[c] = c
    BY <1>1, <1>9, <2>2
  <2>4. \A d, b : Awaits(d, b) /\ b # e => Awaits(d, b)'
    BY <1>1, <1>2 DEF Awaits
  <2>5. Lone(e)'
    BY <1>1, <2>1 DEF Lone
  <2>6. ASSUME NEW b \in Calls \ {e} PROVE Lone(b)'
    <3>1. Lone(b) /\ ops'[b] = ops[b] /\ running'[b] = running[b] /\ events'[b] = events[b]
      BY <1>1, <1>4, <1>7
    <3> QED BY <2>4, <3>1 DEF Lone
  <2> QED BY <1>1, <1>3, <2>3, <2>5, <2>6 DEF Answered
<1> QED BY <1>8, <1>9

LEMMA AnsweredStep ==
  ASSUME Polite, Answered, [Next]_vars
  PROVE  Answered'
<1> USE DEF Polite
<1>1. ASSUME NEW c \in Calls, Call(c) PROVE Answered'
  <2>1. CASE Send(c)
    BY <2>1, SendAnswered
  <2>2. CASE Load(c)
    <3>1. SendShutdown({Victim} \cap Loaded) /\ UNCHANGED <<events, running, heard, extras>>
      BY <2>2 DEF Load, monitor, bounds
    <3> QED BY <2>2, <3>1, StillAwaits, ShutdownAnswered
  <2>3. CASE Move(c)
    <3>1. SendShutdown({of[c]} \cap Loaded) /\ UNCHANGED <<events, running, heard, extras>>
      BY <2>3 DEF Move, monitor, bounds
    <3> QED BY <2>3, <3>1, StillAwaits, ShutdownAnswered
  <2>4. ASSUME \/ \E h \in Threads, k \in Kinds : Begin(c, h, k)
               \/ Check(c) \/ Save(c) \/ Register(c) \/ StartFails(c)
        PROVE  Answered'
    <3>1. UNCHANGED <<ops, events, running, heard, extras>>
      BY <2>4 DEF Begin, Check, Save, Register, StartFails, engines, monitor, bounds
    <3> QED BY <2>4, <3>1, StillAwaits, QuietAnswered
  <2> QED BY <1>1, <2>1, <2>2, <2>3, <2>4 DEF Call
<1>2. ASSUME NEW c \in Calls, Monitor(c) \/ MonitorFails(c) PROVE Answered'
  <2>1. CASE HearEnd(c)
    <3>1. pc[c] = "listen" /\ engine[c] \in stopped
      BY <2>1 DEF HearEnd, At
    <3>2. of[c] \in Threads /\ loaded[of[c]] = engine[c] /\ loaded[of[c]] # None
      BY <3>1, OwnFlag DEF Orderly, Seating, Seated, Monitored
    <3> QED BY <3>1, <3>2 DEF Serving, Willing
  <2>2. ASSUME Judge(c) \/ Store(c) \/ Announce(c) \/ Clear(c) \/ MonitorFails(c)
        PROVE  Answered'
    <3>1. UNCHANGED <<ops, events, running, heard, extras>>
      BY <2>2 DEF Judge, Store, Announce, Clear, MonitorFails, engines, monitor, bounds
    <3> QED BY <2>2, <3>1, StillAwaits, QuietAnswered
  <2> QED BY <1>2, <2>1, <2>2, HearAnswered DEF Monitor
<1>3. ASSUME NEW c \in Calls, Engine(c) PROVE Answered'
  BY <1>3, TakeOpAnswered, WorkAnswered DEF Engine
<1>4. ASSUME NEW c \in Calls, Resume(c) PROVE Answered'
  <2>1. extras' = extras + 1 /\ extras \in Nat
    BY <1>4, ChannelsTyped DEF Resume
  <2> QED BY <2>1 DEF Answered
<1>5. ASSUME \/ \E c \in Calls : Interrupt(c)
             \/ \E s \in Steers : Steer(s)
             \/ Open
             \/ UNCHANGED vars
      PROVE  Answered'
  <2>1. Rests
    BY <1>5, Resting DEF Orderly
  <2>2. UNCHANGED <<ops, events, running, heard, extras>>
    <3>1. ASSUME NEW c \in Calls, Interrupt(c) PROVE UNCHANGED <<ops, events, running, heard, extras>>
      BY <3>1 DEF Interrupt, monitor, bounds
    <3>2. ASSUME NEW s \in Steers, Steer(s) PROVE UNCHANGED <<ops, events, running, heard, extras>>
      <4>1. ASSUME NEW c \in Calls, SteerBegin(s, c) PROVE UNCHANGED <<engines, monitor, bounds>>
        BY <4>1 DEF SteerBegin
      <4>2. SteerLoad(s) \/ SteerSave(s) => UNCHANGED <<engines, monitor, bounds>>
        BY DEF SteerLoad, SteerSave
      <4> QED BY <3>2, <4>1, <4>2 DEF Steer, engines, monitor, bounds
    <3> QED BY <1>5, <3>1, <3>2 DEF Open, vars, engines, monitor, bounds
  <2>3. \A d, e \in Calls : Awaits(d, e) => Awaits(d, e)'
    BY <2>1 DEF Rests, calls, Awaits
  <2> QED BY <2>2, <2>3, QuietAnswered
<1>6. CASE Crash
  <2>1. \A e \in Calls : ops'[e] = <<>> /\ events'[e] = <<>> /\ running'[e] = Idle /\ heard'[e] = None
    BY <1>6 DEF Crash
  <2>2. Jobs(<<>>) = {} /\ Answers(<<>>) = {}
    BY DEF Jobs, Answers
  <2> QED BY <2>1, <2>2 DEF Answered, Lone
<1> QED BY <1>1, <1>2, <1>3, <1>4, <1>5, <1>6 DEF Next

(* While engines start no turns by themselves, a monitor that hears how a  *)
(* turn ended hears it of its own turn, though calls and monitors fail,    *)
(* engines are evicted and turns are abandoned halfway (register_and_send, *)
(* monitor_turn).                                                          *)
THEOREM OutcomeCorrect ==
  ASSUME OneAtATime
  PROVE  Spec => []OwnOutcome
<1>1. Init => Answered
  <2>1. Jobs(<<>>) = {} /\ Answers(<<>>) = {}
    BY DEF Jobs, Answers
  <2> QED BY <2>1 DEF Init, Answered, Lone
<1>2. Polite /\ Answered /\ [Next]_vars => Answered'
  BY AnsweredStep
<1>3. Answered => OwnOutcome
  BY DEF Answered, OwnOutcome
<1> QED BY <1>1, <1>2, <1>3, PoliteAlways, PTL DEF Spec

=============================================================================

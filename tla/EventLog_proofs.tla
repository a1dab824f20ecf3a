--------------------------- MODULE EventLog_proofs ---------------------------
(***************************************************************************)
(* Proofs about EventLog, for any threads, writers and readers and any     *)
(* number of failed writes and crashes: type correctness and the numbers   *)
(* of the files; and, when the callers of one thread take turns, the order *)
(* of the files, what a client of the stream is sent, and that the         *)
(* executors implement EventFeed.                                          *)
(***************************************************************************)
EXTENDS EventLog, FiniteSetTheorems, SequenceTheorems, WellFoundedInduction, TLAPS

(* What appending a number does to the numbers of a file. *)
LEMMA AppendRange ==
  ASSUME NEW S, NEW q \in Seq(S), NEW n \in S
  PROVE  /\ Append(q, n) \in Seq(S)
         /\ Range(Append(q, n)) = Range(q) \cup {n}
         /\ IsInjective(q) /\ n \notin Range(q) => IsInjective(Append(q, n))
<1>1. /\ Append(q, n) \in Seq(S) /\ Len(Append(q, n)) = Len(q) + 1
      /\ \A i \in 1..Len(q) : Append(q, n)[i] = q[i]
      /\ Append(q, n)[Len(q) + 1] = n
  BY AppendProperties
<1>2. /\ DOMAIN q = 1..Len(q) /\ Len(q) \in Nat
      /\ DOMAIN Append(q, n) = 1..(Len(q) + 1)
  BY <1>1, LenProperties
<1>3. Range(Append(q, n)) = Range(q) \cup {n}
  <2>1. ASSUME NEW x \in Range(Append(q, n)) PROVE x \in Range(q) \cup {n}
    <3>1. PICK i \in 1..(Len(q) + 1) : Append(q, n)[i] = x
      BY <1>2 DEF Range
    <3> QED BY <3>1, <1>1, <1>2 DEF Range
  <2>2. ASSUME NEW x \in Range(q) PROVE x \in Range(Append(q, n))
    <3>1. PICK i \in 1..Len(q) : q[i] = x
      BY <1>2 DEF Range
    <3> QED BY <3>1, <1>1, <1>2 DEF Range
  <2>3. n \in Range(Append(q, n))
    BY <1>1, <1>2 DEF Range
  <2> QED BY <2>1, <2>2, <2>3
<1>4. ASSUME IsInjective(q), n \notin Range(q) PROVE IsInjective(Append(q, n))
  BY <1>1, <1>2, <1>4 DEF IsInjective, Range
<1> QED BY <1>1, <1>3, <1>4

(* An empty file has no numbers. *)
LEMMA EmptyRange == Range(<<>>) = {} /\ IsInjective(<<>>)
BY DEF Range, IsInjective

-----------------------------------------------------------------------------
(* The initial state. *)
LEMMA InitInvariant == Init => IInv
<1> SUFFICES ASSUME Init PROVE IInv
  OBVIOUS
<1>1. StoreTypeOK
  BY SeqAssumption DEF Init, StoreTypeOK, FirstSeq
<1>2. SavedCounterIsAhead /\ DrawnIsFresh
  BY EmptyRange DEF Init, SavedCounterIsAhead, DrawnIsFresh, FirstSeq
<1>3. SeqsAreUnique
  BY EmptyRange DEF Init, SeqsAreUnique
<1> QED BY <1>1, <1>2, <1>3 DEF IInv

(* The variables the invariant is about. *)
store == <<up, next_seq, diskSeq, files, writing>>

(* A step that leaves the store alone keeps the invariant. *)
LEMMA StoreUnchanged == IInv /\ UNCHANGED store => IInv'
BY DEF IInv, store, files, writing, StoreTypeOK, SavedCounterIsAhead, DrawnIsFresh, SeqsAreUnique

(* So do the steps of the readers. *)
LEMMA ReadersKeepStore ==
  ASSUME (\E p \in Pollers : Poller(p)) \/ (\E s \in Streams : Stream(s))
  PROVE  UNCHANGED store
BY DEF Poller, Stream, StartPolling, Poll, Replay, Subscribe, Receive, Close, store

(* append_event, one step at a time. *)
LEMMA DrawKeeps ==
  ASSUME IInv, NEW w \in Writers, NEW h \in Threads, NEW ok \in BOOLEAN, DrawSeq(w, h, ok)
  PROVE  IInv'
<1> USE DEF IInv
<1>1. /\ next_seq \in Seqs /\ next_seq' = next_seq + 1 /\ diskSeq <= next_seq
      /\ next_seq' \in 1..(MaxSeq + 1)
      /\ UNCHANGED <<up, log, open, garbled>> /\ up
  BY SeqAssumption DEF DrawSeq, files, StoreTypeOK, SavedCounterIsAhead, Seqs
<1>2. SeqsAreUnique'
  BY <1>1 DEF SeqsAreUnique
<1>3. CASE ~ok
  <2>1. UNCHANGED <<diskSeq, pc, rec>>
    BY <1>3 DEF DrawSeq, writing
  <2> QED BY <1>1, <1>2, <2>1 DEF StoreTypeOK, SavedCounterIsAhead, DrawnIsFresh
<1>4. CASE ok
  <2> DEFINE r == [thread |-> h, seq |-> next_seq]
  <2>1. /\ diskSeq' = next_seq + 1 /\ pc' = [pc EXCEPT ![w] = "drawn"]
        /\ rec' = [rec EXCEPT ![w] = r]
    BY <1>4 DEF DrawSeq
  <2>2. r \in Record /\ r.seq = next_seq
    BY <1>1 DEF Record
  <2>3. /\ pc'[w] = "drawn" /\ rec'[w] = r
        /\ \A v \in Writers \ {w} : pc'[v] = pc[v] /\ rec'[v] = rec[v]
    BY <2>1 DEF StoreTypeOK
  <2> HIDE DEF r
  <2>4. StoreTypeOK'
    BY <1>1, <2>1, <2>2, <2>3 DEF StoreTypeOK
  <2>5. next_seq \in Nat /\ diskSeq \in Nat
    BY SeqAssumption DEF StoreTypeOK
  <2>6. \A g \in Threads : \A n \in Range(log[g]) : n \in Nat /\ n < next_seq
    <3> SUFFICES ASSUME NEW g \in Threads, NEW n \in Range(log[g]) PROVE n \in Nat /\ n < next_seq
      OBVIOUS
    <3>1. n \in Nat
      BY LenProperties, SeqAssumption DEF StoreTypeOK, Seqs, Range
    <3> QED BY <1>1, <2>5, <3>1 DEF SavedCounterIsAhead
  <2>7. \A v \in Writers \ {w} : pc[v] = "drawn" => rec[v].seq \in Nat /\ rec[v].seq < next_seq
    <3> SUFFICES ASSUME NEW v \in Writers \ {w}, pc[v] = "drawn"
                 PROVE  rec[v].seq \in Nat /\ rec[v].seq < next_seq
      OBVIOUS
    <3>1. rec[v].seq \in Nat
      BY SeqAssumption DEF StoreTypeOK, Record, Seqs
    <3> QED BY <1>1, <2>5, <3>1 DEF SavedCounterIsAhead
  <2>8. SavedCounterIsAhead'
    <3>1. \A v \in Writers : pc'[v] = "drawn" => rec'[v].seq < diskSeq'
      BY <2>1, <2>2, <2>3, <2>5, <2>7
    <3>2. \A g \in Threads : \A n \in Range(log'[g]) : n < diskSeq'
      BY <1>1, <2>1, <2>5, <2>6
    <3>3. diskSeq' <= next_seq'
      BY <1>1, <2>1, <2>5
    <3> QED BY <3>1, <3>2, <3>3 DEF SavedCounterIsAhead
  <2>9. DrawnIsFresh'
    <3> SUFFICES ASSUME NEW u \in Writers, pc'[u] = "drawn"
                 PROVE  /\ \A g \in Threads : rec'[u].seq \notin Range(log'[g])
                        /\ \A v \in Writers \ {u} : pc'[v] = "drawn" => rec'[v].seq # rec'[u].seq
      BY DEF DrawnIsFresh
    <3>1. CASE u = w
      BY <1>1, <2>2, <2>3, <2>5, <2>6, <2>7, <3>1
    <3>2. CASE u # w
      BY <1>1, <2>2, <2>3, <2>5, <2>7, <3>2 DEF DrawnIsFresh
    <3> QED BY <3>1, <3>2
  <2> QED BY <1>2, <2>4, <2>8, <2>9
<1> QED BY <1>3, <1>4

LEMMA WriteTextKeeps ==
  ASSUME IInv, NEW w \in Writers, NEW ok \in BOOLEAN, WriteText(w, ok)
  PROVE  IInv'
<1> USE DEF IInv
<1>1. pc[w] = "drawn" /\ UNCHANGED <<up, next_seq, diskSeq>>
  BY DEF WriteText
<1>2. rec[w] \in Record /\ rec[w].thread \in Threads /\ rec[w].seq \in Seqs
  BY <1>1 DEF StoreTypeOK, Record
<1>3. CASE ~ok
  <2>1. /\ UNCHANGED log /\ pc' = [pc EXCEPT ![w] = "idle"] /\ rec' = [rec EXCEPT ![w] = NoRecord]
        /\ open' \subseteq Threads /\ garbled' \subseteq Threads
    BY <1>2, <1>3 DEF WriteText, StoreTypeOK
  <2>2. /\ pc'[w] = "idle"
        /\ \A v \in Writers \ {w} : pc'[v] = pc[v] /\ rec'[v] = rec[v]
    BY <2>1 DEF StoreTypeOK
  <2>3. StoreTypeOK'
    BY <1>1, <2>1, <2>2 DEF StoreTypeOK
  <2>4. SavedCounterIsAhead' /\ SeqsAreUnique'
    BY <1>1, <2>1, <2>2 DEF SavedCounterIsAhead, SeqsAreUnique
  <2>5. DrawnIsFresh'
    BY <2>1, <2>2 DEF DrawnIsFresh
  <2> QED BY <2>3, <2>4, <2>5
<1>4. CASE ok
  <2> DEFINE h == rec[w].thread
             n == rec[w].seq
  <2>1. /\ log' = [log EXCEPT ![h] = Append(@, n)]
        /\ pc' = [pc EXCEPT ![w] = "text"] /\ UNCHANGED rec
        /\ open' \subseteq Threads /\ garbled' \subseteq Threads
    BY <1>2, <1>4 DEF WriteText, StoreTypeOK
  <2>2. h \in Threads /\ n \in Seqs /\ log[h] \in Seq(Seqs) /\ rec[w].seq = n
    BY <1>2 DEF StoreTypeOK
  <2> HIDE DEF h, n
  <2>3. /\ log'[h] = Append(log[h], n)
        /\ \A g \in Threads \ {h} : log'[g] = log[g]
    BY <2>1, <2>2 DEF StoreTypeOK
  <2>4. /\ Range(log'[h]) = Range(log[h]) \cup {n}
        /\ log'[h] \in Seq(Seqs)
        /\ IsInjective(log[h]) /\ n \notin Range(log[h]) => IsInjective(log'[h])
    BY <2>2, <2>3, AppendRange
  <2>5. /\ pc'[w] = "text" /\ rec' = rec
        /\ \A v \in Writers \ {w} : pc'[v] = pc[v]
    BY <2>1 DEF StoreTypeOK
  <2>6. StoreTypeOK'
    <3>1. log' \in [Threads -> Seq(Seqs)]
      BY <2>1, <2>2, <2>3, <2>4 DEF StoreTypeOK
    <3> QED BY <1>1, <1>2, <2>1, <2>5, <3>1 DEF StoreTypeOK
  <2>7. /\ \A g \in Threads : n \notin Range(log[g])
        /\ \A v \in Writers \ {w} : pc[v] = "drawn" => rec[v].seq # n
        /\ n < diskSeq
    BY <1>1, <2>2 DEF DrawnIsFresh, SavedCounterIsAhead
  <2>8. SavedCounterIsAhead'
    BY <1>1, <2>3, <2>4, <2>5, <2>7 DEF SavedCounterIsAhead
  <2>9. DrawnIsFresh'
    <3> SUFFICES ASSUME NEW u \in Writers, pc'[u] = "drawn"
                 PROVE  /\ \A g \in Threads : rec'[u].seq \notin Range(log'[g])
                        /\ \A v \in Writers \ {u} : pc'[v] = "drawn" => rec'[v].seq # rec'[u].seq
      BY DEF DrawnIsFresh
    <3>1. u # w /\ pc[u] = "drawn"
      BY <2>5
    <3>2. rec[u].seq # n
      BY <2>7, <3>1
    <3>3. \A g \in Threads : rec[u].seq \notin Range(log[g])
      BY <3>1 DEF DrawnIsFresh
    <3>4. \A g \in Threads : rec[u].seq \notin Range(log'[g])
      BY <2>3, <2>4, <3>2, <3>3
    <3>5. \A v \in Writers \ {u} : pc'[v] = "drawn" => rec[v].seq # rec[u].seq
      BY <2>5, <3>1 DEF DrawnIsFresh
    <3> QED BY <2>5, <3>4, <3>5
  <2>10. SeqsAreUnique'
    <3>1. \A g \in Threads : IsInjective(log'[g])
      BY <2>3, <2>4, <2>7, <2>2 DEF SeqsAreUnique
    <3>2. ASSUME NEW f \in Threads, NEW g \in Threads, f # g
          PROVE  Range(log'[f]) \cap Range(log'[g]) = {}
      <4>1. Range(log[f]) \cap Range(log[g]) = {}
        BY <3>2 DEF SeqsAreUnique
      <4>2. n \notin Range(log[f]) /\ n \notin Range(log[g])
        BY <2>7
      <4>3. CASE f = h
        <5>1. log'[g] = log[g]
          BY <2>3, <3>2, <4>3
        <5> QED BY <2>4, <4>1, <4>2, <4>3, <5>1
      <4>4. CASE g = h
        <5>1. log'[f] = log[f]
          BY <2>3, <3>2, <4>4
        <5> QED BY <2>4, <4>1, <4>2, <4>4, <5>1
      <4>5. CASE f # h /\ g # h
        <5>1. log'[f] = log[f] /\ log'[g] = log[g]
          BY <2>3, <4>5
        <5> QED BY <4>1, <5>1
      <4> QED BY <4>3, <4>4, <4>5
    <3> QED BY <3>1, <3>2 DEF SeqsAreUnique
  <2> QED BY <2>6, <2>8, <2>9, <2>10
<1> QED BY <1>3, <1>4

LEMMA EndLineKeeps ==
  ASSUME IInv, NEW w \in Writers,
         (\E ok \in BOOLEAN : EndLine(w, ok)) \/ Publish(w)
  PROVE  IInv'
<1> USE DEF IInv
<1>1. /\ UNCHANGED <<up, next_seq, diskSeq, log>> /\ pc[w] # "idle"
      /\ open' \subseteq Threads /\ garbled' \subseteq Threads
  BY DEF EndLine, Publish, StoreTypeOK, files
<1>2. /\ pc' \in [Writers -> {"idle", "drawn", "text", "logged"}]
      /\ rec' \in [Writers -> Record \cup {NoRecord}]
      /\ pc'[w] = "idle" \/ (pc'[w] = "logged" /\ rec'[w] = rec[w])
      /\ \A v \in Writers \ {w} : pc'[v] = pc[v] /\ rec'[v] = rec[v]
  BY DEF EndLine, Publish, StoreTypeOK
<1>3. StoreTypeOK'
  BY <1>1, <1>2 DEF StoreTypeOK
<1>4. SavedCounterIsAhead' /\ DrawnIsFresh' /\ SeqsAreUnique'
  BY <1>1, <1>2 DEF SavedCounterIsAhead, DrawnIsFresh, SeqsAreUnique
<1> QED BY <1>3, <1>4

(* A restart begins with the saved counter. *)
LEMMA RestartKeeps ==
  ASSUME IInv, Crash \/ Open
  PROVE  IInv'
<1> USE DEF IInv
<1>1. CASE Crash
  BY <1>1 DEF Crash, files, StoreTypeOK, SavedCounterIsAhead, DrawnIsFresh, SeqsAreUnique
<1>2. CASE Open
  BY <1>2, SeqAssumption
     DEF Open, files, writing, StoreTypeOK, SavedCounterIsAhead, DrawnIsFresh, SeqsAreUnique
<1> QED BY <1>1, <1>2

(* Every step keeps the invariant. *)
THEOREM StepInvariant == IInv /\ [Next]_vars => IInv'
<1> SUFFICES ASSUME IInv, [Next]_vars PROVE IInv'
  OBVIOUS
<1>1. CASE \E w \in Writers : Writer(w)
  BY <1>1, DrawKeeps, WriteTextKeeps, EndLineKeeps DEF Writer
<1>2. CASE (\E p \in Pollers : Poller(p)) \/ (\E s \in Streams : Stream(s))
  BY <1>2, ReadersKeepStore, StoreUnchanged
<1>3. CASE Crash \/ Open
  BY <1>3, RestartKeeps
<1>4. CASE UNCHANGED vars
  BY <1>4, StoreUnchanged DEF vars, store
<1> QED BY <1>1, <1>2, <1>3, <1>4 DEF Next

-----------------------------------------------------------------------------
(* The sequence numbers written to the files of all threads are distinct,  *)
(* through concurrent writers, failed saves and restarts (append_event).   *)
THEOREM SeqsUnique == Spec => []SeqsAreUnique
<1>1. IInv => SeqsAreUnique
  BY DEF IInv
<1> QED BY <1>1, InitInvariant, StepInvariant, PTL DEF Spec

-----------------------------------------------------------------------------
(* Reading a file. *)

(* A nonempty set of naturals has a least element. *)
LEMMA LeastNatural ==
  ASSUME NEW S \in SUBSET Nat, S # {}
  PROVE  \E i \in S : \A j \in S : i <= j
<1> DEFINE Below == {0..n : n \in S}
<1>1. Below \subseteq FiniteSubsetsOf(Nat)
  <2>1. ASSUME NEW n \in S PROVE 0..n \in SUBSET Nat /\ IsFiniteSet(0..n)
    BY FS_Interval
  <2> QED BY <2>1 DEF FiniteSubsetsOf
<1>2. Below # {}
  OBVIOUS
<1>3. IsWellFoundedOn(StrictSubsetOrdering(Nat), FiniteSubsetsOf(Nat))
  BY FS_StrictSubsetOrderingWellFounded
<1>4. PICK b \in Below : \A c \in Below : <<c, b>> \notin StrictSubsetOrdering(Nat)
  <2> HIDE DEF Below
  <2> QED BY <1>1, <1>2, <1>3, WFMin
<1>5. PICK n \in S : b = 0..n
  OBVIOUS
<1>6. ASSUME NEW m \in S, m < n PROVE FALSE
  <2>1. 0..m \in Below
    OBVIOUS
  <2>2. <<0..m, 0..n>> \in StrictSubsetOrdering(Nat)
    BY <1>6 DEF StrictSubsetOrdering
  <2> QED BY <1>4, <1>5, <2>1, <2>2
<1> QED BY <1>6

(* So a bounded one has a greatest. *)
LEMMA GreatestNatural ==
  ASSUME NEW S \in SUBSET Nat, S # {}, NEW b \in Nat, \A x \in S : x <= b
  PROVE  \E i \in S : \A j \in S : j <= i
<1> DEFINE U == {u \in Nat : \A x \in S : x <= u}
<1>1. U \in SUBSET Nat /\ U # {}
  OBVIOUS
<1>2. PICK u \in U : \A v \in U : u <= v
  <2> HIDE DEF U
  <2> QED BY <1>1, LeastNatural
<1>3. u \in S
  <2> SUFFICES ASSUME u \notin S PROVE FALSE
    OBVIOUS
  <2>1. \A x \in S : x <= u - 1
    OBVIOUS
  <2>2. u - 1 \in U
    <3>1. PICK x \in S : TRUE
      OBVIOUS
    <3>2. u - 1 \in Nat
      BY <2>1, <3>1
    <3> QED BY <2>1, <3>2
  <2> QED BY <1>2, <2>2
<1> QED BY <1>3

(* The number an executor has seen is one it was told or the one it had. *)
LEMMA LargestIsOne ==
  ASSUME NEW b \in Nat, NEW s \in Seq(0..b), NEW n \in 0..b
  PROVE  /\ Largest(s, n) \in Range(s) \cup {n} /\ Largest(s, n) \in 0..b
         /\ \A x \in Range(s) \cup {n} : x <= Largest(s, n)
<1> DEFINE S == Range(s) \cup {n}
<1>1. S \subseteq 0..b
  BY LenProperties DEF Range
<1>2. \E i \in S : \A j \in S : j <= i
  <2>1. S \in SUBSET Nat /\ S # {} /\ \A x \in S : x <= b
    BY <1>1
  <2> HIDE DEF S
  <2> QED BY <2>1, GreatestNatural
<1>3. Largest(s, n) \in S /\ \A x \in S : x <= Largest(s, n)
  BY <1>2 DEF Largest
<1> QED BY <1>1, <1>3

(* The place an element kept takes: how many kept are not behind it. *)
Place(S, i) == Cardinality({j \in S : j <= i})

LEMMA PlacesIncrease ==
  ASSUME NEW n \in Nat, NEW S \in SUBSET (1..n)
  PROVE  /\ Cardinality(S) \in Nat /\ IsFiniteSet(S)
         /\ \A i \in S : Place(S, i) \in 1..Cardinality(S)
         /\ \A i, k \in S : i < k => Place(S, i) < Place(S, k)
         /\ \A k \in 1..Cardinality(S) : \E i \in S : Place(S, i) = k
<1>1. IsFiniteSet(S) /\ Cardinality(S) \in Nat
  <2>1. IsFiniteSet(1..n)
    BY FS_Interval
  <2> QED BY <2>1, FS_Subset, FS_CardinalityType
<1>2. ASSUME NEW i \in S
      PROVE  /\ {j \in S : j <= i} \in SUBSET S
             /\ IsFiniteSet({j \in S : j <= i}) /\ i \in {j \in S : j <= i}
  <2>1. {j \in S : j <= i} \in SUBSET S /\ i \in {j \in S : j <= i}
    OBVIOUS
  <2> QED BY <1>1, <2>1, FS_Subset
<1>3. ASSUME NEW i \in S PROVE Place(S, i) \in 1..Cardinality(S)
  <2> DEFINE B == {j \in S : j <= i}
  <2>1. B \in SUBSET S /\ IsFiniteSet(B) /\ B # {}
    BY <1>2
  <2> HIDE DEF B
  <2>2. Cardinality(B) \in Nat /\ Cardinality(B) # 0 /\ Cardinality(B) <= Cardinality(S)
    BY <1>1, <2>1, FS_EmptySet, FS_CardinalityType, FS_Subset
  <2> QED BY <1>1, <2>2 DEF B, Place
<1>4. ASSUME NEW i \in S, NEW k \in S, i < k PROVE Place(S, i) < Place(S, k)
  <2> DEFINE B == {j \in S : j <= i}
             C == {j \in S : j <= k}
  <2>1. B \in SUBSET C /\ k \in C /\ k \notin B
    <3>1. S \subseteq Nat /\ i \in Nat /\ k \in Nat
      OBVIOUS
    <3>2. \A j \in S : j <= i => j <= k
      BY <1>4, <3>1
    <3>3. k <= k /\ ~(k <= i)
      BY <1>4, <3>1
    <3> QED BY <3>2, <3>3
  <2>2. IsFiniteSet(C)
    BY <1>2
  <2>3. Place(S, i) = Cardinality(B) /\ Place(S, k) = Cardinality(C)
    BY DEF Place
  <2> HIDE DEF B, C
  <2>4. Cardinality(B) <= Cardinality(C) /\ Cardinality(B) # Cardinality(C)
    BY <2>1, <2>2, FS_Subset
  <2> QED BY <1>1, <1>3, <2>3, <2>4
<1>5. \A k \in 1..Cardinality(S) : \E i \in S : Place(S, i) = k
  <2> DEFINE f == [i \in S |-> Place(S, i)]
             T == 1..Cardinality(S)
  <2>1. \A i \in S : Place(S, i) \in T
    BY <1>3
  <2>2. f \in [S -> T]
    BY <2>1
  <2>3. \A i, k \in S : f[i] = f[k] => i = k
    <3>1. ASSUME NEW i \in S, NEW k \in S, f[i] = f[k], i < k PROVE FALSE
      BY <1>3, <1>4, <3>1
    <3> QED BY <3>1
  <2>4. IsFiniteSet(T) /\ Cardinality(T) = Cardinality(S)
    BY <1>1, FS_Interval
  <2>5. \A k \in T : \E i \in S : f[i] = k
    <3> HIDE DEF f, T
    <3>1. f \in Injection(S, T)
      BY <2>2, <2>3 DEF Injection, IsInjective
    <3>2. f \in Surjection(S, T)
      BY <2>4, <3>1, FS_Injection
    <3> QED BY <3>2 DEF Surjection
  <2> QED BY <2>5
<1> QED BY <1>1, <1>3, <1>4, <1>5

(* What is kept of a sequence is a sequence of its elements. *)
LEMMA KeptType ==
  ASSUME NEW T, NEW q \in Seq(T), NEW S \in SUBSET DOMAIN q
  PROVE  Kept(q, S) \in Seq(T)
<1>1. Len(q) \in Nat /\ q \in [1..Len(q) -> T] /\ DOMAIN q = 1..Len(q)
  BY LenProperties
<1>2. /\ Cardinality(S) \in Nat
      /\ \A k \in 1..Cardinality(S) : \E i \in S : Place(S, i) = k
  BY <1>1, PlacesIncrease
<1>3. \A k \in 1..Cardinality(S) : q[CHOOSE i \in S : Place(S, i) = k] \in T
  BY <1>1, <1>2
<1>4. Kept(q, S) \in [1..Cardinality(S) -> T]
  BY <1>3 DEF Kept, Place
<1> QED BY <1>2, <1>4, SeqDef

-----------------------------------------------------------------------------
(* The readers' variables have their types, whatever the writers do.       *)

LEMMA SinceType ==
  ASSUME StoreTypeOK, NEW n \in 0..MaxSeq
  PROVE  Since(Watched, n) \in Seq(Seqs)
<1>1. log[Watched] \in Seq(Seqs)
  BY WatchedAssumption DEF StoreTypeOK
<1> QED BY <1>1, KeptType DEF Since

LEMMA InitTypes == Init => TypeOK
<1> SUFFICES ASSUME Init PROVE TypeOK
  OBVIOUS
<1>1. StoreTypeOK
  BY InitInvariant DEF IInv
<1>2. ReaderTypeOK
  BY EmptySeq, SeqAssumption DEF Init, ReaderTypeOK
<1>3. published \in SUBSET Record /\ faults \in 0..MaxFaults /\ crashes \in 0..MaxCrashes
  BY SeqAssumption DEF Init
<1> QED BY <1>1, <1>2, <1>3 DEF TypeOK

(* What a poll leaves in the hands of the executor. *)
LEMMA PollType ==
  ASSUME TypeOK, NEW p \in Pollers, Poll(p)
  PROVE  ReaderTypeOK'
<1> USE DEF TypeOK, ReaderTypeOK
<1>1. UNCHANGED <<stream, last_seq, streamed, inbox, lagged>>
  BY DEF Poll, streams
<1>2. CASE Readable(Watched)
  <2> DEFINE batch == Since(Watched, seen_seq[p])
             n == seen_seq[p]
  <2>1. batch \in Seq(Seqs) /\ batch \in Seq(0..MaxSeq) /\ n \in 0..MaxSeq
        /\ polled[p] \in Seq(Seqs)
    BY SinceType, SeqMonotonic, SeqAssumption DEF Seqs
  <2>2. /\ polled' = [polled EXCEPT ![p] = polled[p] \o batch]
        /\ seen_seq' = [seen_seq EXCEPT ![p] = Largest(batch, n)]
        /\ UNCHANGED polling
    BY <1>2 DEF Poll
  <2> HIDE DEF batch, n
  <2>3. polled[p] \o batch \in Seq(Seqs)
    BY <2>1, ConcatProperties
  <2>4. Largest(batch, n) \in 0..MaxSeq
    BY <2>1, LargestIsOne, SeqAssumption
  <2> QED BY <1>1, <2>2, <2>3, <2>4
<1>3. CASE ~Readable(Watched)
  <2>1. polling' = [polling EXCEPT ![p] = "failed"] /\ UNCHANGED <<seen_seq, polled>>
    BY <1>3 DEF Poll
  <2> QED BY <1>1, <2>1
<1> QED BY <1>2, <1>3

(* The last number of a batch is one of the log's. *)
LEMMA LastType ==
  ASSUME NEW S, NEW q \in Seq(S), q # <<>>
  PROVE  Last(q) \in S /\ Last(q) = q[Len(q)] /\ Len(q) \in 1..Len(q)
<1>1. Len(q) \in Nat /\ Len(q) # 0
  BY LenProperties, EmptySeq
<1> QED BY <1>1, ElementOfSeq DEF Last

LEMMA ReplayType ==
  ASSUME TypeOK, NEW s \in Streams, Replay(s)
  PROVE  ReaderTypeOK'
<1> USE DEF TypeOK, ReaderTypeOK
<1> DEFINE backlog == Since(Watched, last_seq[s])
           n == IF backlog = <<>> THEN last_seq[s] ELSE Last(backlog)
<1>1. /\ UNCHANGED <<polling, seen_seq, polled, inbox, lagged>>
      /\ streamed' = [streamed EXCEPT ![s] = streamed[s] \o backlog]
      /\ last_seq' = [last_seq EXCEPT ![s] = n]
      /\ stream' = [stream EXCEPT ![s] = "replayed"]
  BY DEF Replay, pollers
<1>2. backlog \in Seq(Seqs) /\ last_seq[s] \in 0..MaxSeq /\ streamed[s] \in Seq(Seqs)
  BY SinceType
<1> HIDE DEF backlog
<1>3. n \in 0..MaxSeq
  BY <1>2, LastType, SeqAssumption DEF Seqs
<1>4. streamed[s] \o backlog \in Seq(Seqs)
  BY <1>2, ConcatProperties
<1> HIDE DEF n
<1> QED BY <1>1, <1>3, <1>4

LEMMA ReceiveType ==
  ASSUME TypeOK, NEW s \in Streams, Receive(s)
  PROVE  ReaderTypeOK'
<1> USE DEF TypeOK, ReaderTypeOK
<1> DEFINE r == Head(inbox[s])
<1>1. /\ UNCHANGED <<polling, seen_seq, polled, stream, lagged>>
      /\ inbox[s] # <<>> /\ inbox' = [inbox EXCEPT ![s] = Tail(inbox[s])]
      /\ \/ /\ streamed' = [streamed EXCEPT ![s] = Append(streamed[s], r.seq)]
            /\ last_seq' = [last_seq EXCEPT ![s] = r.seq]
         \/ UNCHANGED <<streamed, last_seq>>
  BY DEF Receive, pollers
<1>2. r \in Record /\ Tail(inbox[s]) \in Seq(Record)
  BY <1>1, HeadTailProperties
<1> HIDE DEF r
<1>3. r.seq \in Seqs /\ r.seq \in 0..MaxSeq
  BY <1>2, SeqAssumption DEF Record, Seqs
<1>4. Append(streamed[s], r.seq) \in Seq(Seqs)
  BY <1>3, AppendProperties
<1> QED BY <1>1, <1>2, <1>3, <1>4

(* Publishing puts the writer's record into the channels. *)
LEMMA PublishType ==
  ASSUME TypeOK, NEW w \in Writers, Publish(w)
  PROVE  ReaderTypeOK' /\ (published \in SUBSET Record)'
<1> USE DEF TypeOK, ReaderTypeOK
<1> DEFINE full == {s \in Streams : Len(inbox[s]) = Capacity}
<1>1. rec[w] \in Record
  BY DEF Publish, StoreTypeOK
<1>2. /\ UNCHANGED <<polling, seen_seq, polled, stream, last_seq, streamed>>
      /\ published' = published \cup {rec[w]}
      /\ inbox' = [s \in Streams |->
                     IF stream[s] # "live" THEN inbox[s]
                     ELSE Append(IF s \in full THEN Tail(inbox[s]) ELSE inbox[s], rec[w])]
      /\ lagged' = [s \in Streams |-> lagged[s] \/ (stream[s] = "live" /\ s \in full)]
  BY DEF Publish, pollers
<1>3. ASSUME NEW s \in Streams PROVE inbox'[s] \in Seq(Record)
  <2>1. inbox[s] \in Seq(Record) /\ (s \in full => Len(inbox[s]) = Capacity)
    OBVIOUS
  <2> HIDE DEF full
  <2>2. s \in full => inbox[s] # <<>>
    BY <2>1, CapacityAssumption, EmptySeq
  <2>3. s \in full => Tail(inbox[s]) \in Seq(Record)
    BY <2>1, <2>2, HeadTailProperties
  <2>4. (IF s \in full THEN Tail(inbox[s]) ELSE inbox[s]) \in Seq(Record)
    BY <2>1, <2>3
  <2>5. Append(IF s \in full THEN Tail(inbox[s]) ELSE inbox[s], rec[w]) \in Seq(Record)
    BY <1>1, <2>4, AppendProperties
  <2> QED BY <1>2, <2>1, <2>5
<1>4. inbox' \in [Streams -> Seq(Record)]
  BY <1>2, <1>3
<1>5. lagged' \in [Streams -> BOOLEAN]
  BY <1>2
<1> QED BY <1>1, <1>2, <1>4, <1>5

LEMMA StepTypes == IInv /\ TypeOK /\ [Next]_vars => TypeOK'
<1> SUFFICES ASSUME IInv, TypeOK, [Next]_vars PROVE TypeOK'
  OBVIOUS
<1>1. StoreTypeOK'
  BY StepInvariant DEF IInv
<1>2. ASSUME NEW w \in Writers, Writer(w) PROVE TypeOK'
  <2>1. CASE Publish(w)
    BY <1>1, <2>1, PublishType DEF TypeOK, Publish, bounds
  <2>2. CASE \E ok \in BOOLEAN : (\E h \in Threads : DrawSeq(w, h, ok)) \/ WriteText(w, ok) \/ EndLine(w, ok)
    <3>1. UNCHANGED <<pollers, streams, published>>
      BY <2>2 DEF DrawSeq, WriteText, EndLine
    <3>2. Fault \/ UNCHANGED bounds
      BY <2>2 DEF DrawSeq, WriteText, EndLine
    <3>3. faults' \in 0..MaxFaults /\ crashes' \in 0..MaxCrashes
      BY <3>2, SeqAssumption DEF TypeOK, Fault, bounds
    <3> QED BY <1>1, <3>1, <3>3 DEF TypeOK, ReaderTypeOK, pollers, streams
  <2> QED BY <1>2, <2>1, <2>2 DEF Writer
<1>3. ASSUME NEW p \in Pollers, Poller(p) PROVE TypeOK'
  <2>1. UNCHANGED <<published, faults, crashes>>
    BY <1>3 DEF Poller, StartPolling, Poll, bounds
  <2>2. ReaderTypeOK'
    <3>1. CASE Poll(p)
      BY <3>1, PollType
    <3>2. CASE StartPolling(p)
      BY <3>2, EmptySeq, SeqAssumption DEF StartPolling, TypeOK, ReaderTypeOK, streams
    <3> QED BY <1>3, <3>1, <3>2 DEF Poller
  <2> QED BY <1>1, <2>1, <2>2 DEF TypeOK
<1>4. ASSUME NEW s \in Streams, Stream(s) PROVE TypeOK'
  <2>1. UNCHANGED <<published, faults, crashes>>
    BY <1>4 DEF Stream, Replay, Subscribe, Receive, Close, bounds
  <2>2. ReaderTypeOK'
    <3>1. CASE Replay(s)
      BY <3>1, ReplayType
    <3>2. CASE Receive(s)
      BY <3>2, ReceiveType
    <3>3. CASE Subscribe(s) \/ Close(s)
      <4>1. /\ UNCHANGED <<polling, seen_seq, polled, last_seq, streamed>>
            /\ inbox' = [inbox EXCEPT ![s] = <<>>] /\ lagged' = [lagged EXCEPT ![s] = FALSE]
            /\ \E x \in {"off", "live"} : stream' = [stream EXCEPT ![s] = x]
        BY <3>3 DEF Subscribe, Close, pollers
      <4>2. <<>> \in Seq(Record)
        BY EmptySeq
      <4>3. inbox' \in [Streams -> Seq(Record)]
        BY <4>1, <4>2 DEF TypeOK, ReaderTypeOK
      <4> QED BY <4>1, <4>3 DEF TypeOK, ReaderTypeOK
    <3> QED BY <1>4, <3>1, <3>2, <3>3 DEF Stream
  <2> QED BY <1>1, <2>1, <2>2 DEF TypeOK
<1>5. CASE Crash
  <2>1. ReaderTypeOK'
    BY <1>5, EmptySeq DEF Crash, TypeOK, ReaderTypeOK
  <2>2. UNCHANGED <<published, faults>> /\ crashes' \in 0..MaxCrashes
    BY <1>5, SeqAssumption DEF Crash, TypeOK
  <2> QED BY <1>1, <2>1, <2>2 DEF TypeOK
<1>6. CASE Open \/ UNCHANGED vars
  BY <1>1, <1>6 DEF Open, vars, TypeOK, ReaderTypeOK, pollers, streams, bounds
<1> QED BY <1>2, <1>3, <1>4, <1>5, <1>6 DEF Next

(* Type correctness of the store, the files and every reader: in           *)
(* particular a read returns numbers of its file (events_since).           *)
THEOREM TypeCorrect == Spec => []TypeOK
<1>1. Init => IInv /\ TypeOK
  BY InitInvariant, InitTypes
<1>2. (IInv /\ TypeOK) /\ [Next]_vars => (IInv /\ TypeOK)'
  BY StepInvariant, StepTypes
<1> QED BY <1>1, <1>2, PTL DEF Spec

-----------------------------------------------------------------------------
(* The callers of one thread take turns (OneWriter).                       *)

Increasing(q) == \A i, j \in DOMAIN q : i < j => q[i] < q[j]

(* Who holds a number, and that the writers of one thread take turns.      *)
Held  == \A w \in Writers : pc[w] = "idle" => rec[w] = NoRecord
Alone ==
  \A v, w \in Writers :
    v # w /\ pc[v] # "idle" /\ pc[w] # "idle" => rec[v].thread # rec[w].thread

(* A number about to be written is above those of its file.                *)
Above == \A w \in Writers : pc[w] = "drawn" => \A n \in Range(log[rec[w].thread]) : n < rec[w].seq

(* A client was sent increasing numbers, none above the last.              *)
Sent ==
  \A s \in Streams :
    /\ Increasing(streamed[s])
    /\ \A i \in DOMAIN streamed[s] : streamed[s][i] <= last_seq[s]

Turns == Held /\ Alone /\ Above /\ LogIsMonotonic
TurnsInv == IInv /\ TypeOK /\ Turns /\ Sent

(* A sequence in order stays so when a larger number is appended.          *)
LEMMA AppendIncreases ==
  ASSUME NEW q \in Seq(Nat), Increasing(q), NEW n \in Nat, \A x \in Range(q) : x < n
  PROVE  /\ Append(q, n) \in Seq(Nat) /\ Increasing(Append(q, n))
         /\ Len(Append(q, n)) = Len(q) + 1 /\ Append(q, n)[Len(q) + 1] = n
         /\ \A i \in 1..Len(q) : Append(q, n)[i] = q[i]
<1>1. /\ Append(q, n) \in Seq(Nat) /\ Len(Append(q, n)) = Len(q) + 1
      /\ \A i \in 1..Len(q) : Append(q, n)[i] = q[i]
      /\ Append(q, n)[Len(q) + 1] = n
  BY AppendProperties
<1>2. /\ DOMAIN q = 1..Len(q) /\ Len(q) \in Nat /\ q \in [1..Len(q) -> Nat]
      /\ DOMAIN Append(q, n) = 1..(Len(q) + 1)
  BY <1>1, LenProperties
<1>3. \A i \in 1..Len(q) : q[i] < n
  BY <1>2 DEF Range
<1>4. \A i, j \in 1..(Len(q) + 1) : i < j => Append(q, n)[i] < Append(q, n)[j]
  <2> SUFFICES ASSUME NEW i \in 1..(Len(q) + 1), NEW j \in 1..(Len(q) + 1), i < j
               PROVE  Append(q, n)[i] < Append(q, n)[j]
    OBVIOUS
  <2>1. i \in 1..Len(q) /\ (j = Len(q) + 1 \/ j \in 1..Len(q))
    BY <1>2
  <2> QED BY <1>1, <1>2, <1>3, <2>1 DEF Increasing
<1> QED BY <1>1, <1>2, <1>4 DEF Increasing

(* What is kept of a suffix is the suffix.                                 *)
Rest(q, m) == Kept(q, (m + 1)..Len(q))

LEMMA RestIsSuffix ==
  ASSUME NEW T, NEW q \in Seq(T), NEW m \in 0..Len(q)
  PROVE  /\ Rest(q, m) \in Seq(T) /\ Len(Rest(q, m)) = Len(q) - m
         /\ \A k \in 1..(Len(q) - m) : Rest(q, m)[k] = q[m + k]
<1> DEFINE S == (m + 1)..Len(q)
<1>1. Len(q) \in Nat /\ DOMAIN q = 1..Len(q) /\ m \in Nat /\ m <= Len(q)
  BY LenProperties
<1>2. Cardinality(S) = Len(q) - m /\ S \in SUBSET DOMAIN q
  <2>1. m + 1 \in Int /\ Len(q) \in Int
    BY <1>1
  <2>2. Cardinality(S) = IF m + 1 > Len(q) THEN 0 ELSE Len(q) - (m + 1) + 1
    BY <2>1, FS_Interval
  <2>3. S \in SUBSET DOMAIN q
    BY <1>1
  <2> QED BY <1>1, <2>2, <2>3
<1>3. \A i \in S : Place(S, i) = i - m
  <2> SUFFICES ASSUME NEW i \in S PROVE Place(S, i) = i - m
    OBVIOUS
  <2>1. {j \in S : j <= i} = (m + 1)..i
    BY <1>1
  <2>2. Cardinality((m + 1)..i) = i - m
    BY <1>1, FS_Interval
  <2> QED BY <2>1, <2>2 DEF Place
<1>4. ASSUME NEW k \in 1..(Len(q) - m) PROVE (CHOOSE i \in S : Place(S, i) = k) = m + k
  <2>1. m + k \in S /\ \A i \in S : Place(S, i) = k <=> i = m + k
    BY <1>1, <1>3
  <2> QED BY <2>1
<1>5. Kept(q, S) \in Seq(T)
  BY <1>2, KeptType
<1>6. Kept(q, S) = [k \in 1..(Len(q) - m) |-> q[CHOOSE i \in S : Place(S, i) = k]]
  BY <1>2 DEF Kept, Place
<1>7. Len(q) - m \in Nat
  BY <1>1
<1>8. Len(Kept(q, S)) = Len(q) - m
  BY <1>5, <1>6, <1>7, LenProperties
<1> QED BY <1>4, <1>5, <1>6, <1>8 DEF Rest

(* What is read of a file in order is the rest of it.                      *)
LEMMA SinceIsTheRest ==
  ASSUME StoreTypeOK, LogIsMonotonic, NEW h \in Threads, NEW n \in 0..MaxSeq
  PROVE  \E m \in 0..Len(log[h]) :
           /\ \A i \in 1..m : log[h][i] <= n
           /\ \A i \in (m + 1)..Len(log[h]) : log[h][i] > n
           /\ Since(h, n) \in Seq(Seqs) /\ Len(Since(h, n)) = Len(log[h]) - m
           /\ \A k \in 1..(Len(log[h]) - m) : Since(h, n)[k] = log[h][m + k]
<1> DEFINE q == log[h]
           S == {i \in DOMAIN q : q[i] > n}
<1>1. /\ q \in Seq(Seqs) /\ Len(q) \in Nat /\ q \in [1..Len(q) -> Seqs] /\ DOMAIN q = 1..Len(q)
  BY LenProperties DEF StoreTypeOK
<1>2. \A i \in 1..Len(q) : q[i] \in Nat
  BY <1>1, SeqAssumption DEF Seqs
<1>3. \A i, j \in 1..Len(q) : i < j => q[i] < q[j]
  BY <1>1 DEF LogIsMonotonic
<1>4. n \in Nat /\ Since(h, n) = Kept(q, S)
  BY SeqAssumption DEF Since
<1> HIDE DEF q
<1>5. PICK m \in 0..Len(q) : S = (m + 1)..Len(q)
  <2>1. CASE S = {}
    <3>1. (Len(q) + 1)..Len(q) = {} /\ Len(q) \in 0..Len(q)
      BY <1>1
    <3> QED BY <2>1, <3>1
  <2>2. CASE S # {}
    <3>1. S \in SUBSET Nat
      BY <1>1
    <3>2. PICK l \in S : \A j \in S : l <= j
      <4> HIDE DEF S
      <4> QED BY <2>2, <3>1, LeastNatural
    <3>3. l \in 1..Len(q) /\ q[l] > n
      BY <1>1, <3>2
    <3>4. \A i \in 1..Len(q) : l <= i => q[i] > n
      BY <1>1, <1>2, <1>3, <1>4, <3>3
    <3>5. S = l..Len(q)
      BY <1>1, <3>2, <3>3, <3>4
    <3>6. l - 1 \in 0..Len(q) /\ (l - 1) + 1 = l
      BY <1>1, <3>3
    <3> QED BY <3>5, <3>6
  <2> QED BY <2>1, <2>2
<1>6. \A i \in 1..m : q[i] <= n
  <2> SUFFICES ASSUME NEW i \in 1..m PROVE q[i] <= n
    OBVIOUS
  <2>1. i \in 1..Len(q) /\ i \notin S
    BY <1>1, <1>5
  <2> QED BY <1>1, <1>2, <1>4, <2>1
<1>7. \A i \in (m + 1)..Len(q) : q[i] > n
  BY <1>5
<1>8. /\ Rest(q, m) \in Seq(Seqs) /\ Len(Rest(q, m)) = Len(q) - m
      /\ \A k \in 1..(Len(q) - m) : Rest(q, m)[k] = q[m + k]
  BY <1>1, RestIsSuffix
<1>9. Kept(q, S) = Rest(q, m)
  BY <1>5 DEF Rest
<1> HIDE DEF S
<1> QED BY <1>4, <1>6, <1>7, <1>8, <1>9 DEF q

LEMMA InitTurns == Init => Turns /\ Sent
<1> SUFFICES ASSUME Init PROVE Turns /\ Sent
  OBVIOUS
<1>1. Held /\ Alone /\ Above
  BY DEF Init, Held, Alone, Above
<1>2. LogIsMonotonic /\ Sent
  BY DEF Init, LogIsMonotonic, Sent, Increasing
<1> QED BY <1>1, <1>2 DEF Turns

(* What the writers' steps do not touch, they keep. *)
LEMMA TurnsUnchanged == Turns /\ UNCHANGED <<pc, rec, log>> => Turns'
BY DEF Turns, Held, Alone, Above, LogIsMonotonic

(* The numbers of a file are below the counter. *)
LEMMA LogBelowCounter ==
  ASSUME IInv, up, NEW h \in Threads, NEW n \in Range(log[h])
  PROVE  n \in Nat /\ next_seq \in Nat /\ n < next_seq
<1>1. next_seq \in Nat /\ diskSeq \in Nat
  BY SeqAssumption DEF IInv, StoreTypeOK
<1>2. n \in Nat
  BY LenProperties, SeqAssumption DEF IInv, StoreTypeOK, Seqs, Range
<1>3. diskSeq <= next_seq /\ n < diskSeq
  BY DEF IInv, SavedCounterIsAhead
<1> QED BY <1>1, <1>2, <1>3

LEMMA DrawTurns ==
  ASSUME OneWriter, IInv, Turns,
         NEW w \in Writers, NEW h \in Threads, NEW ok \in BOOLEAN, DrawSeq(w, h, ok)
  PROVE  Turns'
<1>1. UNCHANGED log /\ up /\ pc[w] = "idle"
  BY DEF DrawSeq, files
<1>2. CASE ~ok
  BY <1>1, <1>2, TurnsUnchanged DEF DrawSeq, writing
<1>3. CASE ok
  <2> DEFINE r == [thread |-> h, seq |-> next_seq]
  <2>1. r.thread = h /\ r.seq = next_seq
    OBVIOUS
  <2>2. pc' = [pc EXCEPT ![w] = "drawn"] /\ rec' = [rec EXCEPT ![w] = r]
    BY <1>3 DEF DrawSeq
  <2> HIDE DEF r
  <2>3. /\ pc'[w] = "drawn" /\ rec'[w] = r
        /\ \A v \in Writers \ {w} : pc'[v] = pc[v] /\ rec'[v] = rec[v]
    BY <2>2 DEF IInv, StoreTypeOK
  <2>4. \A v \in Writers \ {w} : pc[v] # "idle" => rec[v].thread # h
    <3> SUFFICES ASSUME NEW v \in Writers \ {w}, pc[v] # "idle" PROVE rec[v].thread # h
      OBVIOUS
    <3>1. rec[v] \in Record
      BY DEF IInv, StoreTypeOK
    <3>2. rec[v].seq # 0
      BY <3>1, SeqAssumption DEF Record, Seqs
    <3> QED BY <3>2 DEF DrawSeq, MayWrite
  <2>5. Held' /\ Alone'
    BY <2>1, <2>3, <2>4 DEF Turns, Held, Alone
  <2>6. \A n \in Range(log[h]) : n < next_seq
    BY <1>1, LogBelowCounter
  <2>7. Above'
    <3> SUFFICES ASSUME NEW v \in Writers, pc'[v] = "drawn", NEW n \in Range(log'[rec'[v].thread])
                 PROVE  n < rec'[v].seq
      BY DEF Above
    <3>1. CASE v = w
      BY <1>1, <2>1, <2>3, <2>6, <3>1
    <3>2. CASE v # w
      BY <1>1, <2>3, <3>2 DEF Turns, Above
    <3> QED BY <3>1, <3>2
  <2>8. LogIsMonotonic'
    BY <1>1 DEF Turns, LogIsMonotonic
  <2> QED BY <2>5, <2>7, <2>8 DEF Turns
<1> QED BY <1>2, <1>3

LEMMA WriteTextTurns ==
  ASSUME IInv, Turns, NEW w \in Writers, NEW ok \in BOOLEAN, WriteText(w, ok)
  PROVE  Turns'
<1>1. pc[w] = "drawn" /\ rec[w] \in Record
  BY DEF WriteText, IInv, StoreTypeOK
<1>2. CASE ~ok
  <2>1. UNCHANGED log /\ pc' = [pc EXCEPT ![w] = "idle"] /\ rec' = [rec EXCEPT ![w] = NoRecord]
    BY <1>2 DEF WriteText
  <2>2. /\ pc'[w] = "idle" /\ rec'[w] = NoRecord
        /\ \A v \in Writers \ {w} : pc'[v] = pc[v] /\ rec'[v] = rec[v]
    BY <2>1 DEF IInv, StoreTypeOK
  <2> QED BY <2>1, <2>2 DEF Turns, Held, Alone, Above, LogIsMonotonic
<1>3. CASE ok
  <2> DEFINE h == rec[w].thread
             n == rec[w].seq
  <2>1. log' = [log EXCEPT ![h] = Append(log[h], n)] /\ pc' = [pc EXCEPT ![w] = "text"] /\ rec' = rec
    BY <1>3 DEF WriteText
  <2>2. h \in Threads /\ n \in Nat /\ n \in Seqs /\ rec[w].thread = h /\ rec[w].seq = n
    BY <1>1, SeqAssumption DEF Record, Seqs
  <2> HIDE DEF h, n
  <2>3. /\ log'[h] = Append(log[h], n)
        /\ \A g \in Threads \ {h} : log'[g] = log[g]
    BY <2>1, <2>2 DEF IInv, StoreTypeOK
  <2>4. pc'[w] = "text" /\ \A v \in Writers \ {w} : pc'[v] = pc[v]
    BY <2>1 DEF IInv, StoreTypeOK
  <2>5. Held' /\ Alone'
    BY <1>1, <2>1, <2>4 DEF Turns, Held, Alone
  <2>6. ASSUME NEW v \in Writers, pc'[v] = "drawn"
        PROVE  v \in Writers \ {w} /\ pc[v] = "drawn" /\ rec[v].thread \in Threads \ {h}
    <3>1. v # w /\ pc[v] = "drawn"
      BY <2>4, <2>6
    <3>2. rec[v].thread # h
      BY <1>1, <2>2, <3>1 DEF Turns, Alone
    <3>3. rec[v].thread \in Threads
      BY <3>1 DEF IInv, StoreTypeOK, Record
    <3> QED BY <3>1, <3>2, <3>3
  <2>7. Above'
    BY <2>1, <2>3, <2>6 DEF Turns, Above
  <2>8. log[h] \in Seq(Nat) /\ Increasing(log[h]) /\ \A x \in Range(log[h]) : x < n
    <3>1. log[h] \in Seq(Seqs) /\ Seqs \subseteq Nat
      BY <2>2, SeqAssumption DEF IInv, StoreTypeOK, Seqs
    <3>2. log[h] \in Seq(Nat)
      BY <3>1, SeqMonotonic
    <3>3. Increasing(log[h])
      BY <2>2 DEF Turns, LogIsMonotonic, Increasing
    <3>4. \A x \in Range(log[h]) : x < n
      BY <1>1, <2>2 DEF Turns, Above
    <3> QED BY <3>2, <3>3, <3>4
  <2>9. Increasing(log'[h])
    BY <2>2, <2>3, <2>8, AppendIncreases
  <2>10. LogIsMonotonic'
    BY <2>3, <2>9 DEF Turns, LogIsMonotonic, Increasing
  <2> QED BY <2>5, <2>7, <2>10 DEF Turns
<1> QED BY <1>2, <1>3

LEMMA EndLineTurns ==
  ASSUME IInv, Turns, NEW w \in Writers,
         (\E ok \in BOOLEAN : EndLine(w, ok)) \/ Publish(w)
  PROVE  Turns'
<1>1. UNCHANGED log /\ pc[w] # "idle"
  BY DEF EndLine, Publish, files
<1>2. /\ (pc'[w] = "idle" /\ rec'[w] = NoRecord) \/ (pc'[w] = "logged" /\ rec'[w] = rec[w])
      /\ \A v \in Writers \ {w} : pc'[v] = pc[v] /\ rec'[v] = rec[v]
  BY DEF EndLine, Publish, IInv, StoreTypeOK
<1>3. Held' /\ Alone'
  BY <1>1, <1>2 DEF Turns, Held, Alone
<1>4. Above' /\ LogIsMonotonic'
  BY <1>1, <1>2 DEF Turns, Above, LogIsMonotonic
<1> QED BY <1>3, <1>4 DEF Turns

LEMMA StepTurns ==
  ASSUME OneWriter, IInv, Turns, [Next]_vars
  PROVE  Turns'
<1>1. CASE \E w \in Writers : Writer(w)
  BY <1>1, DrawTurns, WriteTextTurns, EndLineTurns DEF Writer
<1>2. CASE (\E p \in Pollers : Poller(p)) \/ (\E s \in Streams : Stream(s))
  BY <1>2, ReadersKeepStore, TurnsUnchanged DEF store, files, writing
<1>3. CASE Open \/ UNCHANGED vars
  BY <1>3, TurnsUnchanged DEF Open, vars, files, writing
<1>4. CASE Crash
  <2>1. UNCHANGED log /\ \A w \in Writers : pc'[w] = "idle" /\ rec'[w] = NoRecord
    BY <1>4 DEF Crash, files
  <2> QED BY <2>1 DEF Turns, Held, Alone, Above, LogIsMonotonic
<1> QED BY <1>1, <1>2, <1>3, <1>4 DEF Next

(* Every file is in the order of its numbers when the callers of a thread  *)
(* take turns, across failed writes and restarts: what                     *)
(* docs/RUNTIME_API.md:464 says of the log needs that discipline, which    *)
(* append_event does not impose.                                           *)
THEOREM OrderedCorrect == ASSUME OneWriter PROVE Spec => []LogIsMonotonic
<1>1. Init => IInv /\ Turns
  BY InitInvariant, InitTurns
<1>2. (IInv /\ Turns) /\ [Next]_vars => (IInv /\ Turns)'
  BY StepInvariant, StepTurns
<1>3. IInv /\ Turns => LogIsMonotonic
  BY DEF Turns
<1> QED BY <1>1, <1>2, <1>3, PTL DEF Spec

-----------------------------------------------------------------------------
(* What a client of the stream was sent. *)

LEMMA ConcatIncreases ==
  ASSUME NEW a \in Seq(Nat), NEW b \in Seq(Nat), NEW l \in Nat,
         Increasing(a), \A i \in 1..Len(a) : a[i] <= l,
         Increasing(b), \A i \in 1..Len(b) : l < b[i]
  PROVE  /\ Increasing(a \o b) /\ Len(a \o b) = Len(a) + Len(b) /\ a \o b \in Seq(Nat)
         /\ \A i \in 1..(Len(a) + Len(b)) :
              (a \o b)[i] <= IF b = <<>> THEN l ELSE b[Len(b)]
<1>1. /\ Len(a) \in Nat /\ DOMAIN a = 1..Len(a) /\ a \in [1..Len(a) -> Nat]
      /\ Len(b) \in Nat /\ DOMAIN b = 1..Len(b) /\ b \in [1..Len(b) -> Nat]
  BY LenProperties
<1>2. b = <<>> <=> Len(b) = 0
  BY EmptySeq
<1> DEFINE c == a \o b
<1>3. /\ c \in Seq(Nat) /\ Len(c) = Len(a) + Len(b)
      /\ \A i \in 1..(Len(a) + Len(b)) : c[i] = IF i <= Len(a) THEN a[i] ELSE b[i - Len(a)]
  BY ConcatProperties
<1>4. DOMAIN c = 1..(Len(a) + Len(b))
  BY <1>3, LenProperties
<1> HIDE DEF c
<1>5. \A i \in 1..(Len(a) + Len(b)) :
        \/ i \in 1..Len(a) /\ c[i] = a[i]
        \/ i - Len(a) \in 1..Len(b) /\ i > Len(a) /\ c[i] = b[i - Len(a)]
  BY <1>1, <1>3
<1>6. Increasing(c)
  <2> SUFFICES ASSUME NEW i \in 1..(Len(a) + Len(b)), NEW j \in 1..(Len(a) + Len(b)), i < j
               PROVE  c[i] < c[j]
    BY <1>4 DEF Increasing
  <2>1. CASE i \in 1..Len(a) /\ c[i] = a[i] /\ j \in 1..Len(a) /\ c[j] = a[j]
    BY <1>1, <2>1 DEF Increasing
  <2>2. CASE i \in 1..Len(a) /\ c[i] = a[i] /\ j - Len(a) \in 1..Len(b) /\ c[j] = b[j - Len(a)]
    <3>1. a[i] <= l /\ l < b[j - Len(a)]
      BY <2>2
    <3>2. a[i] \in Nat /\ b[j - Len(a)] \in Nat
      BY <1>1, <2>2
    <3> QED BY <2>2, <3>1, <3>2
  <2>3. CASE /\ i - Len(a) \in 1..Len(b) /\ c[i] = b[i - Len(a)]
             /\ j - Len(a) \in 1..Len(b) /\ c[j] = b[j - Len(a)]
    <3>1. i - Len(a) < j - Len(a)
      BY <1>1
    <3> QED BY <1>1, <2>3, <3>1 DEF Increasing
  <2>4. i > Len(a) => ~(j \in 1..Len(a))
    BY <1>1
  <2> QED BY <1>5, <2>1, <2>2, <2>3, <2>4
<1>7. ASSUME NEW i \in 1..(Len(a) + Len(b))
      PROVE  c[i] <= IF b = <<>> THEN l ELSE b[Len(b)]
  <2>1. CASE i \in 1..Len(a) /\ c[i] = a[i]
    <3>1. c[i] <= l
      BY <2>1
    <3>2. b # <<>> => Len(b) \in 1..Len(b) /\ l < b[Len(b)] /\ b[Len(b)] \in Nat
      BY <1>1, <1>2
    <3>3. c[i] \in Nat
      BY <1>1, <2>1
    <3> QED BY <3>1, <3>2, <3>3
  <2>2. CASE i - Len(a) \in 1..Len(b) /\ c[i] = b[i - Len(a)]
    <3>1. b # <<>> /\ Len(b) \in 1..Len(b) /\ b[Len(b)] \in Nat /\ b[i - Len(a)] \in Nat
      BY <1>1, <1>2, <2>2
    <3>2. i - Len(a) = Len(b) \/ b[i - Len(a)] < b[Len(b)]
      <4> DEFINE k == i - Len(a)
      <4>0. k \in 1..Len(b) /\ Len(b) \in Nat
        BY <1>1, <2>2
      <4> HIDE DEF k
      <4>1. k \in 1..Len(b) /\ (k = Len(b) \/ k < Len(b))
        BY <4>0
      <4>2. k = Len(b) \/ b[k] < b[Len(b)]
        BY <1>1, <3>1, <4>1 DEF Increasing
      <4> QED BY <4>2 DEF k
    <3> QED BY <2>2, <3>1, <3>2
  <2> QED BY <1>5, <2>1, <2>2
<1> QED BY <1>3, <1>6, <1>7 DEF c

(* A read of a file in order is in order, and newer than what was asked.   *)
LEMMA SinceInOrder ==
  ASSUME StoreTypeOK, LogIsMonotonic, NEW h \in Threads, NEW n \in 0..MaxSeq
  PROVE  /\ Since(h, n) \in Seq(Nat) /\ Since(h, n) \in Seq(Seqs)
         /\ Increasing(Since(h, n)) /\ \A i \in 1..Len(Since(h, n)) : n < Since(h, n)[i]
<1> DEFINE q == log[h]
           b == Since(h, n)
<1>1. PICK m \in 0..Len(q) :
        /\ \A i \in (m + 1)..Len(q) : q[i] > n
        /\ b \in Seq(Seqs) /\ Len(b) = Len(q) - m
        /\ \A k \in 1..(Len(q) - m) : b[k] = q[m + k]
  BY SinceIsTheRest
<1>2. /\ Len(q) \in Nat /\ DOMAIN q = 1..Len(q) /\ q \in [1..Len(q) -> Seqs]
  BY LenProperties DEF StoreTypeOK
<1>3. Increasing(q)
  BY DEF LogIsMonotonic, Increasing
<1>4. DOMAIN b = 1..Len(b)
  BY <1>1, LenProperties
<1> HIDE DEF q, b
<1>5. \A k \in 1..(Len(q) - m) : m + k \in 1..Len(q) /\ m + k \in (m + 1)..Len(q)
  BY <1>2
<1>6. \A k \in 1..Len(b) : b[k] > n
  BY <1>1, <1>5
<1>7. Increasing(b)
  <2> SUFFICES ASSUME NEW i \in 1..(Len(q) - m), NEW j \in 1..(Len(q) - m), i < j
               PROVE  b[i] < b[j]
    BY <1>1, <1>4 DEF Increasing
  <2>1. m + i < m + j
    BY <1>2
  <2> QED BY <1>1, <1>2, <1>3, <1>5, <2>1 DEF Increasing
<1>8. b \in Seq(Nat)
  BY <1>1, SeqMonotonic, SeqAssumption DEF Seqs
<1>9. \A k \in 1..Len(b) : n < b[k]
  BY <1>6, <1>1, LenProperties, SeqAssumption DEF Seqs
<1> QED BY <1>1, <1>7, <1>8, <1>9 DEF b

LEMMA ReplaySent ==
  ASSUME TypeOK, LogIsMonotonic, Sent, NEW s \in Streams, Replay(s)
  PROVE  Sent'
<1> DEFINE b == Since(Watched, last_seq[s])
           a == streamed[s]
           l == last_seq[s]
<1>1. /\ streamed' = [streamed EXCEPT ![s] = a \o b]
      /\ last_seq' = [last_seq EXCEPT ![s] = IF b = <<>> THEN l ELSE Last(b)]
  BY DEF Replay
<1>2. /\ l \in 0..MaxSeq /\ l \in Nat /\ a \in Seq(Nat)
  BY SeqMonotonic, SeqAssumption DEF TypeOK, ReaderTypeOK, Seqs
<1>3. /\ b \in Seq(Nat) /\ Increasing(b) /\ \A i \in 1..Len(b) : l < b[i]
  BY <1>2, SinceInOrder, WatchedAssumption DEF TypeOK
<1>4. Increasing(a) /\ \A i \in 1..Len(a) : a[i] <= l
  BY <1>2, LenProperties DEF Sent
<1>5. b # <<>> => Last(b) = b[Len(b)]
  BY DEF Last
<1>6. /\ streamed'[s] = a \o b /\ last_seq'[s] = IF b = <<>> THEN l ELSE b[Len(b)]
      /\ \A t \in Streams \ {s} : streamed'[t] = streamed[t] /\ last_seq'[t] = last_seq[t]
  BY <1>1, <1>5 DEF TypeOK, ReaderTypeOK
<1> HIDE DEF a, b, l
<1>7. /\ Increasing(a \o b) /\ a \o b \in Seq(Nat) /\ Len(a \o b) = Len(a) + Len(b)
      /\ \A i \in 1..(Len(a) + Len(b)) : (a \o b)[i] <= IF b = <<>> THEN l ELSE b[Len(b)]
  BY <1>2, <1>3, <1>4, ConcatIncreases
<1>8. DOMAIN (a \o b) = 1..(Len(a) + Len(b))
  BY <1>7, LenProperties
<1>9. /\ Increasing(streamed'[s])
      /\ \A i \in DOMAIN streamed'[s] : streamed'[s][i] <= last_seq'[s]
  BY <1>6, <1>7, <1>8
<1> QED BY <1>6, <1>9 DEF Sent

LEMMA ReceiveSent ==
  ASSUME TypeOK, Sent, NEW s \in Streams, Receive(s)
  PROVE  Sent'
<1> DEFINE r == Head(inbox[s])
<1>1. CASE ~Wanted(s, r)
  BY <1>1 DEF Receive, Sent
<1>2. CASE Wanted(s, r)
  <2> DEFINE a == streamed[s]
             n == r.seq
  <2>1. streamed' = [streamed EXCEPT ![s] = Append(a, n)] /\ last_seq' = [last_seq EXCEPT ![s] = n]
    BY <1>2 DEF Receive
  <2>2. inbox[s] \in Seq(Record) /\ inbox[s] # <<>>
    BY DEF Receive, TypeOK, ReaderTypeOK
  <2>3. r \in Record
    BY <2>2, HeadTailProperties
  <2>4. n \in Nat /\ last_seq[s] \in Nat /\ last_seq[s] < n
    BY <1>2, <2>3, SeqAssumption DEF Wanted, Record, Seqs, TypeOK, ReaderTypeOK
  <2>5. a \in Seq(Nat)
    BY SeqMonotonic, SeqAssumption DEF TypeOK, ReaderTypeOK, Seqs
  <2>6. /\ streamed'[s] = Append(a, n) /\ last_seq'[s] = n
        /\ \A t \in Streams \ {s} : streamed'[t] = streamed[t] /\ last_seq'[t] = last_seq[t]
    BY <2>1 DEF TypeOK, ReaderTypeOK
  <2>7. Increasing(a) /\ \A i \in 1..Len(a) : a[i] <= last_seq[s] /\ a[i] \in Nat
    BY <2>5, LenProperties DEF Sent
  <2> HIDE DEF a, n, r
  <2>8. \A i \in 1..Len(a) : a[i] < n
    BY <2>4, <2>7
  <2>9. DOMAIN a = 1..Len(a) /\ Len(a) \in Nat
    BY <2>5, LenProperties
  <2>10. \A x \in Range(a) : x < n
    BY <2>8, <2>9 DEF Range
  <2>11. /\ Append(a, n) \in Seq(Nat) /\ Increasing(Append(a, n))
         /\ Len(Append(a, n)) = Len(a) + 1 /\ Append(a, n)[Len(a) + 1] = n
         /\ \A i \in 1..Len(a) : Append(a, n)[i] = a[i]
    BY <2>4, <2>5, <2>7, <2>10, AppendIncreases
  <2>12. DOMAIN Append(a, n) = 1..(Len(a) + 1)
    BY <2>11, LenProperties
  <2>13. \A i \in DOMAIN Append(a, n) : Append(a, n)[i] <= n
    <3> SUFFICES ASSUME NEW i \in 1..(Len(a) + 1) PROVE Append(a, n)[i] <= n
      BY <2>12
    <3>1. i \in 1..Len(a) \/ i = Len(a) + 1
      BY <2>9
    <3> QED BY <2>4, <2>7, <2>8, <2>11, <3>1
  <2> QED BY <2>6, <2>11, <2>13 DEF Sent
<1> QED BY <1>1, <1>2

(* Nobody else sends a client anything. *)
LEMMA StepSent == TypeOK /\ LogIsMonotonic /\ Sent /\ [Next]_vars => Sent'
<1> SUFFICES ASSUME TypeOK, LogIsMonotonic, Sent, [Next]_vars PROVE Sent'
  OBVIOUS
<1>1. CASE \E s \in Streams : Replay(s) \/ Receive(s)
  BY <1>1, ReplaySent, ReceiveSent
<1>2. CASE UNCHANGED <<streamed, last_seq>>
  BY <1>2 DEF Sent
<1>3. ASSUME NEW w \in Writers, Writer(w) PROVE UNCHANGED <<streamed, last_seq>>
  BY <1>3 DEF Writer, DrawSeq, WriteText, EndLine, Publish, streams
<1>4. ASSUME NEW p \in Pollers, Poller(p) PROVE UNCHANGED <<streamed, last_seq>>
  BY <1>4 DEF Poller, StartPolling, Poll, streams
<1>5. ASSUME NEW s \in Streams, Subscribe(s) \/ Close(s) PROVE UNCHANGED <<streamed, last_seq>>
  BY <1>5 DEF Subscribe, Close
<1>6. ASSUME Crash \/ Open \/ UNCHANGED vars PROVE UNCHANGED <<streamed, last_seq>>
  BY <1>6 DEF Crash, Open, vars, streams
<1> QED BY <1>1, <1>2, <1>3, <1>4, <1>5, <1>6 DEF Next, Stream

LEMMA StepTurnsInv ==
  ASSUME OneWriter
  PROVE  TurnsInv /\ [Next]_vars => TurnsInv'
<1> SUFFICES ASSUME TurnsInv, [Next]_vars PROVE TurnsInv'
  OBVIOUS
<1> USE DEF TurnsInv
<1>1. Sent'
  BY StepSent DEF Turns
<1> QED BY <1>1, StepInvariant, StepTypes, StepTurns

(* When the callers of a thread take turns, a client is sent increasing    *)
(* numbers only, across replay, live events it was replayed already, a     *)
(* receiver that lagged, reconnection, failed writes and restarts          *)
(* (stream_thread_events).                                                 *)
THEOREM StreamedCorrect == ASSUME OneWriter PROVE Spec => []StreamedInOrder
<1>1. Init => TurnsInv
  BY InitInvariant, InitTypes, InitTurns DEF TurnsInv
<1>2. TurnsInv /\ [Next]_vars => TurnsInv'
  BY StepTurnsInv
<1>3. TurnsInv => StreamedInOrder
  BY DEF TurnsInv, Sent, StreamedInOrder, Increasing
<1> QED BY <1>1, <1>2, <1>3, PTL DEF Spec

-----------------------------------------------------------------------------
(* The executors implement EventFeed, as long as nothing is disturbed.     *)

Sound == faults = 0 /\ crashes = 0

(* The line a file ends with is open only between the two writes of a      *)
(* writer, and every line parses.                                          *)
Whole ==
  /\ up /\ garbled = {}
  /\ \A h \in open : \E w \in Writers : pc[w] = "text" /\ rec[w].thread = h

(* An executor was told the first events of the log, and has seen the last *)
(* of them.                                                                *)
Following(p) ==
  /\ polling[p] = "off" => polled[p] = <<>>
  /\ Len(polled[p]) <= Len(log[Watched])
  /\ \A i \in 1..Len(polled[p]) : polled[p][i] = log[Watched][i]
  /\ seen_seq[p] = IF polled[p] = <<>> THEN 0 ELSE polled[p][Len(polled[p])]

SoundInv == Sound => Whole /\ \A p \in Pollers : Following(p)

LEMMA InitSound == Init => SoundInv
BY EmptySeq, WatchedAssumption DEF Init, SoundInv, Whole, Following

(* A step after which nothing is disturbed is no failure and no crash.     *)
LEMMA SoundSteps ==
  ASSUME TypeOK, SoundInv, [Next]_vars, Sound'
  PROVE  /\ Sound /\ Whole /\ \A p \in Pollers : Following(p)
         /\ ~Fault /\ ~Crash /\ ~Open
<1>1. faults \in Nat /\ crashes \in Nat
  BY SeqAssumption DEF TypeOK
<1>2. ~Fault /\ ~Crash
  BY <1>1 DEF Fault, Crash, Sound
<1>3. Sound
  <2>1. UNCHANGED <<faults, crashes>>
    <3>1. ASSUME NEW w \in Writers, Writer(w) PROVE UNCHANGED <<faults, crashes>>
      BY <1>2, <3>1 DEF Writer, DrawSeq, WriteText, EndLine, Publish, bounds
    <3>2. ASSUME NEW p \in Pollers, Poller(p) PROVE UNCHANGED <<faults, crashes>>
      BY <3>2 DEF Poller, StartPolling, Poll, bounds
    <3>3. ASSUME NEW s \in Streams, Stream(s) PROVE UNCHANGED <<faults, crashes>>
      BY <3>3 DEF Stream, Replay, Subscribe, Receive, Close, bounds
    <3>4. ASSUME Open \/ UNCHANGED vars PROVE UNCHANGED <<faults, crashes>>
      BY <3>4 DEF Open, vars, bounds
    <3> QED BY <1>2, <3>1, <3>2, <3>3, <3>4 DEF Next
  <2> QED BY <2>1 DEF Sound
<1>4. Whole /\ \A p \in Pollers : Following(p)
  BY <1>3 DEF SoundInv
<1> QED BY <1>2, <1>3, <1>4 DEF Open, Whole

(* No record is written onto a line another writer left open.              *)
LEMMA StepWhole ==
  ASSUME TurnsInv, SoundInv, [Next]_vars, Sound'
  PROVE  Whole'
<1>1. Whole /\ ~Fault /\ ~Crash /\ ~Open
  BY SoundSteps DEF TurnsInv
<1>2. ASSUME NEW w \in Writers, Writer(w) PROVE Whole'
  <2>1. CASE \E h \in Threads, ok \in BOOLEAN : DrawSeq(w, h, ok)
    <3>1. UNCHANGED <<up, open, garbled>> /\ pc[w] = "idle"
      BY <2>1 DEF DrawSeq, files
    <3>2. \A v \in Writers \ {w} : pc'[v] = pc[v] /\ rec'[v] = rec[v]
      BY <2>1 DEF DrawSeq, writing, TurnsInv, TypeOK, StoreTypeOK
    <3> QED BY <1>1, <3>1, <3>2 DEF Whole
  <2>2. CASE \E ok \in BOOLEAN : WriteText(w, ok)
    <3> DEFINE h == rec[w].thread
    <3>1. pc[w] = "drawn" /\ UNCHANGED <<up, rec>> /\ pc' = [pc EXCEPT ![w] = "text"]
          /\ open' = open \cup {h} /\ garbled' = garbled \cup ({h} \cap open)
      BY <1>1, <2>2 DEF WriteText
    <3>2. h \notin open
      <4> SUFFICES ASSUME h \in open PROVE FALSE
        OBVIOUS
      <4>1. PICK v \in Writers : pc[v] = "text" /\ rec[v].thread = h
        BY <1>1 DEF Whole
      <4> QED BY <3>1, <4>1 DEF TurnsInv, Turns, Alone
    <3>3. pc'[w] = "text" /\ \A v \in Writers \ {w} : pc'[v] = pc[v]
      BY <3>1 DEF TurnsInv, TypeOK, StoreTypeOK
    <3> QED BY <1>1, <3>1, <3>2, <3>3 DEF Whole
  <2>3. CASE \E ok \in BOOLEAN : EndLine(w, ok)
    <3>1. /\ UNCHANGED <<up, garbled, rec>>
          /\ pc' = [pc EXCEPT ![w] = "logged"] /\ open' = open \ {rec[w].thread}
      BY <1>1, <2>3 DEF EndLine
    <3>2. \A v \in Writers \ {w} : pc'[v] = pc[v]
      BY <3>1 DEF TurnsInv, TypeOK, StoreTypeOK
    <3> QED BY <1>1, <3>1, <3>2 DEF Whole
  <2>4. CASE Publish(w)
    <3>1. UNCHANGED <<up, open, garbled>> /\ pc[w] = "logged"
      BY <2>4 DEF Publish, files
    <3>2. \A v \in Writers \ {w} : pc'[v] = pc[v] /\ rec'[v] = rec[v]
      BY <2>4 DEF Publish, TurnsInv, TypeOK, StoreTypeOK
    <3> QED BY <1>1, <3>1, <3>2 DEF Whole
  <2> QED BY <1>2, <2>1, <2>2, <2>3, <2>4 DEF Writer
<1>3. CASE (\E p \in Pollers : Poller(p)) \/ (\E s \in Streams : Stream(s))
  BY <1>1, <1>3, ReadersKeepStore DEF store, files, writing, Whole
<1>4. CASE UNCHANGED vars
  BY <1>1, <1>4 DEF vars, files, writing, Whole
<1> QED BY <1>1, <1>2, <1>3, <1>4 DEF Next

(* An executor that polls has been told the whole log.                     *)
LEMMA PollCatchesUp ==
  ASSUME TypeOK, LogIsMonotonic, NEW p \in Pollers, Following(p), Readable(Watched), Poll(p)
  PROVE  /\ polled' = [polled EXCEPT ![p] = log[Watched]]
         /\ seen_seq' = [seen_seq EXCEPT ![p] =
              IF log[Watched] = <<>> THEN 0 ELSE log[Watched][Len(log[Watched])]]
         /\ UNCHANGED polling
<1> DEFINE q == log[Watched]
           c == polled[p]
           n == seen_seq[p]
           b == Since(Watched, n)
<1>1. /\ q \in Seq(Seqs) /\ Len(q) \in Nat /\ DOMAIN q = 1..Len(q) /\ q \in [1..Len(q) -> Seqs]
      /\ c \in Seq(Seqs) /\ Len(c) \in Nat /\ DOMAIN c = 1..Len(c)
      /\ n \in 0..MaxSeq
  BY WatchedAssumption, LenProperties DEF TypeOK, StoreTypeOK, ReaderTypeOK
<1>2. /\ Len(c) <= Len(q) /\ \A i \in 1..Len(c) : c[i] = q[i]
      /\ n = IF c = <<>> THEN 0 ELSE c[Len(c)]
  BY DEF Following
<1>3. \A i, j \in 1..Len(q) : i < j => q[i] < q[j]
  BY <1>1, WatchedAssumption DEF LogIsMonotonic
<1>4. /\ polled' = [polled EXCEPT ![p] = c \o b]
      /\ seen_seq' = [seen_seq EXCEPT ![p] = Largest(b, n)]
      /\ UNCHANGED polling
  BY DEF Poll
<1>5. PICK m \in 0..Len(q) :
        /\ \A i \in 1..m : q[i] <= n
        /\ \A i \in (m + 1)..Len(q) : q[i] > n
        /\ b \in Seq(Seqs) /\ Len(b) = Len(q) - m
        /\ \A k \in 1..(Len(q) - m) : b[k] = q[m + k]
  BY <1>1, SinceIsTheRest, WatchedAssumption DEF TypeOK
<1>6. c = <<>> <=> Len(c) = 0
  BY <1>1, EmptySeq
<1>7. q = <<>> <=> Len(q) = 0
  BY <1>1, EmptySeq
<1>8. b \in Seq(0..MaxSeq) /\ DOMAIN b = 1..Len(b)
  BY <1>5, SeqMonotonic, LenProperties, SeqAssumption DEF Seqs
<1> HIDE DEF q, c, n, b
<1>9. \A i \in 1..Len(q) : q[i] \in Nat /\ q[i] > 0 /\ q[i] <= MaxSeq
  BY <1>1, SeqAssumption DEF Seqs
<1>10. /\ Len(q) \in Nat /\ Len(c) \in Nat /\ Len(b) \in Nat /\ m \in Nat
       /\ m <= Len(q) /\ Len(b) = Len(q) - m
  BY <1>1, <1>5
<1>11. m = Len(c)
  <2>1. CASE Len(c) = 0
    <3> SUFFICES ASSUME m # 0 PROVE FALSE
      BY <2>1
    <3>1. 1 \in 1..m /\ 1 \in 1..Len(q)
      BY <1>1
    <3>2. q[1] <= 0 /\ q[1] \in Nat /\ q[1] > 0
      BY <1>2, <1>5, <1>6, <1>9, <2>1, <3>1
    <3> QED BY <3>2
  <2>2. CASE Len(c) # 0
    <3>1. Len(c) \in 1..Len(c) /\ Len(c) \in 1..Len(q)
      BY <1>1, <1>2, <2>2
    <3>2. n = q[Len(c)] /\ n \in Nat
      BY <1>2, <1>6, <1>9, <2>2, <3>1
    <3>3. ~(Len(c) \in (m + 1)..Len(q))
      BY <1>5, <3>2
    <3>4. Len(c) <= m
      BY <1>1, <3>1, <3>3
    <3>5. ASSUME Len(c) < m PROVE FALSE
      <4>1. m \in 1..m /\ m \in 1..Len(q)
        BY <1>1, <3>1, <3>5
      <4>2. q[m] <= n /\ n < q[m] /\ q[m] \in Nat
        BY <1>3, <1>5, <1>9, <3>1, <3>2, <3>5, <4>1
      <4> QED BY <3>2, <4>2
    <3> QED BY <1>10, <3>4, <3>5
  <2> QED BY <2>1, <2>2
<1>12. c \o b = q
  <2>1. /\ c \o b \in Seq(Seqs) /\ Len(c \o b) = Len(c) + Len(b)
        /\ \A i \in 1..(Len(c) + Len(b)) : (c \o b)[i] = IF i <= Len(c) THEN c[i] ELSE b[i - Len(c)]
    BY <1>1, <1>5, ConcatProperties
  <2>2. Len(c) + Len(b) = Len(q)
    BY <1>1, <1>5, <1>11
  <2> DEFINE d == c \o b
  <2>3. d \in [1..Len(q) -> Seqs]
    BY <2>1, <2>2, LenProperties
  <2>4. ASSUME NEW i \in 1..Len(q) PROVE d[i] = q[i]
    <3>1. d[i] = IF i <= Len(c) THEN c[i] ELSE b[i - Len(c)]
      BY <2>1, <2>2
    <3> HIDE DEF d
    <3>2. CASE i <= Len(c)
      <4>1. i \in 1..Len(c)
        BY <1>1, <3>2
      <4> QED BY <1>2, <3>1, <3>2, <4>1
    <3>3. CASE ~(i <= Len(c))
      <4>1. i - Len(c) \in 1..(Len(q) - m) /\ m + (i - Len(c)) = i
        BY <1>1, <1>11, <3>3
      <4> QED BY <1>5, <3>1, <3>3, <4>1
    <3> QED BY <3>2, <3>3
  <2> HIDE DEF d
  <2>5. d = q
    BY <1>1, <2>3, <2>4
  <2> QED BY <2>5 DEF d
<1>13. Largest(b, n) = IF q = <<>> THEN 0 ELSE q[Len(q)]
  <2>1. /\ Largest(b, n) \in Range(b) \cup {n} /\ Largest(b, n) \in 0..MaxSeq
        /\ \A x \in Range(b) \cup {n} : x <= Largest(b, n)
    BY <1>1, <1>8, LargestIsOne, SeqAssumption
  <2> DEFINE l == Largest(b, n)
  <2> HIDE DEF l
  <2>2. CASE Len(b) = 0
    <3>1. Range(b) = {}
      BY <1>8, <2>2 DEF Range
    <3>2. Len(q) = Len(c)
      BY <1>10, <1>11, <2>2
    <3>3. l = n
      BY <2>1, <3>1 DEF l
    <3>4. CASE Len(c) = 0
      BY <1>2, <1>6, <1>7, <3>2, <3>3, <3>4 DEF l
    <3>5. CASE Len(c) # 0
      <4>1. Len(c) \in 1..Len(c)
        BY <1>1, <3>5
      <4> QED BY <1>2, <1>6, <1>7, <3>2, <3>3, <3>5, <4>1 DEF l
    <3> QED BY <3>4, <3>5
  <2>3. CASE Len(b) # 0
    <3>1. /\ Len(q) \in 1..Len(q) /\ Len(q) \in (m + 1)..Len(q)
          /\ Len(q) - m \in 1..(Len(q) - m) /\ m + (Len(q) - m) = Len(q)
          /\ Len(q) - m \in DOMAIN b /\ Len(q) # 0
      BY <1>10, <1>8, <2>3
    <3>2. q[Len(q)] \in Range(b)
      BY <1>5, <3>1 DEF Range
    <3>3. q[Len(q)] <= l
      BY <2>1, <3>2 DEF l
    <3>4. n < q[Len(q)] /\ q[Len(q)] \in Nat /\ n \in Nat
      BY <1>1, <1>5, <1>9, <3>1, SeqAssumption
    <3>5. l \in Range(b)
      BY <2>1, <3>3, <3>4 DEF l
    <3>6. PICK k \in 1..(Len(q) - m) : l = q[m + k]
      BY <1>5, <1>8, <3>5 DEF Range
    <3>7. m + k \in 1..Len(q) /\ (m + k = Len(q) \/ m + k < Len(q))
      BY <1>10
    <3>8. l \in Nat /\ l <= q[Len(q)]
      <4> DEFINE j == m + k
      <4>1. l = q[j] /\ j \in 1..Len(q) /\ (j = Len(q) \/ j < Len(q))
        BY <3>6, <3>7
      <4> HIDE DEF j
      <4>2. q[j] = q[Len(q)] \/ q[j] < q[Len(q)]
        BY <1>3, <3>1, <4>1
      <4>3. q[j] \in Nat /\ q[Len(q)] \in Nat
        BY <1>9, <3>1, <4>1
      <4>4. q[j] <= q[Len(q)]
        BY <4>2, <4>3
      <4> QED BY <4>1, <4>3, <4>4
    <3>9. l = q[Len(q)]
      BY <3>3, <3>4, <3>8
    <3> QED BY <1>7, <3>1, <3>9 DEF l
  <2> QED BY <2>2, <2>3
<1> QED BY <1>4, <1>12, <1>13 DEF q

(* A writer's record is appended to the log the executors follow, or they  *)
(* see nothing of the step.                                                *)
LEMMA WriterFeeds ==
  ASSUME TurnsInv, ~Fault, NEW w \in Writers, Writer(w)
  PROVE  \/ UNCHANGED log[Watched]
         \/ \E n \in Seqs : /\ \A x \in Range(log[Watched]) : x < n
                            /\ log'[Watched] = Append(log[Watched], n)
<1>1. ASSUME NEW ok \in BOOLEAN, WriteText(w, ok)
      PROVE  \/ UNCHANGED log[Watched]
             \/ \E n \in Seqs : /\ \A x \in Range(log[Watched]) : x < n
                                /\ log'[Watched] = Append(log[Watched], n)
  <2> DEFINE h == rec[w].thread
             n == rec[w].seq
  <2>1. pc[w] = "drawn" /\ log' = [log EXCEPT ![h] = Append(log[h], n)]
    BY <1>1 DEF WriteText
  <2>2. n \in Seqs /\ h \in Threads /\ \A x \in Range(log[h]) : x < n
    BY <2>1 DEF TurnsInv, Turns, Above, TypeOK, StoreTypeOK, Record
  <2> HIDE DEF h, n
  <2>3. h = Watched => log'[Watched] = Append(log[Watched], n)
    BY <2>1, <2>2 DEF TurnsInv, TypeOK, StoreTypeOK
  <2>4. h # Watched => log'[Watched] = log[Watched]
    BY <2>1, WatchedAssumption DEF TurnsInv, TypeOK, StoreTypeOK
  <2> QED BY <2>2, <2>3, <2>4
<1>2. ASSUME NEW ok \in BOOLEAN, NEW h \in Threads, DrawSeq(w, h, ok) PROVE UNCHANGED log
  BY <1>2 DEF DrawSeq, files
<1>3. ASSUME NEW ok \in BOOLEAN, EndLine(w, ok) PROVE UNCHANGED log
  BY <1>3 DEF EndLine
<1>4. ASSUME Publish(w) PROVE UNCHANGED log
  BY <1>4 DEF Publish, files
<1>5. UNCHANGED log => UNCHANGED log[Watched]
  OBVIOUS
<1> QED BY <1>1, <1>2, <1>3, <1>4, <1>5 DEF Writer

LEMMA StepFollowing ==
  ASSUME TurnsInv, SoundInv, [Next]_vars, Sound', NEW p \in Pollers
  PROVE  Following(p)'
<1>1. Following(p) /\ Whole /\ ~Fault /\ ~Crash /\ ~Open
  BY SoundSteps DEF TurnsInv
<1>2. /\ log[Watched] \in Seq(Nat) /\ polled[p] \in Seq(Seqs)
      /\ Len(log[Watched]) \in Nat /\ Len(polled[p]) \in Nat
  BY LenProperties, SeqMonotonic, WatchedAssumption, SeqAssumption
     DEF TurnsInv, TypeOK, StoreTypeOK, ReaderTypeOK, Seqs
<1>3. ASSUME UNCHANGED <<polling[p], polled[p], seen_seq[p], log[Watched]>> PROVE Following(p)'
  BY <1>1, <1>3 DEF Following
<1>4. ASSUME NEW w \in Writers, Writer(w) PROVE Following(p)'
  <2>1. UNCHANGED <<polling, polled, seen_seq>>
    BY <1>4 DEF Writer, DrawSeq, WriteText, EndLine, Publish, pollers
  <2>2. ASSUME NEW n \in Seqs, log'[Watched] = Append(log[Watched], n) PROVE Following(p)'
    <3>1. n \in Nat
      BY SeqAssumption DEF Seqs
    <3>2. /\ Len(log'[Watched]) = Len(log[Watched]) + 1
          /\ \A i \in 1..Len(log[Watched]) : log'[Watched][i] = log[Watched][i]
      BY <1>2, <2>2, <3>1, AppendProperties
    <3> QED BY <1>1, <1>2, <2>1, <3>2 DEF Following
  <2>3. UNCHANGED log[Watched] => Following(p)'
    BY <1>3, <2>1
  <2> QED BY <1>1, <1>4, <2>2, <2>3, WriterFeeds
<1>5. ASSUME NEW o \in Pollers, Poller(o) PROVE Following(p)'
  <2>1. UNCHANGED log /\ UNCHANGED log[Watched]
    BY <1>5, ReadersKeepStore DEF store, files
  <2>2. CASE o # p
    <3>1. UNCHANGED <<polling[p], polled[p], seen_seq[p]>>
      BY <1>5, <2>2 DEF Poller, StartPolling, Poll, TurnsInv, TypeOK, ReaderTypeOK
    <3> QED BY <1>3, <2>1, <3>1
  <2>3. CASE StartPolling(p)
    <3>1. /\ polling[p] = "off" /\ polling'[p] = "on"
          /\ seen_seq'[p] = 0 /\ polled'[p] = <<>>
      BY <2>3 DEF StartPolling, TurnsInv, TypeOK, ReaderTypeOK
    <3>2. Len(<<>>) = 0
      BY EmptySeq
    <3> QED BY <1>2, <2>1, <3>1, <3>2 DEF Following
  <2>4. CASE Poll(p)
    <3>1. polling[p] = "on" /\ Readable(Watched)
      BY <1>1, <2>4 DEF Poll, Whole, Readable
    <3>2. /\ polled' = [polled EXCEPT ![p] = log[Watched]]
          /\ seen_seq' = [seen_seq EXCEPT ![p] =
               IF log[Watched] = <<>> THEN 0 ELSE log[Watched][Len(log[Watched])]]
          /\ UNCHANGED polling
      BY <1>1, <2>4, <3>1, PollCatchesUp DEF TurnsInv, Turns
    <3>3. /\ polled'[p] = log[Watched] /\ polling'[p] = "on"
          /\ seen_seq'[p] = IF log[Watched] = <<>> THEN 0 ELSE log[Watched][Len(log[Watched])]
      BY <3>1, <3>2 DEF TurnsInv, TypeOK, ReaderTypeOK
    <3> QED BY <1>2, <2>1, <3>3 DEF Following
  <2> QED BY <1>5, <2>2, <2>3, <2>4 DEF Poller
<1>6. ASSUME NEW s \in Streams, Stream(s) PROVE Following(p)'
  <2>1. UNCHANGED log
    BY <1>6, ReadersKeepStore DEF store, files
  <2>2. UNCHANGED <<polling, polled, seen_seq>>
    BY <1>6 DEF Stream, Replay, Subscribe, Receive, Close, pollers
  <2> QED BY <1>3, <2>1, <2>2
<1>7. CASE UNCHANGED vars
  BY <1>3, <1>7 DEF vars, files, pollers
<1> QED BY <1>1, <1>4, <1>5, <1>6, <1>7 DEF Next

LEMMA StepSound ==
  ASSUME OneWriter
  PROVE  (TurnsInv /\ SoundInv) /\ [Next]_vars => (TurnsInv /\ SoundInv)'
<1> SUFFICES ASSUME TurnsInv, SoundInv, [Next]_vars PROVE (TurnsInv /\ SoundInv)'
  OBVIOUS
<1>1. TurnsInv'
  BY StepTurnsInv
<1>2. Sound' => Whole'
  BY StepWhole
<1>3. Sound' => \A p \in Pollers : Following(p)'
  BY StepFollowing
<1> QED BY <1>1, <1>2, <1>3 DEF SoundInv

(* Every step is one of the feed's, or one the feed does not see.          *)
LEMMA FeedSteps ==
  ASSUME OneWriter, Pollers # {}, TurnsInv, SoundInv, [Next]_vars
  PROVE  [Feed!Next]_(Feed!vars)
<1>1. CASE ~Sound'
  <2>1. faults' \in Nat /\ crashes' \in Nat
    BY StepTypes, SeqAssumption DEF TurnsInv, TypeOK
  <2>2. ~(faults' = 0 /\ crashes' = 0)
    BY <1>1 DEF Sound
  <2>3. \A a, b \in Nat : a + b = 0 => a = 0 /\ b = 0
    OBVIOUS
  <2>4. ~(faults' + crashes' = 0)
    BY <2>1, <2>2, <2>3
  <2> QED BY <2>4 DEF Feed!Next
<1>2. CASE Sound'
  <2>1. APoller \in Pollers
    BY DEF APoller
  <2>2. /\ Sound /\ Whole /\ Following(APoller) /\ ~Fault /\ ~Crash /\ ~Open
    BY <1>2, <2>1, SoundSteps DEF TurnsInv
  <2>3. (faults + crashes = 0) /\ (faults + crashes = 0)'
    BY <1>2, <2>2 DEF Sound
  <2> DEFINE told == polled[APoller]
  <2>4. ASSUME UNCHANGED <<log[Watched], told>> PROVE UNCHANGED Feed!vars
    BY <2>3, <2>4 DEF Feed!vars
  <2>5. ASSUME NEW w \in Writers, Writer(w) PROVE [Feed!Next]_(Feed!vars)
    <3>1. UNCHANGED told
      BY <2>5 DEF Writer, DrawSeq, WriteText, EndLine, Publish, pollers
    <3>2. ASSUME NEW n \in Seqs, \A x \in Range(log[Watched]) : x < n,
                 log'[Watched] = Append(log[Watched], n)
          PROVE  Feed!Next
      <4>1. \A i \in DOMAIN log[Watched] : log[Watched][i] < n
        BY <3>2 DEF Range
      <4>2. Feed!Record
        BY <3>1, <3>2, <4>1 DEF Feed!Record, Seqs
      <4> QED BY <2>3, <4>2 DEF Feed!Next
    <3> QED BY <2>2, <2>4, <2>5, <3>1, <3>2, WriterFeeds
  <2>6. ASSUME NEW p \in Pollers, Poller(p) PROVE [Feed!Next]_(Feed!vars)
    <3>1. UNCHANGED log /\ UNCHANGED log[Watched]
      BY <2>6, ReadersKeepStore DEF store, files
    <3>2. CASE Poll(p)
      <4>1. polled' = [polled EXCEPT ![p] = log[Watched]]
        <5>1. Following(p)
          BY <1>2, SoundSteps DEF TurnsInv
        <5> QED BY <2>2, <3>2, <5>1, PollCatchesUp DEF TurnsInv, Turns, Whole, Readable
      <4>2. CASE p = APoller
        <5>1. polled'[APoller] = log[Watched]
          BY <2>1, <4>1, <4>2 DEF TurnsInv, TypeOK, ReaderTypeOK
        <5>2. CASE told = log[Watched]
          BY <2>4, <3>1, <5>1, <5>2
        <5>3. CASE told # log[Watched]
          BY <2>3, <3>1, <5>1, <5>3 DEF Feed!Next, Feed!CatchUp
        <5> QED BY <5>2, <5>3
      <4>3. CASE p # APoller
        <5>1. UNCHANGED told
          BY <4>1, <4>3
        <5> QED BY <2>4, <3>1, <5>1
      <4> QED BY <4>2, <4>3
    <3>3. CASE StartPolling(p)
      <4>1. CASE p = APoller
        <5>1. polling[p] = "off" /\ polled'[p] = <<>>
          BY <3>3 DEF StartPolling, TurnsInv, TypeOK, ReaderTypeOK
        <5>2. UNCHANGED told
          BY <2>2, <4>1, <5>1 DEF Following
        <5> QED BY <2>4, <3>1, <5>2
      <4>2. CASE p # APoller
        <5>1. UNCHANGED told
          BY <3>3, <4>2 DEF StartPolling
        <5> QED BY <2>4, <3>1, <5>1
      <4> QED BY <4>1, <4>2
    <3> QED BY <2>6, <3>2, <3>3 DEF Poller
  <2>7. ASSUME NEW s \in Streams, Stream(s) PROVE [Feed!Next]_(Feed!vars)
    <3>1. UNCHANGED log
      BY <2>7, ReadersKeepStore DEF store, files
    <3>2. UNCHANGED polled
      BY <2>7 DEF Stream, Replay, Subscribe, Receive, Close, pollers
    <3> QED BY <2>4, <3>1, <3>2
  <2>8. ASSUME UNCHANGED vars PROVE [Feed!Next]_(Feed!vars)
    BY <2>4, <2>8 DEF vars, files, pollers
  <2> QED BY <2>2, <2>5, <2>6, <2>7, <2>8 DEF Next
<1> QED BY <1>1, <1>2

(* While no write fails and the process lives, and the callers of a thread *)
(* take turns, an executor is told the events of its thread once and in    *)
(* order, and when it is told anything it is told everything written so    *)
(* far: the safety part of PollersFollow (events_since and the polling     *)
(* loop of EngineTaskExecutor::execute).                                   *)
THEOREM FeedImplemented == ASSUME OneWriter, Pollers # {} PROVE Spec => Feed!Follows
<1>1. Init => TurnsInv /\ SoundInv
  BY InitInvariant, InitTypes, InitTurns, InitSound DEF TurnsInv
<1>2. (TurnsInv /\ SoundInv) /\ [Next]_vars => (TurnsInv /\ SoundInv)'
  BY StepSound
<1>3. Init => Feed!Init
  <2> SUFFICES ASSUME Init PROVE Feed!Init
    OBVIOUS
  <2>1. APoller \in Pollers
    BY DEF APoller
  <2> QED BY <2>1, WatchedAssumption DEF Init, Feed!Init
<1>4. TurnsInv /\ SoundInv /\ [Next]_vars => [Feed!Next]_(Feed!vars)
  BY FeedSteps
<1> QED BY <1>1, <1>2, <1>3, <1>4, PTL DEF Spec, Feed!Follows
=============================================================================

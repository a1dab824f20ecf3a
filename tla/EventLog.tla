------------------------------- MODULE EventLog -------------------------------
(***************************************************************************)
(* The event log of the runtime store: one counter for all threads, saved  *)
(* in state.json under a lock, and one JSONL file per thread, appended to  *)
(* after the lock was released.  Two kinds of reader: the task executor,   *)
(* which polls the file with the largest number it has seen, and a client  *)
(* of GET /v1/threads/{id}/events, which is replayed the file and then     *)
(* follows a broadcast channel.                                            *)
(*                                                                         *)
(* writeln! on an unbuffered file writes the record and its newline in two *)
(* calls, and a record written while the last line is still open makes a   *)
(* line that does not parse, as does a record cut short by an error.       *)
(***************************************************************************)
EXTENDS Naturals, Sequences, FiniteSets, Functions, SequencesExt

CONSTANTS
  Threads,
  Writers,      \* concurrent callers of emit_event: handlers, turn monitors, tools
  Pollers,      \* task executors
  Streams,      \* clients of the event stream
  Watched,      \* the thread the readers follow
  Capacity,     \* EVENT_CHANNEL_CAPACITY
  OneWriter,    \* whether the callers of one thread take turns: an environment
                \* assumption, the code has no lock there
  MaxSeq,       \* bound: the numbers drawn
  MaxFaults,    \* bound: writes that fail
  MaxCrashes    \* bound: deaths of the process

ASSUME WatchedAssumption == Watched \in Threads
ASSUME CapacityAssumption == Capacity \in Nat \ {0}
ASSUME OneWriterAssumption == OneWriter \in BOOLEAN
ASSUME SeqAssumption == MaxSeq \in Nat /\ MaxFaults \in Nat /\ MaxCrashes \in Nat

VARIABLES
  up,
  next_seq,     \* RuntimeStoreState in memory
  diskSeq,      \* next_seq in state.json
  log,          \* events/<thread>.jsonl: the records in the order of the file
  open,         \* the threads whose file ends with a record and no newline
  garbled,      \* the threads whose file has a line that does not parse
  pc, rec,      \* where each writer stands and the record it writes
  polling,      \* the executor: "off", "on", or "failed" when a read failed
  seen_seq, polled,
  stream,       \* the stream handler: "off", "replayed" or "live"
  last_seq, streamed,
  inbox, lagged,\* its broadcast receiver
  published,    \* history: numbers whose emit_event returned Ok
  faults, crashes

files   == <<log, open, garbled>>
writing == <<pc, rec>>
pollers == <<polling, seen_seq, polled>>
streams == <<stream, last_seq, streamed, inbox, lagged>>
bounds  == <<faults, crashes>>
vars    == <<up, next_seq, diskSeq, files, writing, pollers, streams, published, bounds>>

Seqs == 1..MaxSeq
Record == [thread : Threads, seq : Seqs]
NoRecord == [thread |-> Watched, seq |-> 0]

StoreTypeOK ==
  /\ up \in BOOLEAN
  /\ next_seq \in 1..(MaxSeq + 1) /\ diskSeq \in 1..(MaxSeq + 1)
  /\ log \in [Threads -> Seq(Seqs)] /\ open \subseteq Threads /\ garbled \subseteq Threads
  /\ pc \in [Writers -> {"idle", "drawn", "text", "logged"}]
  /\ rec \in [Writers -> Record \cup {NoRecord}]
  /\ \A w \in Writers : pc[w] # "idle" => rec[w] \in Record

ReaderTypeOK ==
  /\ polling \in [Pollers -> {"off", "on", "failed"}]
  /\ seen_seq \in [Pollers -> 0..MaxSeq] /\ polled \in [Pollers -> Seq(Seqs)]
  /\ stream \in [Streams -> {"off", "replayed", "live"}]
  /\ last_seq \in [Streams -> 0..MaxSeq] /\ streamed \in [Streams -> Seq(Seqs)]
  /\ inbox \in [Streams -> Seq(Record)] /\ lagged \in [Streams -> BOOLEAN]

TypeOK ==
  /\ StoreTypeOK /\ ReaderTypeOK
  /\ published \in SUBSET Record
  /\ faults \in 0..MaxFaults /\ crashes \in 0..MaxCrashes

-----------------------------------------------------------------------------
(* Reading a file: events_since.                                           *)

Readable(h) == h \notin garbled

(* The elements of q at the places in S, in their order. *)
Kept(q, S) == [k \in 1..Cardinality(S) |-> q[CHOOSE i \in S : Cardinality({j \in S : j <= i}) = k]]

(* Mutant: the last number seen is told again. *)
Since_Inclusive(h, n) == Kept(log[h], {i \in DOMAIN log[h] : log[h][i] >= n})

Since(h, n) == Kept(log[h], {i \in DOMAIN log[h] : log[h][i] > n})

Largest(s, n) == CHOOSE m \in Range(s) \cup {n} : \A x \in Range(s) \cup {n} : x <= m

(* RuntimeStoreState::default *)
FirstSeq == 1

Init ==
  /\ up = TRUE
  /\ next_seq = FirstSeq /\ diskSeq = FirstSeq
  /\ log = [h \in Threads |-> <<>>] /\ open = {} /\ garbled = {}
  /\ pc = [w \in Writers |-> "idle"] /\ rec = [w \in Writers |-> NoRecord]
  /\ polling = [p \in Pollers |-> "off"]
  /\ seen_seq = [p \in Pollers |-> 0] /\ polled = [p \in Pollers |-> <<>>]
  /\ stream = [s \in Streams |-> "off"]
  /\ last_seq = [s \in Streams |-> 0] /\ streamed = [s \in Streams |-> <<>>]
  /\ inbox = [s \in Streams |-> <<>>] /\ lagged = [s \in Streams |-> FALSE]
  /\ published = {}
  /\ faults = 0 /\ crashes = 0

Fault == faults < MaxFaults /\ faults' = faults + 1 /\ UNCHANGED crashes

-----------------------------------------------------------------------------
(* append_event and emit_event, by one writer.                             *)

(* With OneWriter nobody else is writing to the thread. *)
MayWrite(w, h) == OneWriter => \A v \in Writers \ {w} : rec[v].seq # 0 => rec[v].thread # h

(* The number is taken and the counter saved under the state lock; when    *)
(* the save fails the number is lost and the caller gets the error.        *)
(* Mutant: the saved counter lags behind by one.                           *)
DrawSeq_SaveFirst(w, h, ok) ==
  /\ up /\ pc[w] = "idle" /\ next_seq <= MaxSeq /\ MayWrite(w, h)
  /\ next_seq' = next_seq + 1
  /\ IF ok THEN /\ diskSeq' = next_seq
                /\ pc' = [pc EXCEPT ![w] = "drawn"]
                /\ rec' = [rec EXCEPT ![w] = [thread |-> h, seq |-> next_seq]]
                /\ UNCHANGED bounds
           ELSE Fault /\ UNCHANGED <<diskSeq, writing>>
  /\ UNCHANGED <<up, files, pollers, streams, published>>

DrawSeq(w, h, ok) ==
  /\ up /\ pc[w] = "idle" /\ next_seq <= MaxSeq /\ MayWrite(w, h)
  /\ next_seq' = next_seq + 1
  /\ IF ok THEN /\ diskSeq' = next_seq + 1
                /\ pc' = [pc EXCEPT ![w] = "drawn"]
                /\ rec' = [rec EXCEPT ![w] = [thread |-> h, seq |-> next_seq]]
                /\ UNCHANGED bounds
           ELSE Fault /\ UNCHANGED <<diskSeq, writing>>
  /\ UNCHANGED <<up, files, pollers, streams, published>>

(* The record, on the line the file ends with. *)
WriteText(w, ok) ==
  /\ up /\ pc[w] = "drawn"
  /\ IF ok THEN /\ log' = [log EXCEPT ![rec[w].thread] = Append(@, rec[w].seq)]
                /\ open' = open \cup {rec[w].thread}
                /\ garbled' = garbled \cup ({rec[w].thread} \cap open)
                /\ pc' = [pc EXCEPT ![w] = "text"] /\ UNCHANGED <<rec, bounds>>
           ELSE /\ Fault /\ UNCHANGED log
                /\ \/ UNCHANGED <<open, garbled>>
                   \/ open' = open \cup {rec[w].thread} /\ garbled' = garbled \cup {rec[w].thread}
                /\ pc' = [pc EXCEPT ![w] = "idle"] /\ rec' = [rec EXCEPT ![w] = NoRecord]
  /\ UNCHANGED <<up, next_seq, diskSeq, pollers, streams, published>>

(* The newline, the flush and the fsync; any of them may fail. *)
EndLine(w, ok) ==
  /\ up /\ pc[w] = "text"
  /\ \/ open' = open \ {rec[w].thread}
     \/ ~ok /\ UNCHANGED open
  /\ UNCHANGED <<log, garbled>>
  /\ IF ok THEN pc' = [pc EXCEPT ![w] = "logged"] /\ UNCHANGED <<rec, bounds>>
           ELSE /\ Fault
                /\ pc' = [pc EXCEPT ![w] = "idle"] /\ rec' = [rec EXCEPT ![w] = NoRecord]
  /\ UNCHANGED <<up, next_seq, diskSeq, pollers, streams, published>>

(* event_tx.send: every receiver gets the record; one whose buffer is full *)
(* loses its oldest and will be told that it lagged.                       *)
Publish(w) ==
  /\ up /\ pc[w] = "logged"
  /\ LET full == {s \in Streams : Len(inbox[s]) = Capacity}
     IN  /\ inbox' = [s \in Streams |->
                        IF stream[s] # "live" THEN inbox[s]
                        ELSE Append(IF s \in full THEN Tail(inbox[s]) ELSE inbox[s], rec[w])]
         /\ lagged' = [s \in Streams |-> lagged[s] \/ (stream[s] = "live" /\ s \in full)]
  /\ published' = published \cup {rec[w]}
  /\ pc' = [pc EXCEPT ![w] = "idle"] /\ rec' = [rec EXCEPT ![w] = NoRecord]
  /\ UNCHANGED <<up, next_seq, diskSeq, files, pollers, stream, last_seq, streamed, bounds>>

-----------------------------------------------------------------------------
(* EngineTaskExecutor::execute: the loop that polls the events of its turn.*)

StartPolling(p) ==
  /\ up /\ polling[p] = "off"
  /\ polling' = [polling EXCEPT ![p] = "on"]
  /\ seen_seq' = [seen_seq EXCEPT ![p] = 0] /\ polled' = [polled EXCEPT ![p] = <<>>]
  /\ UNCHANGED <<up, next_seq, diskSeq, files, writing, streams, published, bounds>>

(* A line that does not parse fails the task. *)
Poll(p) ==
  /\ up /\ polling[p] = "on"
  /\ IF Readable(Watched)
     THEN LET batch == Since(Watched, seen_seq[p])
          IN  /\ polled' = [polled EXCEPT ![p] = @ \o batch]
              /\ seen_seq' = [seen_seq EXCEPT ![p] = Largest(batch, @)]
              /\ UNCHANGED polling
     ELSE polling' = [polling EXCEPT ![p] = "failed"] /\ UNCHANGED <<seen_seq, polled>>
  /\ UNCHANGED <<up, next_seq, diskSeq, files, writing, streams, published, bounds>>

-----------------------------------------------------------------------------
(* stream_thread_events, and a client that comes back with the last number *)
(* it was sent.                                                            *)

(* The backlog is read; last_seq is the number of its last line. *)
Replay(s) ==
  /\ up /\ stream[s] = "off" /\ Readable(Watched)
  /\ LET backlog == Since(Watched, last_seq[s])
     IN  /\ streamed' = [streamed EXCEPT ![s] = @ \o backlog]
         /\ last_seq' = [last_seq EXCEPT ![s] = IF backlog = <<>> THEN @ ELSE Last(backlog)]
  /\ stream' = [stream EXCEPT ![s] = "replayed"]
  /\ UNCHANGED <<up, next_seq, diskSeq, files, writing, pollers, inbox, lagged, published, bounds>>

Subscribe(s) ==
  /\ up /\ stream[s] = "replayed"
  /\ stream' = [stream EXCEPT ![s] = "live"]
  /\ inbox' = [inbox EXCEPT ![s] = <<>>] /\ lagged' = [lagged EXCEPT ![s] = FALSE]
  /\ UNCHANGED <<up, next_seq, diskSeq, files, writing, pollers, last_seq, streamed, published, bounds>>

(* A record of another thread is skipped, and one that is not newer than   *)
(* the last.                                                               *)
(* Mutant: only other threads are skipped.                                 *)
Wanted_AnyNumber(s, r) == r.thread = Watched

Wanted(s, r) == r.thread = Watched /\ r.seq > last_seq[s]

Receive(s) ==
  /\ up /\ stream[s] = "live" /\ ~lagged[s] /\ inbox[s] # <<>>
  /\ inbox' = [inbox EXCEPT ![s] = Tail(@)]
  /\ LET r == Head(inbox[s])
     IN  IF Wanted(s, r)
         THEN /\ streamed' = [streamed EXCEPT ![s] = Append(@, r.seq)]
              /\ last_seq' = [last_seq EXCEPT ![s] = r.seq]
         ELSE UNCHANGED <<streamed, last_seq>>
  /\ UNCHANGED <<up, next_seq, diskSeq, files, writing, pollers, stream, lagged, published, bounds>>

(* The handler ends the stream when its receiver lagged, or the client     *)
(* leaves.                                                                 *)
Close(s) ==
  /\ up /\ stream[s] = "live"
  /\ stream' = [stream EXCEPT ![s] = "off"]
  /\ inbox' = [inbox EXCEPT ![s] = <<>>] /\ lagged' = [lagged EXCEPT ![s] = FALSE]
  /\ UNCHANGED <<up, next_seq, diskSeq, files, writing, pollers, last_seq, streamed, published, bounds>>

-----------------------------------------------------------------------------
(* A crash leaves the files, and the clients what they were sent. *)
Crash ==
  /\ up /\ crashes < MaxCrashes /\ crashes' = crashes + 1
  /\ up' = FALSE
  /\ pc' = [w \in Writers |-> "idle"] /\ rec' = [w \in Writers |-> NoRecord]
  /\ polling' = [p \in Pollers |-> "off"]
  /\ stream' = [s \in Streams |-> "off"]
  /\ inbox' = [s \in Streams |-> <<>>] /\ lagged' = [s \in Streams |-> FALSE]
  /\ UNCHANGED <<next_seq, diskSeq, files, seen_seq, polled, last_seq, streamed, published, faults>>

(* RuntimeThreadStore::open *)
Open ==
  /\ ~up /\ up' = TRUE
  /\ next_seq' = diskSeq
  /\ UNCHANGED <<diskSeq, files, writing, pollers, streams, published, bounds>>

Writer(w) ==
  \/ \E ok \in BOOLEAN : (\E h \in Threads : DrawSeq(w, h, ok)) \/ WriteText(w, ok) \/ EndLine(w, ok)
  \/ Publish(w)

Poller(p) == StartPolling(p) \/ Poll(p)
Stream(s) == Replay(s) \/ Subscribe(s) \/ Receive(s) \/ Close(s)

Next ==
  \/ \E w \in Writers : Writer(w)
  \/ \E p \in Pollers : Poller(p)
  \/ \E s \in Streams : Stream(s)
  \/ Crash \/ Open

Spec == Init /\ [][Next]_vars

(* The executor's loop sleeps 40 ms and polls again. *)
FairSpec == Spec /\ \A p \in Pollers : WF_vars(Poller(p))

-----------------------------------------------------------------------------
(* Safety, whatever is written concurrently, fails or crashes.             *)

(* A number is written once over all files and across restarts, because    *)
(* state.json is saved before the number is used: since_seq and the        *)
(* readers' filters rest on it (append_event).                             *)
SeqsAreUnique ==
  /\ \A h \in Threads : IsInjective(log[h])
  /\ \A g, h \in Threads : g # h => Range(log[g]) \cap Range(log[h]) = {}

(* The strengthening of SeqsAreUnique that is inductive: every number      *)
(* taken is below the saved counter, which a restart starts from...        *)
SavedCounterIsAhead ==
  /\ up => diskSeq <= next_seq
  /\ \A h \in Threads : \A n \in Range(log[h]) : n < diskSeq
  /\ \A w \in Writers : pc[w] = "drawn" => rec[w].seq < diskSeq

(* ... and a number about to be written is not in a file nor in the hands  *)
(* of another writer.                                                      *)
DrawnIsFresh ==
  \A w \in Writers : pc[w] = "drawn" =>
    /\ \A h \in Threads : rec[w].seq \notin Range(log[h])
    /\ \A v \in Writers \ {w} : pc[v] = "drawn" => rec[v].seq # rec[w].seq

IInv == StoreTypeOK /\ SavedCounterIsAhead /\ DrawnIsFresh /\ SeqsAreUnique

-----------------------------------------------------------------------------
(* As long as the callers of one thread take turns.                        *)

APoller == CHOOSE p \in Pollers : TRUE

Feed == INSTANCE EventFeed WITH
          log <- log[Watched], told <- polled[APoller], sound <- (faults + crashes = 0)

(* While no write fails and the process lives, an executor is told every   *)
(* event of its thread, once and in order, and always catches up, though   *)
(* other threads draw from the same counter.                               *)
PollersFollow == Feed!Spec

(* A client of the stream is sent increasing numbers only, across replay,  *)
(* live events it was replayed already, lag and reconnection.              *)
StreamedInOrder ==
  \A s \in Streams : \A i, j \in DOMAIN streamed[s] : i < j => streamed[s][i] < streamed[s][j]

-----------------------------------------------------------------------------
(* What the documentation says and the code does not keep.                 *)

(* docs/RUNTIME_API.md:464: the events are append-only with a global       *)
(* monotonic seq.  The lock that orders the numbers is released before the *)
(* line is written.                                                        *)
LogIsMonotonic ==
  \A h \in Threads : \A i, j \in DOMAIN log[h] : i < j => log[h][i] < log[h][j]

(* docs/ARCHITECTURE.md:244: clients replay history from the log.  A line  *)
(* with two records fails every later read of the thread.                  *)
LogStaysReadable == \A h \in Threads : Readable(h)

(* docs/RUNTIME_API.md:95: the stream is a replay and then live.  A client *)
(* that has taken everything out of its channel has been sent every event  *)
(* of the thread.                                                          *)
StreamMissesNothing ==
  \A s \in Streams : stream[s] = "live" /\ ~lagged[s] /\ inbox[s] = <<>> =>
    {r.seq : r \in {x \in published : x.thread = Watched}} \subseteq Range(streamed[s])
=============================================================================

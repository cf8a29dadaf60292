----------------------------- MODULE PartitionLog -----------------------------
(***************************************************************************)
(* One partition of the storage engine (crates/storage/src/db.rs): the     *)
(* write-ahead log file, the in-memory PartitionQueue recovered from it,   *)
(* the `messages` lock, and the Storage operations that reach the queue,   *)
(* called by several threads, with process crashes in between.             *)
(*                                                                         *)
(* The lock is parking_lot's RwLock, which is not reentrant: a thread that *)
(* holds `messages` and asks for it again waits for itself.  Operations    *)
(* that hold the lock from start to end are single actions; append is cut  *)
(* where a crash leaves something different behind.                        *)
(***************************************************************************)
EXTENDS Integers, Sequences, FiniteSetsExt, Lists

CONSTANTS
  Thread,        \* callers of Storage
  Consumer,      \* consumer ids
  Payload,       \* message payloads
  Large,         \* payloads whose record does not fit BufWriter's 8 KiB buffer
  PayloadLen,    \* length of each payload
  Policy,        \* retention policies: records [max_age, max_bytes]
  DefaultPolicy, \* the policy Storage starts with
  MaxRead,       \* messages returned by one read (100 in the code)
  DiskFaults,    \* whether opening or writing the log file may fail
  Time,          \* readings of the system clock
  MaxOffset,     \* bound: no append once next_offset has reached it
  MaxCrashes,    \* bound: crashes explored
  NoThread, NoOffset, NoEntry

ASSUME ConstantsAssumption ==
  /\ NoThread \notin Thread
  /\ Large \subseteq Payload
  /\ PayloadLen \in [Payload -> Nat]
  /\ Policy \subseteq [max_age : Nat, max_bytes : Nat]
  /\ DefaultPolicy \in Policy
  /\ MaxRead \in Nat /\ DiskFaults \in BOOLEAN
  /\ Time \subseteq Nat /\ MaxOffset \in Nat /\ MaxCrashes \in Nat
  /\ NoOffset \notin Nat

VARIABLES
  file,             \* records of the log file, oldest first
  open,             \* the partition's queue exists in the running process
  wal,              \* PartitionQueue.wal is Some
  messages,         \* PartitionQueue.messages
  next_offset,      \* PartitionQueue.next_offset
  current_size,     \* PartitionQueue.current_size
  retention_policy, \* PartitionQueue.retention_policy, copied at construction
  policy,           \* Storage.retention_policy
  consumer_offsets, \* Storage.consumer_offsets for this partition
  lock,             \* the writer holding `messages`
  pc, entry,        \* per thread: where it is, and the entry it appends
  now,              \* the system clock
  seen,             \* history: <<offset, payload>> pairs given to readers while
                    \* no record of the file is torn
  crashes           \* history: crashes so far

queue == <<open, wal, messages, next_offset, current_size, retention_policy>>
storage == <<policy, consumer_offsets>>
history == <<seen, crashes>>
vars == <<file, queue, storage, lock, pc, entry, now, history>>

Entry == [offset : Nat, payload : Payload, timestamp : Time, acked : SUBSET Consumer]

\* A record of the file; whole = FALSE when only its length prefix was written.
Record == [offset : Nat, payload : Payload, timestamp : Time, whole : BOOLEAN]

RecordOf(e, whole) ==
  [offset |-> e.offset, payload |-> e.payload, timestamp |-> e.timestamp, whole |-> whole]

\* acknowledged_by is #[serde(skip)]: it comes back empty.
EntryOf(r) ==
  [offset |-> r.offset, payload |-> r.payload, timestamp |-> r.timestamp, acked |-> {}]

\* What a sequence of entries weighs.
Bytes(s) == Total([i \in DOMAIN s |-> PayloadLen[s[i].payload]])

\* The entries nobody has acknowledged.
Unacknowledged(s) == Picked(s, {i \in DOMAIN s : s[i].acked = {}})
-----------------------------------------------------------------------------
(***************************************************************************)
(* WalLog::read_all.  The set of results it can return, each a sequence of *)
(* entries, or {} standing for Err.  A record without its data ends the    *)
(* file too early (Err) when it is the last one; when later appends        *)
(* follow, their bytes are read as its data, which fails to decode or      *)
(* decodes to some entry nobody wrote.                                     *)
(***************************************************************************)
Whole(f) == \A i \in 1..Len(f) : f[i].whole

Misread(f) ==
  LET tear == Min({i \in 1..Len(f) : ~f[i].whole})
  IN  IF tear = Len(f) THEN {}
      ELSE {[i \in 1..tear |-> IF i = tear THEN EntryOf(g) ELSE EntryOf(f[i])] :
              g \in [offset : 0..MaxOffset, payload : Payload, timestamp : Time, whole : {TRUE}]}

\* Mutant of read_all: the last record is not reached.
read_allButLast(f) ==
  IF Whole(f) THEN {[i \in 1..(Len(f) - 1) |-> EntryOf(f[i])]} ELSE Misread(f)

read_all(f) == IF Whole(f) THEN {[i \in 1..Len(f) |-> EntryOf(f[i])]} ELSE Misread(f)

\* Mutant of OffsetAfter: the highest offset found, not the one after it.
HighestOffset(es) == IF es = <<>> THEN 0 ELSE Max({es[i].offset : i \in 1..Len(es)})

\* The scan of PartitionQueue::new for the first free offset.
OffsetAfter(es) == IF es = <<>> THEN 0 ELSE 1 + Max({es[i].offset : i \in 1..Len(es)})
-----------------------------------------------------------------------------
Init ==
  /\ file = <<>>
  /\ open = FALSE /\ wal = FALSE
  /\ messages = <<>> /\ next_offset = 0 /\ current_size = 0
  /\ retention_policy = DefaultPolicy
  /\ policy = DefaultPolicy
  /\ consumer_offsets = [c \in Consumer |-> NoOffset]
  /\ lock = NoThread
  /\ pc = [t \in Thread |-> "idle"]
  /\ entry = [t \in Thread |-> NoEntry]
  /\ now \in Time
  /\ seen = {} /\ crashes = 0

\* There is no queue: the topic is new, or the process is.
NoQueue ==
  /\ open' = FALSE /\ wal' = FALSE
  /\ messages' = <<>> /\ next_offset' = 0 /\ current_size' = 0
  /\ retention_policy' = DefaultPolicy

\* Storage::create_topic puts an empty map in place of the topic's partitions.
\* The insert needs the shard's write lock, which no thread inside another
\* operation allows.
create_topic ==
  /\ open /\ \A t \in Thread : pc[t] = "idle"
  /\ NoQueue
  /\ UNCHANGED <<file, storage, lock, pc, entry, now, history>>

\* Mutant of NewQueue: recovered messages are not weighed.
NewQueueUnweighed(w, es) ==
  /\ open' = TRUE /\ wal' = w
  /\ messages' = es
  /\ next_offset' = OffsetAfter(es)
  /\ current_size' = 0
  /\ retention_policy' = policy

NewQueue(w, es) ==
  /\ open' = TRUE /\ wal' = w
  /\ messages' = es
  /\ next_offset' = OffsetAfter(es)
  /\ current_size' = Bytes(es)
  /\ retention_policy' = policy

(***************************************************************************)
(* Storage::create_partition, hence PartitionQueue::new and WalLog::new:   *)
(* a new queue replaces the old one in the map, under the same lock.       *)
(***************************************************************************)
create_partition ==
  /\ \A t \in Thread : pc[t] = "idle"
  /\ \/ \E es \in read_all(file) : NewQueue(TRUE, es)
     \/ ~Whole(file) /\ NewQueue(TRUE, <<>>)
     \/ DiskFaults /\ NewQueue(FALSE, <<>>)
  /\ UNCHANGED <<file, storage, lock, pc, entry, now, history>>

\* A thread calls Storage::append and asks for the `messages` lock.
CallAppend(t) ==
  /\ open /\ pc[t] = "idle" /\ next_offset < MaxOffset
  /\ pc' = [pc EXCEPT ![t] = "append"]
  /\ UNCHANGED <<file, queue, storage, lock, entry, now, history>>

\* PartitionQueue::append takes both locks and the next offset.
AppendLock(t, p) ==
  /\ pc[t] = "append" /\ lock = NoThread
  /\ lock' = t
  /\ next_offset' = next_offset + 1
  /\ entry' = [entry EXCEPT ![t] =
                 [offset |-> next_offset, payload |-> p, timestamp |-> now, acked |-> {}]]
  /\ pc' = [pc EXCEPT ![t] = "wal"]
  /\ UNCHANGED <<file, open, wal, messages, current_size, retention_policy,
                 storage, now, history>>

\* WalLog::append of a large record: flushing the buffer to make room puts the
\* length prefix in the file before the data.
AppendPrefix(t) ==
  /\ pc[t] = "wal" /\ wal /\ entry[t].payload \in Large
  /\ file' = Append(file, RecordOf(entry[t], FALSE))
  /\ pc' = [pc EXCEPT ![t] = "data"]
  /\ UNCHANGED <<queue, storage, lock, entry, now, history>>

\* What the rest of WalLog::append leaves in the file.  An I/O error is only
\* printed: append goes on.
WalWritten(t) ==
  \/ /\ pc[t] = "wal" /\ wal /\ entry[t].payload \notin Large
     /\ file' = Append(file, RecordOf(entry[t], TRUE))
  \/ /\ pc[t] = "data"
     /\ file' = [file EXCEPT ![Len(file)].whole = TRUE]
  \/ /\ pc[t] = "wal" /\ ~wal
     /\ UNCHANGED file
  \/ /\ DiskFaults /\ wal /\ pc[t] \in {"wal", "data"}
     /\ UNCHANGED file

\* The rest of PartitionQueue::append up to the call of
\* enforce_retention_policy, with both locks still held.
AppendPush(t) ==
  /\ WalWritten(t)
  /\ current_size' = current_size + PayloadLen[entry[t].payload]
  /\ messages' = Append(messages, entry[t])
  /\ pc' = [pc EXCEPT ![t] = "enforce"]
  /\ UNCHANGED <<open, wal, next_offset, retention_policy, storage, lock, entry, now, history>>

\* Mutant of Evictable: evicts a queue that is exactly at its limit.
EvictableAtLimit(e, size) ==
  /\ now >= e.timestamp
  /\ now - e.timestamp > retention_policy.max_age \/ size >= retention_policy.max_bytes

(***************************************************************************)
(* enforce_retention_policy drops messages from the front while the front  *)
(* one is too old, or the size too large; a message from the future stops  *)
(* the loop.  Kept(k) says the loop goes no further after k removals.      *)
(***************************************************************************)
Evictable(e, size) ==
  /\ now >= e.timestamp
  /\ now - e.timestamp > retention_policy.max_age \/ size > retention_policy.max_bytes

Kept(k) ==
  k < Len(messages) =>
    ~Evictable(messages[k + 1], current_size - Bytes(SubSeq(messages, 1, k)))

\* Called by append, update_retention_policy and cleanup_old_messages: it asks
\* for the `messages` lock again, so an appender, which holds it, never gets it.
enforce_retention_policy(t) ==
  /\ pc[t] = "enforce" /\ lock = NoThread
  /\ LET k == Min({j \in 0..Len(messages) : Kept(j)})
     IN  /\ messages' = SubSeq(messages, k + 1, Len(messages))
         /\ current_size' = current_size - Bytes(SubSeq(messages, 1, k))
  /\ pc' = [pc EXCEPT ![t] = "idle"]
  /\ UNCHANGED <<file, open, wal, next_offset, retention_policy, storage, lock, entry, now, history>>

\* Storage::update_retention_policy sets Storage's copy, then enforces on every
\* queue; the queues keep the policy they were built with.
update_retention_policy(t, p) ==
  /\ pc[t] = "idle"
  /\ policy' = p
  /\ pc' = [pc EXCEPT ![t] = IF open THEN "enforce" ELSE "idle"]
  /\ UNCHANGED <<file, queue, consumer_offsets, lock, entry, now, history>>

\* Storage::cleanup_old_messages
cleanup_old_messages(t) ==
  /\ open /\ pc[t] = "idle"
  /\ pc' = [pc EXCEPT ![t] = "enforce"]
  /\ UNCHANGED <<file, queue, storage, lock, entry, now, history>>

\* Storage::acknowledge: the first entry with that offset, if there is one.
acknowledge(c, o) ==
  /\ open /\ lock = NoThread
  /\ \E i \in 1..Len(messages) :
       /\ messages[i].offset = o
       /\ \A j \in 1..(i - 1) : messages[j].offset # o
       /\ messages' = [messages EXCEPT ![i].acked = @ \cup {c}]
  /\ UNCHANGED <<file, open, wal, next_offset, current_size, retention_policy,
                 storage, lock, pc, entry, now, history>>

\* Storage::cleanup: cleanup_acknowledged keeps what nobody has acknowledged.
cleanup ==
  /\ open /\ lock = NoThread
  /\ messages' = Unacknowledged(messages)
  /\ current_size' = Bytes(messages')
  /\ UNCHANGED <<file, open, wal, next_offset, retention_policy,
                 storage, lock, pc, entry, now, history>>

\* Storage::update_consumer_offset
update_consumer_offset(c, o) ==
  /\ consumer_offsets' = [consumer_offsets EXCEPT ![c] = o]
  /\ UNCHANGED <<file, queue, policy, lock, pc, entry, now, history>>

\* PartitionQueue::read_from: the places of the first MaxRead messages from
\* offset `start` on.
read_from(start) ==
  LET from == {i \in 1..Len(messages) : messages[i].offset >= start}
  IN  {i \in from : Cardinality({j \in from : j < i}) < MaxRead}

\* Storage::read_from_offset
read_from_offset(c) ==
  /\ open /\ lock = NoThread
  /\ LET read == read_from(IF consumer_offsets[c] = NoOffset THEN 0 ELSE consumer_offsets[c])
     IN  seen' = seen \cup {<<messages[i].offset, messages[i].payload>> :
                              i \in {j \in read : Whole(file)}}
  /\ UNCHANGED <<file, queue, storage, lock, pc, entry, now, crashes>>

\* The system clock moves; nothing keeps it from being set back.
SetClock ==
  /\ now' \in Time \ {now}
  /\ UNCHANGED <<file, queue, storage, lock, pc, entry, history>>

\* The process dies: only the file is left.
Crash ==
  /\ crashes < MaxCrashes
  /\ crashes' = crashes + 1
  /\ NoQueue
  /\ policy' = DefaultPolicy
  /\ consumer_offsets' = [c \in Consumer |-> NoOffset]
  /\ lock' = NoThread
  /\ pc' = [t \in Thread |-> "idle"]
  /\ entry' = [t \in Thread |-> NoEntry]
  /\ UNCHANGED <<file, now, seen>>

Step(t) ==
  \/ \E p \in Payload : AppendLock(t, p)
  \/ AppendPrefix(t)
  \/ AppendPush(t)
  \/ enforce_retention_policy(t)

Next ==
  \/ create_topic
  \/ create_partition
  \/ \E t \in Thread :
       \/ CallAppend(t)
       \/ Step(t)
       \/ \E p \in Policy : update_retention_policy(t, p)
       \/ cleanup_old_messages(t)
  \/ \E c \in Consumer :
       \/ \E o \in 0..MaxOffset : acknowledge(c, o) \/ update_consumer_offset(c, o)
       \/ read_from_offset(c)
  \/ cleanup
  \/ SetClock
  \/ Crash

Spec == Init /\ [][Next]_vars

\* A thread that has called Storage keeps running until it returns.
FairSpec == Spec /\ \A t \in Thread : WF_vars(Step(t))
-----------------------------------------------------------------------------
\* Up to its first torn record the log holds each offset once, in order and
\* without gaps, over any number of crashes, restarts and failed writes:
\* recovery hands append the right offset to go on from (PartitionQueue::new).
WalInOrder ==
  \A i \in 1..Len(file) : (\A j \in 1..(i - 1) : file[j].whole) => file[i].offset = i - 1

\* An offset names one message for ever: two reads that return the same offset
\* return the same payload, restarts between them included, while no record of
\* the log is torn.
OffsetNamesOneMessage ==
  Whole(file) => \A a, b \in seen : a[1] = b[1] => a[2] = b[2]

\* No message of the queue carries the offset the next append will use, not
\* even after a torn record made recovery misread the log.
QueueOffsetsFresh == \A i \in 1..Len(messages) : messages[i].offset < next_offset

\* current_size is what the queued messages weigh whenever the queue is not
\* being appended to, so the subtraction in enforce_retention_policy never
\* goes below zero, however appends, cleanups and evictions alternate.
QueueSizeAccurate == lock = NoThread => current_size = Bytes(messages)

\* A message leaves the queue of a running process only when some consumer
\* acknowledged it, or the queue's retention policy is exceeded: replacing the
\* queue (create_partition) brings back everything else from an intact log.
RemovalIsDeliberate ==
  [][open /\ open' /\ wal /\ wal' /\ Whole(file) =>
       \A i \in 1..Len(messages) :
         \/ \E j \in 1..Len(messages') : messages'[j].offset = messages[i].offset
         \/ messages[i].acked # {}
         \/ now - messages[i].timestamp > retention_policy.max_age
         \/ current_size > retention_policy.max_bytes]_vars

\* Storage::append returns: the unit test test_basic_operations appends a
\* message and then reads it.
AppendReturns == \A t \in Thread : pc[t] = "append" ~> pc[t] = "idle"

\* What an intact log holds is in the queue after a restart, under its offset.
SurvivesRestart ==
  [][~open /\ open' /\ wal' /\ Whole(file) =>
       \A i \in 1..Len(file) : \E j \in 1..Len(messages') :
         /\ messages'[j].offset = file[i].offset
         /\ messages'[j].payload = file[i].payload]_vars
=============================================================================

----------------------------- MODULE Compaction -----------------------------
(***************************************************************************)
(* LogCompactionManager (crates/broker/src/compaction.rs) for one          *)
(* partition, under each of its strategies.  append and compact_partition  *)
(* hold the write lock of `segments`, so each is one action.  A value is   *)
(* its length.  Offsets are distinct but may come in any order: they are   *)
(* given out before append takes the lock.                                 *)
(***************************************************************************)
EXTENDS Integers, Sequences, Functions, Lists

CONSTANTS
  Key,
  Length,         \* lengths of values
  MaxSegmentSize,
  Window,         \* the Duration of TimeWindow and Hybrid
  MaxAppended,    \* bound: offsets appended
  MaxNow          \* bound: the clock

ASSUME CompactionAssumption ==
  /\ Length \subseteq Nat /\ MaxSegmentSize \in Nat /\ Window \in Nat
  /\ MaxAppended \in Nat /\ MaxNow \in Nat

VARIABLES
  strategy,  \* fixed when the manager is built
  segments,  \* of the partition, oldest first
  freed,     \* what the last compact_partition returned
  now,       \* the clock
  appended   \* history: every entry ever appended

log == <<strategy, segments, freed, now, appended>>

CompactionStrategy == {"KeepLatest", "TimeWindow", "Hybrid"}

CompactedEntry ==
  [key : Key, value : Length, offset : 0..MaxAppended, timestamp : 0..MaxNow]

Weight(entries) == Total([i \in DOMAIN entries |-> entries[i].value])

AllEntries(segs) == Flatten([i \in DOMAIN segs |-> segs[i].entries])

TotalSize(segs) == Total([i \in DOMAIN segs |-> segs[i].size_bytes])

NewSegment(offset) ==
  [start_offset |-> offset, end_offset |-> offset, entries |-> <<>>, size_bytes |-> 0]

\* Mutant of add_entry: the bytes of the entry are not counted.
add_entryUncounted(s, e) ==
  [s EXCEPT !.end_offset = e.offset, !.entries = Append(@, e)]

add_entry(s, e) ==
  [s EXCEPT !.size_bytes = @ + e.value,
            !.end_offset = e.offset,
            !.entries = Append(@, e)]

Full(s) == s.size_bytes >= MaxSegmentSize

\* The entry goes to the last segment, or to a new one when that is full.
Add(segs, e) ==
  IF Full(segs[Len(segs)]) THEN Append(segs, add_entry(NewSegment(e.offset), e))
  ELSE [segs EXCEPT ![Len(segs)] = add_entry(@, e)]

LInit ==
  /\ strategy \in CompactionStrategy
  /\ segments = <<>> /\ freed = 0 /\ now = 0 /\ appended = {}

append(k, len, o) ==
  /\ \A e \in appended : e.offset # o
  /\ LET e    == [key |-> k, value |-> len, offset |-> o, timestamp |-> now]
         segs == IF segments = <<>> THEN <<NewSegment(o)>> ELSE segments
     IN  /\ segments' = Add(segs, e)
         /\ appended' = appended \cup {e}
  /\ UNCHANGED <<strategy, freed, now>>
-----------------------------------------------------------------------------
\* Mutant of Latest: the entry met last wins.
LatestMet(entries) ==
  {entries[i] : i \in {j \in DOMAIN entries :
     \A l \in DOMAIN entries : l > j => entries[l].key # entries[j].key}}

\* latest_entries: of each key the entry with the greatest offset.
Latest(entries) ==
  {entries[i] : i \in {j \in DOMAIN entries :
     \A l \in DOMAIN entries : entries[l].key = entries[j].key => entries[l].offset <= entries[j].offset}}

\* Entries added one by one to segments that start anew at offset 0.
Rebuilt(entries) ==
  LET upTo[i \in 0..Len(entries)] ==
        IF i = 0 THEN <<NewSegment(0)>> ELSE Add(upTo[i - 1], entries[i])
  IN  upTo[Len(entries)]

\* The latest entries come in the order of a HashMap, which is any.
compact_keep_latest(segs) ==
  {IF order = <<>> THEN <<>> ELSE Rebuilt(order) : order \in Orders(Latest(AllEntries(segs)))}

Recent(e) == e.timestamp >= now - Window

Retained(s) ==
  LET kept == Picked(s.entries, {i \in DOMAIN s.entries : Recent(s.entries[i])})
  IN  [s EXCEPT !.entries = kept, !.size_bytes = Weight(kept)]

compact_time_window(segs) ==
  LET retained == [i \in DOMAIN segs |-> Retained(segs[i])]
  IN  Picked(retained, {i \in DOMAIN retained : retained[i].entries # <<>>})

compact_hybrid(segs) == compact_keep_latest(compact_time_window(segs))

Compacted ==
  CASE strategy = "KeepLatest" -> compact_keep_latest(segments)
    [] strategy = "TimeWindow" -> {compact_time_window(segments)}
    [] strategy = "Hybrid"     -> compact_hybrid(segments)

\* The partition exists once something was appended.
compact_partition ==
  /\ appended # {}
  /\ segments' \in Compacted
  /\ freed' = TotalSize(segments) - TotalSize(segments')
  /\ UNCHANGED <<strategy, now, appended>>

TimePasses ==
  /\ now < MaxNow
  /\ now' = now + 1
  /\ UNCHANGED <<strategy, segments, freed, appended>>

LNext ==
  \/ \E k \in Key, len \in Length, o \in 0..MaxAppended : append(k, len, o)
  \/ compact_partition
  \/ TimePasses

LSpec == LInit /\ [][LNext]_log
-----------------------------------------------------------------------------
Stored == Range(AllEntries(segments))

LastOfKey(e) == \A f \in appended : f.key = e.key => f.offset <= e.offset

\* What the strategy promises to keep is still there, after any number of
\* compactions between appends in any order of offsets: the newest entry of
\* every key, everything in the window, or the newest where it is in the window.
PromisedIsKept ==
  \A e \in appended :
    (/\ strategy # "TimeWindow" => LastOfKey(e)
     /\ strategy # "KeepLatest" => Recent(e)) => e \in Stored

\* Compaction neither repeats an entry nor makes one up, and the bytes a
\* segment claims are those of its entries: original_size - new_size, an
\* unsigned subtraction, never goes below zero.
EntriesExact ==
  /\ freed >= 0
  /\ Stored \subseteq appended
  /\ IsInjective(AllEntries(segments))
  /\ \A i \in DOMAIN segments : segments[i].size_bytes = Weight(segments[i].entries)
=============================================================================

------------------------------ MODULE Metrics ------------------------------
(***************************************************************************)
(* RateCounter and Histogram (crates/core/src/monitoring.rs).  get_rate    *)
(* loads both counts before it waits for the lock on last_update, so calls *)
(* that overlap use each other's counts.  Time is in units of which        *)
(* Second make a second, so that readings may be less than one apart.      *)
(***************************************************************************)
EXTENDS Integers, Sequences, Lists

CONSTANTS
  Reader,       \* tasks that call get_rate
  Second,       \* units of time in a second
  Word,         \* 2^64 in the code
  MaxTicks,     \* bound: the system clock
  MaxCount,     \* bound: increments
  bucket_bounds,
  Latency,      \* values recorded
  MaxSamples,   \* bound: values recorded
  Percentile    \* pairs <<a, b>> standing for a / b

ASSUME MetricsAssumption ==
  /\ Second \in Nat \ {0} /\ Word \in Nat /\ Word > MaxCount
  /\ MaxTicks \in Nat /\ MaxCount \in Nat /\ MaxSamples \in Nat
  /\ bucket_bounds \in Seq(Nat \ {0}) /\ bucket_bounds # <<>>
  /\ \A i, j \in DOMAIN bucket_bounds : i < j => bucket_bounds[i] < bucket_bounds[j]
  /\ Latency \subseteq Nat
  /\ \A p \in Percentile : p[1] \in Nat /\ p[2] \in Nat \ {0} /\ p[1] <= p[2]

VARIABLES
  count, last_count, \* RateCounter
  last_update,
  ticks,             \* the system clock
  step,              \* per reader: "idle", "last", "lock"
  current, last,     \* per reader: the counts it loaded
  rate,              \* per reader: the messages in its last answer, not yet
                     \* divided by the time
  overlapped,        \* history: two readers were in get_rate at once
  told, missed,      \* history: messages in the rates answered, and in those
                     \* answered as 0.0 for want of a whole second
  buckets,           \* Histogram
  samples            \* history: values recorded

counter == <<count, last_count, last_update, ticks, step, current, last, rate,
             overlapped, told, missed>>
histogram == <<buckets, samples>>
mvars == <<counter, histogram>>

Bucket == 1..(Len(bucket_bounds) + 1)

MInit ==
  /\ count = 0 /\ last_count = 0 /\ last_update = 0 /\ ticks = 0
  /\ step = [r \in Reader |-> "idle"]
  /\ current = [r \in Reader |-> 0] /\ last = [r \in Reader |-> 0]
  /\ rate = [r \in Reader |-> 0]
  /\ overlapped = FALSE /\ told = 0 /\ missed = 0
  /\ buckets = [i \in Bucket |-> 0] /\ samples = <<>>
-----------------------------------------------------------------------------
increment ==
  /\ count < MaxCount
  /\ count' = count + 1
  /\ UNCHANGED <<last_count, last_update, ticks, step, current, last, rate,
                 overlapped, told, missed, histogram>>

\* get_rate: the two loads.
LoadCount(r) ==
  /\ step[r] = "idle"
  /\ current' = [current EXCEPT ![r] = count]
  /\ step' = [step EXCEPT ![r] = "last"]
  /\ overlapped' = (overlapped \/ \E q \in Reader : step[q] # "idle")
  /\ UNCHANGED <<count, last_count, last_update, ticks, last, rate, told, missed, histogram>>

LoadLastCount(r) ==
  /\ step[r] = "last"
  /\ last' = [last EXCEPT ![r] = last_count]
  /\ step' = [step EXCEPT ![r] = "lock"]
  /\ UNCHANGED <<count, last_count, last_update, ticks, current, rate,
                 overlapped, told, missed, histogram>>

\* A clock set back counts as one second.
Elapsed == IF ticks >= last_update THEN ticks - last_update ELSE Second

\* Mutant of StoredCount: the count of now, not the one the rate was made from.
StoredLate(r) == count

StoredCount(r) == current[r]

\* The rest of get_rate, under the lock on last_update.  The subtraction is
\* unsigned: it wraps in a release build and panics in a debug build.
Rate(r) ==
  /\ step[r] = "lock"
  /\ LET new == (current[r] - last[r]) % Word
     IN  IF Elapsed \div Second > 0
         THEN /\ rate' = [rate EXCEPT ![r] = new]
              /\ told' = IF overlapped THEN told ELSE told + new
              /\ UNCHANGED missed
         ELSE /\ rate' = [rate EXCEPT ![r] = 0]
              /\ missed' = IF overlapped THEN missed ELSE missed + new
              /\ UNCHANGED told
  /\ last_count' = StoredCount(r)
  /\ last_update' = ticks
  /\ step' = [step EXCEPT ![r] = "idle"]
  /\ UNCHANGED <<count, ticks, current, last, overlapped, histogram>>

RatePanics(r) ==
  /\ step[r] = "lock" /\ Elapsed \div Second > 0 /\ current[r] < last[r]
  /\ step' = [step EXCEPT ![r] = "idle"]
  /\ UNCHANGED <<count, last_count, last_update, ticks, current, last, rate,
                 overlapped, told, missed, histogram>>

SetTicks(t) ==
  /\ t # ticks
  /\ ticks' = t
  /\ UNCHANGED <<count, last_count, last_update, step, current, last, rate,
                 overlapped, told, missed, histogram>>
-----------------------------------------------------------------------------
\* The bucket of a value: the first whose bound is above it.
BucketOf(v) ==
  First({i \in DOMAIN bucket_bounds : v < bucket_bounds[i]} \cup {Len(bucket_bounds) + 1})

\* Histogram::record
record(v) ==
  /\ Len(samples) < MaxSamples
  /\ buckets' = [buckets EXCEPT ![BucketOf(v)] = @ + 1]
  /\ samples' = Append(samples, v)
  /\ UNCHANGED counter

UpTo(i) == Total(SubSeq(buckets, 1, i))

LowerBound(i) == IF i = 1 THEN 0 ELSE bucket_bounds[i - 1]

\* Mutant of get_percentile: the bucket after the one that reaches the target.
PercentileAbove(p) ==
  LET total == UpTo(Len(buckets))
      target == (total * p[1]) \div p[2]
  IN  IF total = 0 THEN 0
      ELSE LowerBound(First({i \in Bucket : UpTo(i) > target} \cup {Len(bucket_bounds) + 1}))

\* Histogram::get_percentile: the first bucket at which the running sum reaches
\* the target, the first one if the target is 0.
get_percentile(p) ==
  LET total == UpTo(Len(buckets))
      target == (total * p[1]) \div p[2]
  IN  IF total = 0 THEN 0
      ELSE LowerBound(First({i \in Bucket : UpTo(i) >= target}))

\* Histogram::get_average, times the number of samples.
AverageSum == Total([i \in Bucket |-> LowerBound(i) * buckets[i]])

ClockNext == \E t \in 0..MaxTicks : SetTicks(t)

RateNext ==
  \/ increment
  \/ \E r \in Reader : LoadCount(r) \/ LoadLastCount(r) \/ Rate(r) \/ RatePanics(r)
  \/ ClockNext

LatencyNext == \E v \in Latency : record(v)

MNext == RateNext \/ LatencyNext

MSpec == MInit /\ [][MNext]_mvars
-----------------------------------------------------------------------------
\* Readings that do not overlap count every message once, however increments
\* fall between their loads and whatever the clock does: what they have told,
\* what they have missed and what is still to come add up to the total.
RatesAddUp ==
  ~overlapped => told + missed + (count - last_count) = count

\* How many of the values recorded are at most v.
AtMost(v) == Len(Picked(samples, {i \in DOMAIN samples : samples[i] <= v}))

\* The percentile answered is the lower bound of the bucket of the value of
\* that rank, rounded down, among the values recorded (0 for rank 0), and the
\* average never exceeds the true one.
PercentileIsRanked ==
  /\ \A p \in Percentile :
       LET rank == (Len(samples) * p[1]) \div p[2]
       IN  IF rank = 0 THEN get_percentile(p) = 0
           ELSE \E v \in Latency :
                  /\ AtMost(v) >= rank
                  /\ \A w \in Latency : w < v => AtMost(w) < rank
                  /\ get_percentile(p) = LowerBound(BucketOf(v))
  /\ AverageSum <= Total(samples)

\* test_rate_counter: a reading after increments answers a rate above zero.
RateIsSeen ==
  [][\A r \in Reader :
       step[r] = "lock" /\ step'[r] = "idle" /\ current[r] > last[r] /\ ticks > last_update
         => rate'[r] > 0]_mvars
=============================================================================

------------------------------- MODULE Health -------------------------------
(***************************************************************************)
(* The heartbeat manager and the health monitor (crates/core/src/          *)
(* health.rs).  The background checker of the heartbeats takes its list of *)
(* dead brokers under the lock and reports them afterwards; update_check   *)
(* holds the lock on the checks while it waits for the one on the failure  *)
(* counts, which reset_failures may take first.                            *)
(***************************************************************************)
EXTENDS Integers, Sequences, FiniteSetsExt

CONSTANTS
  Peer,        \* brokers that send heartbeats
  Timeout,     \* HeartbeatManager.timeout
  MaxClock,    \* bound: the system clock
  Component,
  Threshold,   \* HealthMonitor.failure_threshold
  MaxUpdates,  \* bound: updates and resets
  NoBeat, NoCheck

ASSUME HealthAssumption ==
  /\ Timeout \in Nat \ {0} /\ MaxClock \in Nat
  /\ Threshold \in Nat /\ MaxUpdates \in Nat
  /\ NoBeat \notin Nat

HealthStatus == {"Healthy", "Degraded", "Unhealthy", "Unknown"}

VARIABLES
  last_heartbeats, \* HeartbeatManager.last_heartbeats
  clock,           \* the system clock
  dead_brokers,    \* the checker's list: those it has still to report
  reported,        \* history: brokers reported since their last heartbeat
  checks,          \* HealthMonitor.checks: the status of each component
  failure_counts,  \* HealthMonitor.failure_counts, 0 when absent
  updating,        \* <<component, status>> of the update_check call that holds
                   \* the lock on `checks` and waits for the counts, or <<>>
  updates          \* history, per component: statuses counted, and resets

heartbeat == <<last_heartbeats, clock, dead_brokers, reported>>
monitor == <<checks, failure_counts, updating, updates>>
hvars == <<heartbeat, monitor>>

HInit ==
  /\ last_heartbeats = [p \in Peer |-> NoBeat]
  /\ clock = 0 /\ dead_brokers = {} /\ reported = {}
  /\ checks = [c \in Component |-> NoCheck]
  /\ failure_counts = [c \in Component |-> 0]
  /\ updating = <<>>
  /\ updates = [c \in Component |-> <<>>]
-----------------------------------------------------------------------------
Beating(p) == last_heartbeats[p] # NoBeat

record_heartbeat(p) ==
  /\ last_heartbeats' = [last_heartbeats EXCEPT ![p] = clock]
  /\ reported' = reported \ {p}
  /\ UNCHANGED <<clock, dead_brokers, monitor>>

remove_broker(p) ==
  /\ last_heartbeats' = [last_heartbeats EXCEPT ![p] = NoBeat]
  /\ reported' = reported \ {p}
  /\ UNCHANGED <<clock, dead_brokers, monitor>>

\* is_alive: a heartbeat from the future proves nothing.
is_alive(p) == Beating(p) /\ clock >= last_heartbeats[p] /\ clock - last_heartbeats[p] < Timeout

\* Mutant of get_dead_brokers: dead only when the timeout is exceeded.
OverdueBrokers ==
  {p \in Peer : Beating(p) /\ clock - last_heartbeats[p] > Timeout}

\* get_dead_brokers, and the same test in the checker.
get_dead_brokers ==
  {p \in Peer : Beating(p) /\ clock >= last_heartbeats[p] /\ clock - last_heartbeats[p] >= Timeout}

\* start_checker: a tick makes the list, then on_dead is called for each.
CheckHeartbeats ==
  /\ dead_brokers = {} /\ get_dead_brokers # {}
  /\ dead_brokers' = get_dead_brokers
  /\ UNCHANGED <<last_heartbeats, clock, reported, monitor>>

on_dead(p) ==
  /\ p \in dead_brokers
  /\ dead_brokers' = dead_brokers \ {p}
  /\ reported' = reported \cup {p}
  /\ UNCHANGED <<last_heartbeats, clock, monitor>>

\* The clock moves; nothing keeps it from being set back.
SetSystemTime(t) ==
  /\ t # clock
  /\ clock' = t
  /\ UNCHANGED <<last_heartbeats, dead_brokers, reported, monitor>>
-----------------------------------------------------------------------------
register_check(c, s) ==
  /\ updating = <<>>
  /\ checks' = [checks EXCEPT ![c] = s]
  /\ UNCHANGED <<failure_counts, updating, updates, heartbeat>>

\* The bound on updates and resets.
MoreUpdates == MapThenSumSet(LAMBDA c : Len(updates[c]), Component) < MaxUpdates

\* update_check under the lock on `checks`.
update_check(c, s) ==
  /\ updating = <<>> /\ MoreUpdates
  /\ checks' = [checks EXCEPT ![c] = IF @ = NoCheck THEN @ ELSE s]
  /\ updating' = <<c, s>>
  /\ UNCHANGED <<failure_counts, updates, heartbeat>>

\* Mutant of Counted: a degraded component starts over.
CountedUnlessDegraded(s, n) ==
  IF s = "Unhealthy" THEN n + 1 ELSE IF s \in {"Healthy", "Degraded"} THEN 0 ELSE n

Counted(s, n) == IF s = "Unhealthy" THEN n + 1 ELSE IF s = "Healthy" THEN 0 ELSE n

\* The rest of update_check, with the lock on `failure_counts`.
UpdateCount ==
  /\ updating # <<>>
  /\ LET c == updating[1]
         s == updating[2]
     IN  /\ failure_counts' = [failure_counts EXCEPT ![c] = Counted(s, @)]
         /\ updates' = [updates EXCEPT ![c] = Append(@, s)]
  /\ updating' = <<>>
  /\ UNCHANGED <<checks, heartbeat>>

reset_failures(c) ==
  /\ MoreUpdates
  /\ failure_counts' = [failure_counts EXCEPT ![c] = 0]
  /\ updates' = [updates EXCEPT ![c] = Append(@, "reset")]
  /\ UNCHANGED <<checks, updating, heartbeat>>

\* A round of start_scheduler inserts the checks it is given; the failure
\* counts stay as they are.
Schedule(new) ==
  /\ updating = <<>>
  /\ checks' = [c \in Component |-> IF new[c] = NoCheck THEN checks[c] ELSE new[c]]
  /\ UNCHANGED <<failure_counts, updating, updates, heartbeat>>

is_circuit_broken(c) == failure_counts[c] # 0 /\ failure_counts[c] >= Threshold

Checker == CheckHeartbeats \/ \E p \in Peer : on_dead(p)

BeatNext ==
  \/ \E p \in Peer : record_heartbeat(p) \/ remove_broker(p)
  \/ Checker
  \/ \E t \in 0..MaxClock : SetSystemTime(t)

CheckNext ==
  \/ \E c \in Component :
       \/ \E s \in HealthStatus : register_check(c, s) \/ update_check(c, s)
       \/ reset_failures(c)
  \/ UpdateCount
  \/ \E new \in [Component -> HealthStatus \cup {NoCheck}] : Schedule(new)

HNext == BeatNext \/ CheckNext

HSpec == HInit /\ [][HNext]_hvars
-----------------------------------------------------------------------------
\* A broker that is_alive denies is reported by the checker, unless it beats
\* again or is removed, although the checker works through a list made before
\* and the clock may be set back, when a broker is neither alive nor dead.
DeadIsReported ==
  \A p \in Peer :
    LET silent == Beating(p) /\ clock >= last_heartbeats[p] /\ ~is_alive(p)
    IN  silent ~> p \in reported \/ ~silent

\* Failures of c since it was last healthy or reset.
Failures(u) ==
  {i \in 1..Len(u) : u[i] = "Unhealthy" /\ \A j \in (i + 1)..Len(u) : u[j] \notin {"Healthy", "reset"}}

\* The circuit of a component is broken when it has failed Threshold times since
\* it was last found healthy or reset, in the order the counts were locked;
\* what register_check and the scheduler write does not matter.
BreakerMatchesHistory ==
  \A c \in Component :
    is_circuit_broken(c) <=> Failures(updates[c]) # {} /\ Cardinality(Failures(updates[c])) >= Threshold
=============================================================================

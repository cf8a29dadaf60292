------------------------------ MODULE Managers ------------------------------
(***************************************************************************)
(* Objects Broker::new_with_cluster (crates/broker/src/broker.rs) builds   *)
(* that know nothing of each other: the replication and compaction         *)
(* managers, the zero-copy processor, the heartbeat manager and health     *)
(* monitor, and the metrics collector.  None of them holds or calls        *)
(* another, so in a behaviour one of them moves, whichever it is.          *)
(***************************************************************************)
EXTENDS Replication, Compaction, ZeroCopy, Health, Metrics

VARIABLE manager \* the one that moves

Manager == {"replication", "compaction", "zero_copy", "heartbeat", "health", "rate", "latency"}

managers == <<isr, log, processor, hvars, mvars, manager>>

Init ==
  /\ manager \in Manager
  /\ RInit /\ LInit /\ ZInit /\ HInit /\ MInit
  /\ manager # "compaction" => strategy = "KeepLatest"

Next ==
  \/ /\ manager = "replication" /\ RNext
     /\ UNCHANGED <<log, processor, hvars, mvars, manager>>
  \/ /\ manager = "compaction" /\ LNext
     /\ UNCHANGED <<isr, processor, hvars, mvars, manager>>
  \/ /\ manager = "zero_copy" /\ ZNext
     /\ UNCHANGED <<isr, log, hvars, mvars, manager>>
  \/ /\ manager = "heartbeat" /\ BeatNext
     /\ UNCHANGED <<isr, log, processor, mvars, manager>>
  \/ /\ manager = "health" /\ CheckNext
     /\ UNCHANGED <<isr, log, processor, mvars, manager>>
  \/ /\ manager = "rate" /\ RateNext
     /\ UNCHANGED <<isr, log, processor, hvars, manager>>
  \/ /\ manager = "latency" /\ (LatencyNext \/ ClockNext)
     /\ UNCHANGED <<isr, log, processor, hvars, manager>>

Spec == Init /\ [][Next]_managers

\* The runtime keeps running the heartbeat checker's task, and its timer ticks.
FairSpec ==
  /\ Spec
  /\ WF_managers(/\ manager = "heartbeat" /\ Checker
                 /\ UNCHANGED <<isr, log, processor, mvars, manager>>)
=============================================================================

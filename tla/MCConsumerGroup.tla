-------------------------- MODULE MCConsumerGroup --------------------------
(* Instances of ConsumerGroup for TLC. *)
EXTENDS ConsumerGroup, TLC

CONSTANTS m1, m2, m3, m4

MCHash     == [m \in Member |-> IF m \in {m1, m3} THEN 2 ELSE 3]
MCSymmetry == Permutations(Consumer) \cup Permutations({m1, m3}) \cup Permutations({m2, m4})
=============================================================================

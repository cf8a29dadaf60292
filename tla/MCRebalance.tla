---------------------------- MODULE MCRebalance ----------------------------
(* Instances of Rebalance for TLC. *)
EXTENDS Rebalance, TLC

MCPartition == 0..(NumPartitions - 1)
MCSymmetry  == Permutations(Member)
=============================================================================

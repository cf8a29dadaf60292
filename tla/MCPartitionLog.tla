--------------------------- MODULE MCPartitionLog ---------------------------
(* Instances of PartitionLog for TLC. *)
EXTENDS PartitionLog, TLC

CONSTANTS small, big

MCPayloadLen == [p \in Payload |-> IF p = big THEN 2 ELSE 1]
MCKeepTwo    == [max_age |-> 0, max_bytes |-> 2]
MCKeepNone   == [max_age |-> 0, max_bytes |-> 0]
MCPolicy     == {MCKeepTwo, MCKeepNone}
MCTime       == 0..1
MCOneTime    == {0}
MCSymmetry   == Permutations(Thread)
=============================================================================

---------------------- MODULE MCTransactionCoordinator ----------------------
(* Instances of TransactionCoordinator for TLC. *)
EXTENDS TransactionCoordinator, TLC

MCTime     == 0..2
MCSymmetry == Permutations(TxnId) \cup Permutations(Producer)
=============================================================================

SPECIFICATION Spec
CONSTANTS
  TxnId = {x1, x2}
  Producer = {p1, p2}
  Write = {w1, w2}
  Time <- MCTime
  DefaultTimeout = 1
  MaxWrites = 2
  MaxSeq = 1
  NoTxn = NoTxn
  NoProducer = NoProducer
SYMMETRY MCSymmetry
INVARIANTS OneActivePerProducer AllWritesOnce DuplicateRefused
PROPERTIES FailedIsFinal ImplementsAtomicCommit

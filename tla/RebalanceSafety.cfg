SPECIFICATION RSpec
CONSTANTS
  Member = {m1, m2, m3}
  NumPartitions = 5
  Partition <- MCPartition
  GroupAssignments = {}
  MaxGeneration = 3
  NoMember = NoMember
  NoSnapshot = NoSnapshot
SYMMETRY MCSymmetry
INVARIANTS RebalancesInTurn StableCovers OneOwnerPerPartition
 

SPECIFICATION CFairSpec
CONSTANTS
  m1 = m1
  m2 = m2
  m3 = m3
  m4 = m4
  Consumer = {c1, c2}
  Member = {m1, m2, m3}
  Hash <- MCHash
  Partition = {0, 1}
  GroupAssignments = {}
  MaxGeneration = 3
  NoMember = NoMember
  NoReply = NoReply
INVARIANTS LeaderInTime
PROPERTIES LeaderSettlesGroup
CHECK_DEADLOCK FALSE

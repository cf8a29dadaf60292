--------------------------- MODULE ManagersProofs ---------------------------
(***************************************************************************)
(* The replica bookkeeping for any brokers and any bound on the lag, and   *)
(* the zero-copy processor for any batches of bytes, sizes and tasks.  The *)
(* managers side by side are each what their own modules describe.         *)
(***************************************************************************)
EXTENDS Managers, Loops

-----------------------------------------------------------------------------
(* The replicas *)

\* A partition with replicas was given a leader by init_partition.
Led == \A b \in Broker : Known(b) => leader_id # NoBroker

\* InSyncIsClose is kept by an election because the old leader, which turns
\* follower without a new report, was close when it last reported.
ReplicaInv == ReplicasTyped /\ Led /\ OneLeader /\ InSyncIsClose

LEMMA InitReplicaInv == RInit => ReplicaInv
  BY ReplicationAssumption, Zenon
     DEF RInit, ReplicaInv, Led, ReplicasTyped, OneLeader, InSyncIsClose, Known

\* One replica is replaced, and not by a leader.
LEMMA ReplaceOne ==
  ASSUME ReplicaInv, leader_id # NoBroker, NEW b \in Broker, NEW r \in ReplicaInfo,
         r.state # "Leader", r.state = "Follower" <=> r.lag <= MaxLag,
         replicas' = [replicas EXCEPT ![b] = r], UNCHANGED leader_id
  PROVE  ReplicaInv'
<1>1. r # NoReplica
  BY ReplicationAssumption, Zenon
<1>2. /\ replicas' \in [Broker -> ReplicaInfo \cup {NoReplica}]
      /\ replicas'[b] = r
      /\ \A x \in Broker \ {b} : replicas'[x] = replicas[x]
  BY Zenon DEF ReplicaInv, ReplicasTyped
<1>3. ReplicasTyped'
  BY <1>2, Zenon DEF ReplicaInv, ReplicasTyped
<1>4. OneLeader'
  BY <1>1, <1>2, Zenon DEF ReplicaInv, ReplicasTyped, OneLeader, Known
<1>5. r.state \in {"Leader", "Follower", "OutOfSync"}
  BY Zenon DEF ReplicaInfo
<1>6. InSyncIsClose'
  BY <1>1, <1>2, <1>5, Zenon DEF ReplicaInv, InSyncIsClose, get_isr, Known
<1> QED
  BY <1>3, <1>4, <1>6, Zenon DEF ReplicaInv, Led

LEMMA ElectionReplicaInv ==
  ASSUME ReplicaInv, NEW b \in Broker, elect_leader(b)
  PROVE  ReplicaInv'
<1> USE ReplicationAssumption
<1>1. ASSUME NEW x \in Broker
      PROVE  /\ AfterElection(b, x) \in ReplicaInfo \cup {NoReplica}
             /\ AfterElection(b, x) = NoReplica <=> replicas[x] = NoReplica
             /\ Known(x) => /\ AfterElection(b, x).lag = replicas[x].lag
                            /\ AfterElection(b, x).state = "Leader" <=> x = b
                            /\ AfterElection(b, x).state = "OutOfSync"
                                 <=> replicas[x].state = "OutOfSync"
  <2>1. Known(b) /\ replicas[b].state # "OutOfSync"
    BY Zenon DEF elect_leader, get_isr
  <2>2. CASE Known(x)
    <3>1. replicas[x] \in ReplicaInfo
      BY <2>2, Zenon DEF ReplicaInv, ReplicasTyped, Known
    <3>2. \A s \in {"Leader", "Follower"} :
            /\ [replicas[x] EXCEPT !.state = s] \in ReplicaInfo
            /\ [replicas[x] EXCEPT !.state = s].state = s
            /\ [replicas[x] EXCEPT !.state = s].lag = replicas[x].lag
      BY <3>1, Zenon DEF ReplicaInfo
    <3> QED
      BY <2>1, <2>2, <3>1, <3>2, Zenon DEF AfterElection, Known
  <2>3. CASE ~Known(x)
    BY <2>1, <2>3, Zenon DEF AfterElection, Known
  <2> QED
    BY <2>2, <2>3, Zenon
<1>2. /\ replicas' = [x \in Broker |-> AfterElection(b, x)]
      /\ leader_id' = b /\ Known(b)
  BY Zenon DEF elect_leader, get_isr
<1>3. ReplicasTyped'
  BY <1>1, <1>2, Zenon DEF ReplicasTyped
<1>4. OneLeader'
  BY <1>1, <1>2, Zenon DEF OneLeader, Known
<1>5. ASSUME NEW x \in Broker, Known(x)
      PROVE  replicas[x].state \in {"Leader", "Follower", "OutOfSync"}
             /\ replicas'[x].state \in {"Leader", "Follower", "OutOfSync"}
  BY <1>1, <1>2, <1>5, Zenon DEF ReplicaInv, ReplicasTyped, Known, ReplicaInfo
<1>6. InSyncIsClose'
  BY <1>1, <1>2, <1>5, Zenon DEF ReplicaInv, InSyncIsClose, get_isr, Known
<1>7. Led'
  BY <1>2, ReplicationAssumption, Zenon DEF Led
<1> QED
  BY <1>3, <1>4, <1>6, <1>7, Zenon DEF ReplicaInv

LEMMA NextReplicaInv ==
  ASSUME ReplicaInv, [RNext]_isr
  PROVE  ReplicaInv'
<1> USE ReplicationAssumption
<1>1. ASSUME NEW b \in Broker, init_partition(b)
      PROVE  ReplicaInv'
  BY <1>1 DEF init_partition, NewReplica, ReplicaInfo, ReplicaInv, Led, ReplicasTyped, OneLeader,
              InSyncIsClose, get_isr, Known
<1>2. ASSUME NEW b \in Broker, add_follower(b)
      PROVE  ReplicaInv'
  <2> DEFINE r == [state |-> "Follower", last_fetch_offset |-> 0, lag |-> 0]
  <2>1. r \in ReplicaInfo
    BY DEF ReplicaInfo
  <2>2. r.state # "Leader" /\ (r.state = "Follower" <=> r.lag <= MaxLag)
    OBVIOUS
  <2>3. leader_id # NoBroker /\ replicas' = [replicas EXCEPT ![b] = r] /\ UNCHANGED leader_id
    BY <1>2, Zenon DEF add_follower, NewReplica
  <2> HIDE DEF r
  <2> QED
    BY <2>1, <2>2, <2>3, ReplaceOne, Zenon
<1>3. ASSUME NEW b \in Broker, NEW o \in 0..MaxReported, NEW l \in 0..MaxReported,
             update_follower_offset(b, o, l)
      PROVE  ReplicaInv'
  <2>1. Reported(o, l) \in ReplicaInfo
    BY DEF Reported, StateAt, ReplicaInfo
  <2>2. PICK r \in ReplicaInfo : r = Reported(o, l)
    BY <2>1, Zenon
  <2>3. r.state # "Leader" /\ (r.state = "Follower" <=> r.lag <= MaxLag)
    BY <2>2, Zenon DEF Reported, StateAt
  <2>4. leader_id # NoBroker
    BY <1>3, Zenon DEF ReplicaInv, Led, update_follower_offset
  <2> QED
    BY <1>3, <2>2, <2>3, <2>4, ReplaceOne, Zenon DEF update_follower_offset
<1>4. CASE UNCHANGED isr
  BY <1>4, Zenon DEF isr, ReplicaInv, Led, ReplicasTyped, OneLeader, InSyncIsClose, get_isr, Known
<1> QED
  BY <1>1, <1>2, <1>3, <1>4, ElectionReplicaInv, Zenon DEF RNext

\* init_partition, add_follower, update_follower_offset and elect_leader keep
\* the records well formed.
THEOREM ReplicationTypeCorrect == RSpec => []ReplicasTyped
<1>1. ReplicaInv => ReplicasTyped
  BY Zenon DEF ReplicaInv
<1> QED
  BY InitReplicaInv, NextReplicaInv, <1>1, PTL DEF RSpec

\* Whatever the order of elections and reports, the partition has one leader
\* and it is one of its replicas.
THEOREM LeaderIsUnique == RSpec => []OneLeader
<1>1. ReplicaInv => OneLeader
  BY Zenon DEF ReplicaInv
<1> QED
  BY InitReplicaInv, NextReplicaInv, <1>1, PTL DEF RSpec

\* Whom get_isr lists, and so whom elect_leader may pick, was close to the
\* leader when it last reported.
THEOREM IsrIsClose == RSpec => []InSyncIsClose
<1>1. ReplicaInv => InSyncIsClose
  BY Zenon DEF ReplicaInv
<1> QED
  BY InitReplicaInv, NextReplicaInv, <1>1, PTL DEF RSpec
-----------------------------------------------------------------------------
\* ZeroCopy: what process_batch writes for a batch.

Batch == Seq(Seq(Byte))

Frames(b) == [i \in DOMAIN b |-> Prefix(Len(b[i])) \o b[i]]

Lengths(b) == [i \in DOMAIN b |-> Len(b[i])]

\* The encoding and the size of the first k messages.
Encoded(b, k) == Flatten(SubSeq(Frames(b), 1, k))

Size(b, k) == Total(SubSeq(Lengths(b), 1, k))

LEMMA PrefixIs ==
  ASSUME NEW n \in Nat
  PROVE  Prefix(n) \in Seq(Byte) /\ Len(Prefix(n)) = 4
<1>1. \A x \in Int : x % 256 \in Byte
  BY DEF Byte
<1>2. n \div 16777216 \in Int /\ n \div 65536 \in Int /\ n \div 256 \in Int
  OBVIOUS
<1> QED
  BY <1>1, <1>2 DEF Prefix

LEMMA BatchIs ==
  ASSUME NEW b \in Batch
  PROVE  /\ Len(b) \in Nat /\ DOMAIN b = 1..Len(b)
         /\ \A i \in 1..Len(b) : b[i] \in Seq(Byte) /\ Len(b[i]) \in Nat
  BY DEF Batch

LEMMA FramesAre ==
  ASSUME NEW b \in Batch
  PROVE  /\ Frames(b) \in Seq(Seq(Byte)) /\ Len(Frames(b)) = Len(b)
         /\ \A i \in 1..Len(b) : Frames(b)[i] = Prefix(Len(b[i])) \o b[i]
<1>1. /\ Len(b) \in Nat /\ DOMAIN b = 1..Len(b)
      /\ \A i \in 1..Len(b) : b[i] \in Seq(Byte) /\ Len(b[i]) \in Nat
  BY BatchIs, Zenon
<1>2. \A p, q \in Seq(Byte) : p \o q \in Seq(Byte)
  OBVIOUS
<1>3. \A i \in 1..Len(b) : Prefix(Len(b[i])) \o b[i] \in Seq(Byte)
  BY <1>1, <1>2, PrefixIs, Zenon
<1>4. Frames(b) = [i \in 1..Len(b) |-> Prefix(Len(b[i])) \o b[i]]
  BY <1>1, Zenon DEF Frames
<1>5. Frames(b) \in [1..Len(b) -> Seq(Byte)]
  BY <1>3, <1>4, Zenon
<1>6. \A i \in 1..Len(b) : Frames(b)[i] = Prefix(Len(b[i])) \o b[i]
  BY <1>4, Zenon
<1>7. \A n \in Nat : \A f \in [1..n -> Seq(Byte)] : f \in Seq(Seq(Byte)) /\ Len(f) = n
  OBVIOUS
<1> QED
  BY <1>1, <1>5, <1>6, <1>7, Zenon

LEMMA LengthsAre ==
  ASSUME NEW b \in Batch
  PROVE  /\ Lengths(b) \in Seq(Nat) /\ Len(Lengths(b)) = Len(b)
         /\ \A i \in 1..Len(b) : Lengths(b)[i] = Len(b[i])
<1>1. /\ Len(b) \in Nat /\ DOMAIN b = 1..Len(b)
      /\ \A i \in 1..Len(b) : b[i] \in Seq(Byte) /\ Len(b[i]) \in Nat
  BY BatchIs, Zenon
<1>4. Lengths(b) = [i \in 1..Len(b) |-> Len(b[i])]
  BY <1>1, Zenon DEF Lengths
<1>5. Lengths(b) \in [1..Len(b) -> Nat]
  BY <1>1, <1>4, Zenon
<1>6. \A i \in 1..Len(b) : Lengths(b)[i] = Len(b[i])
  BY <1>4, Zenon
<1>7. \A n \in Nat : \A f \in [1..n -> Nat] : f \in Seq(Nat) /\ Len(f) = n
  OBVIOUS
<1> QED
  BY <1>1, <1>5, <1>6, <1>7, Zenon

LEMMA FirstOnes ==
  ASSUME NEW S, NEW s \in Seq(S), NEW k \in 0..Len(s)
  PROVE  /\ SubSeq(s, 1, k) \in Seq(S) /\ Len(SubSeq(s, 1, k)) = k
         /\ \A i \in 1..k : SubSeq(s, 1, k)[i] = s[i]
  OBVIOUS

\* The first k elements are the first k - 1 and one more.
LEMMA OneFurther ==
  ASSUME NEW S, NEW s \in Seq(S), NEW k \in 1..Len(s)
  PROVE  /\ SubSeq(s, 1, k) = Append(SubSeq(s, 1, k - 1), s[k])
         /\ SubSeq(s, 1, k - 1) \in Seq(S) /\ s[k] \in S
  OBVIOUS

LEMMA NoneAtAll == ASSUME NEW S, NEW s \in Seq(S) PROVE SubSeq(s, 1, 0) = <<>>
  OBVIOUS

LEMMA AllOfThem == ASSUME NEW S, NEW s \in Seq(S) PROVE SubSeq(s, 1, Len(s)) = s
  OBVIOUS

LEMMA EncodedStarts ==
  ASSUME NEW b \in Batch
  PROVE  /\ Encoded(b, 0) = <<>> /\ Size(b, 0) = 0
         /\ Encoded(b, Len(b)) = Flatten(Frames(b)) /\ Size(b, Len(b)) = Bytes(b)
<1>1. /\ Frames(b) \in Seq(Seq(Byte)) /\ Len(Frames(b)) = Len(b)
      /\ Lengths(b) \in Seq(Nat) /\ Len(Lengths(b)) = Len(b)
  BY FramesAre, LengthsAre, Zenon
<1>2. /\ SubSeq(Frames(b), 1, 0) = <<>> /\ SubSeq(Frames(b), 1, Len(b)) = Frames(b)
  BY <1>1, NoneAtAll, AllOfThem
<1>3. /\ SubSeq(Lengths(b), 1, 0) = <<>> /\ SubSeq(Lengths(b), 1, Len(b)) = Lengths(b)
  BY <1>1, NoneAtAll, AllOfThem
<1> QED
  BY <1>2, <1>3, FlattenNothing, TotalNothing, Zenon DEF Encoded, Size, Bytes, Lengths

LEMMA EncodedNext ==
  ASSUME NEW b \in Batch, NEW k \in 1..Len(b)
  PROVE  /\ k - 1 \in 0..Len(b)
         /\ Encoded(b, k) = Encoded(b, k - 1) \o (Prefix(Len(b[k])) \o b[k])
         /\ Size(b, k) = Size(b, k - 1) + Len(b[k])
<1>1. /\ Frames(b) \in Seq(Seq(Byte)) /\ Len(Frames(b)) = Len(b)
      /\ Lengths(b) \in Seq(Nat) /\ Len(Lengths(b)) = Len(b)
      /\ Frames(b)[k] = Prefix(Len(b[k])) \o b[k]
      /\ Lengths(b)[k] = Len(b[k])
  BY FramesAre, LengthsAre, Zenon
<1>2. Len(b) \in Nat
  BY BatchIs, Zenon
<1>3. k - 1 \in 0..Len(b) /\ k \in 1..Len(Frames(b)) /\ k \in 1..Len(Lengths(b))
  BY <1>1, <1>2
<1>4. /\ SubSeq(Frames(b), 1, k) = Append(SubSeq(Frames(b), 1, k - 1), Frames(b)[k])
      /\ SubSeq(Frames(b), 1, k - 1) \in Seq(Seq(Byte)) /\ Frames(b)[k] \in Seq(Byte)
  BY <1>1, <1>3, OneFurther, Zenon
<1>5. /\ SubSeq(Lengths(b), 1, k) = Append(SubSeq(Lengths(b), 1, k - 1), Lengths(b)[k])
      /\ SubSeq(Lengths(b), 1, k - 1) \in Seq(Nat) /\ Lengths(b)[k] \in Nat
  BY <1>1, <1>3, OneFurther, Zenon
<1>6. Encoded(b, k) = Encoded(b, k - 1) \o Frames(b)[k]
  BY <1>4, FlattenAppend, Zenon DEF Encoded
<1>7. Size(b, k) = Size(b, k - 1) + Lengths(b)[k]
  BY <1>5, TotalAppend, Zenon DEF Size
<1> QED
  BY <1>1, <1>3, <1>6, <1>7, Zenon

LEMMA EncodedIs ==
  ASSUME NEW b \in Batch, NEW k \in 0..Len(b)
  PROVE  Encoded(b, k) \in Seq(Byte) /\ Size(b, k) \in Nat
<1>1. /\ Frames(b) \in Seq(Seq(Byte)) /\ Len(Frames(b)) = Len(b)
      /\ Lengths(b) \in Seq(Nat) /\ Len(Lengths(b)) = Len(b)
  BY FramesAre, LengthsAre, Zenon
<1>2. SubSeq(Frames(b), 1, k) \in Seq(Seq(Byte))
  BY <1>1, FirstOnes
<1>3. SubSeq(Lengths(b), 1, k) \in Seq(Nat)
  BY <1>1, FirstOnes
<1> QED
  BY <1>2, <1>3, FlattenIsSeq, TotalNat, Zenon DEF Encoded, Size

\* Each message takes its bytes and four more.
LEMMA EncodedLength ==
  ASSUME NEW b \in Batch
  PROVE  \A k \in 0..Len(b) : Len(Encoded(b, k)) = Size(b, k) + 4 * k
<1> DEFINE n == Len(b)
           T == {k \in 0..n : Len(Encoded(b, k)) = Size(b, k) + 4 * k}
<1>1. n \in Nat /\ \A i \in 1..n : b[i] \in Seq(Byte) /\ Len(b[i]) \in Nat
  BY BatchIs, Zenon
<1>2. 0 \in T
  <2>1. Len(Encoded(b, 0)) = 0 /\ Size(b, 0) = 0
    BY EncodedStarts
  <2> QED
    BY <1>1, <2>1
<1>3. ASSUME NEW k \in 1..n, k - 1 \in T PROVE k \in T
  <2> DEFINE p == Prefix(Len(b[k]))
             e == Encoded(b, k - 1)
  <2>1. /\ k - 1 \in 0..n /\ Encoded(b, k) = e \o (p \o b[k])
        /\ Size(b, k) = Size(b, k - 1) + Len(b[k]) /\ Len(e) = Size(b, k - 1) + 4 * (k - 1)
    BY <1>3, EncodedNext, Zenon
  <2>2. p \in Seq(Byte) /\ Len(p) = 4 /\ b[k] \in Seq(Byte) /\ Len(b[k]) \in Nat
    BY <1>1, PrefixIs, Zenon
  <2>3. e \in Seq(Byte) /\ Size(b, k - 1) \in Nat
    BY <2>1, EncodedIs, Zenon
  <2> HIDE DEF p, e
  <2>4. Len(e \o (p \o b[k])) = Len(e) + (4 + Len(b[k]))
    <3>1. \A x, y \in Seq(Byte) : x \o y \in Seq(Byte) /\ Len(x \o y) = Len(x) + Len(y)
      OBVIOUS
    <3>2. p \o b[k] \in Seq(Byte) /\ Len(p \o b[k]) = 4 + Len(b[k])
      BY <2>2, <3>1, Zenon
    <3> QED
      BY <2>3, <3>1, <3>2, Zenon
  <2>5. Len(Encoded(b, k)) = Size(b, k) + 4 * k
    <3>1. \A x, y \in Nat : x + 4 * (k - 1) + (4 + y) = x + y + 4 * k
      BY <1>1
    <3> QED
      BY <2>1, <2>2, <2>3, <2>4, <3>1, Zenon
  <2> QED
    BY <1>1, <2>5
<1> HIDE DEF T
<1>4. \A k \in 0..n : k \in T
  BY <1>1, <1>2, <1>3, Reaches, Zenon
<1> QED
  BY <1>4, Zenon DEF T

LEMMA SizeBelow ==
  ASSUME NEW b \in Batch, NEW k \in 0..Len(b)
  PROVE  Size(b, k) <= Bytes(b)
<1> DEFINE s == Lengths(b)
           a == SubSeq(s, 1, k)
           g == [i \in 1..k |-> i]
<1>1. s \in Seq(Nat) /\ Len(s) = Len(b) /\ Len(b) \in Nat
  BY LengthsAre, BatchIs, Zenon
<1>2. a \in Seq(Nat) /\ Len(a) = k /\ \A i \in 1..k : a[i] = s[i]
  <2> HIDE DEF s
  <2> QED
    BY <1>1, FirstOnes
<1>3. \A i \in 1..k : i \in 1..Len(b) /\ s[i] \in Nat /\ s[i] <= s[i]
  BY <1>1
<1> HIDE DEF s, a
<1>4. Below(a, s, g)
  BY <1>1, <1>2, <1>3, Zenon DEF Below
<1>5. Total(a) <= Total(s)
  <2> HIDE DEF g
  <2> QED
    BY <1>1, <1>2, <1>4, TotalBelow, Zenon
<1> QED
  BY <1>5, Zenon DEF a, s, Size, Bytes, Lengths
-----------------------------------------------------------------------------
\* ZeroCopy: parse_batch takes apart what process_batch writes.

Positions == [ok : BOOLEAN, offset : Nat, messages : Seq(Seq(Byte))]

Beginning == [ok |-> TRUE, offset |-> 0, messages |-> <<>>]

Parsing(data, f) ==
  f[0] = Beginning /\ \A i \in 1..Len(data) : f[i] = ParseRound(data, f[i - 1])

LEMMA RoundIs ==
  ASSUME NEW data \in Seq(Byte), NEW at \in Positions
  PROVE  ParseRound(data, at) \in Positions
<1>1. at.ok \in BOOLEAN /\ at.offset \in Nat /\ at.messages \in Seq(Seq(Byte))
  BY DEF Positions
<1>2. [ok |-> FALSE, offset |-> at.offset, messages |-> <<>>] \in Positions
  BY <1>1 DEF Positions
<1> DEFINE from == at.offset + 4
           end == from + LengthAt(data, at.offset)
<1>3. ASSUME ~(from > Len(data)), ~(end > Len(data))
      PROVE  [ok |-> TRUE, offset |-> end,
              messages |-> Append(at.messages, SubSeq(data, from + 1, end))] \in Positions
  <2>1. LengthAt(data, at.offset) \in Nat
    <3> DEFINE o == at.offset
               w == data[o + 1]
               x == data[o + 2]
               y == data[o + 3]
               z == data[o + 4]
    <3>1. o \in Nat /\ Len(data) \in Nat /\ o + 4 <= Len(data)
      BY <1>1, <1>3
    <3> HIDE DEF o
    <3>2. w \in Byte /\ x \in Byte /\ y \in Byte /\ z \in Byte
      <4>1. \A i \in 1..Len(data) : data[i] \in Byte
        OBVIOUS
      <4>2. /\ o + 1 \in 1..Len(data) /\ o + 2 \in 1..Len(data)
            /\ o + 3 \in 1..Len(data) /\ o + 4 \in 1..Len(data)
        BY <3>1
      <4> QED
        BY <4>1, <4>2, Zenon
    <3>3. LengthAt(data, at.offset) = 16777216 * w + 65536 * x + 256 * y + z
      BY SMT DEF LengthAt, o
    <3> HIDE DEF w, x, y, z
    <3> QED
      BY <3>2, <3>3, SMT DEF Byte
  <2>2. from \in Nat /\ end \in Nat /\ end <= Len(data)
    BY <1>1, <1>3, <2>1
  <2> HIDE DEF from, end
  <2>3. SubSeq(data, from + 1, end) \in Seq(Byte)
    BY <2>2
  <2>4. Append(at.messages, SubSeq(data, from + 1, end)) \in Seq(Seq(Byte))
    BY <1>1, <2>3
  <2> QED
    BY <2>2, <2>4 DEF Positions
<1> QED
  BY <1>2, <1>3, Zenon DEF ParseRound

\* parse_batch answers where its rounds end.
LEMMA ParseRuns ==
  ASSUME NEW data \in Seq(Byte)
  PROVE  \E f : /\ Parsing(data, f)
                /\ parse_batch(data) =
                     [ok |-> f[Len(data)].ok, messages |-> f[Len(data)].messages]
<1> DEFINE n == Len(data)
           g == [i \in 1..n |-> [x \in Positions |-> ParseRound(data, x)]]
           F(f) == [i \in 0..Len(data) |->
                      IF i = 0 THEN [ok |-> TRUE, offset |-> 0, messages |-> <<>>]
                      ELSE ParseRound(data, f[i - 1])]
<1>1. n \in Nat
  OBVIOUS
<1>2. Beginning \in Positions
  BY DEF Beginning, Positions
<1>3. \A x \in Positions : ParseRound(data, x) \in Positions
  BY RoundIs, Zenon
<1> HIDE DEF n
<1>4. PICK f : Loop(Positions, Beginning, n, g, f)
  <2>1. g \in [1..n -> [Positions -> Positions]]
    BY <1>3, Zenon
  <2> HIDE DEF g
  <2> QED
    BY <1>1, <1>2, <2>1, LoopRuns, Zenon
<1>5. f \in [0..n -> Positions] /\ f[0] = Beginning /\ \A i \in 1..n : f[i] = g[i][f[i - 1]]
  BY <1>4, Zenon DEF Loop
<1>6. 0 \in 0..n /\ \A i \in 1..n : i - 1 \in 0..n /\ i \in 0..n /\ i # 0
  BY <1>1
<1>7. \A i \in 0..n : i = 0 \/ i \in 1..n
  BY <1>1
<1>8. \A i \in 1..n : f[i] = ParseRound(data, f[i - 1])
  BY <1>5, <1>6, Zenon
<1>9. \A i \in 0..n : f[i] = IF i = 0 THEN Beginning ELSE ParseRound(data, f[i - 1])
  BY <1>5, <1>7, <1>8, Zenon
<1>10. f = F(f)
  BY <1>5, <1>9, Zenon DEF n, Beginning
<1> DEFINE h == CHOOSE h : h = F(h)
<1>11. h = F(h)
  <2> HIDE DEF F
  <2> QED
    BY <1>10, Zenon
<1>12. parse_batch(data) = [ok |-> h[n].ok, messages |-> h[n].messages]
  BY Zenon DEF parse_batch, n
<1> HIDE DEF h, g
<1>13. \A i \in 0..n : h[i] = IF i = 0 THEN Beginning ELSE ParseRound(data, h[i - 1])
  BY <1>11, Zenon DEF n, Beginning
<1>14. Parsing(data, h)
  BY <1>6, <1>13, Zenon DEF Parsing, n
<1> QED
  BY <1>12, <1>14, Zenon DEF n

\* z is a bytes x, and then b bytes y.
Concatenated(x, a, y, b, z) ==
  /\ z \in Seq(Byte) /\ Len(z) = a + b /\ a \in Nat /\ b \in Nat
  /\ \A i \in 1..a : z[i] = x[i]
  /\ \A i \in 1..b : z[a + i] = y[i]

LEMMA Concatenation ==
  ASSUME NEW x \in Seq(Byte), NEW y \in Seq(Byte), NEW z, z = x \o y,
         NEW a, a = Len(x), NEW b, b = Len(y)
  PROVE  Concatenated(x, a, y, b, z)
<1>1. x \o y \in Seq(Byte) /\ Len(x \o y) = Len(x) + Len(y) /\ Len(x) \in Nat /\ Len(y) \in Nat
  OBVIOUS
<1>2. \A i \in 1..Len(x) : (x \o y)[i] = x[i]
  OBVIOUS
<1>3. \A i \in 1..Len(y) : (x \o y)[Len(x) + i] = y[i]
  OBVIOUS
<1> QED
  BY <1>1, <1>2, <1>3, Zenon DEF Concatenated

\* s is l bytes of data, from place o on.
Sliced(data, o, l, s) ==
  s \in Seq(Byte) /\ Len(s) = l /\ \A i \in 1..l : s[i] = data[o + i]

LEMMA Slice ==
  ASSUME NEW data \in Seq(Byte), NEW o \in Nat, NEW l \in Nat, o + l <= Len(data),
         NEW s, s = SubSeq(data, o + 1, o + l)
  PROVE  Sliced(data, o, l, s)
<1>1. /\ SubSeq(data, o + 1, o + l) \in Seq(Byte) /\ Len(SubSeq(data, o + 1, o + l)) = l
      /\ \A i \in 1..l : SubSeq(data, o + 1, o + l)[i] = data[o + i]
  OBVIOUS
<1> QED
  BY <1>1, Zenon DEF Sliced

LEMMA SameBytes ==
  ASSUME NEW x \in Seq(Byte), NEW y \in Seq(Byte), Len(x) = Len(y),
         \A i \in 1..Len(y) : x[i] = y[i]
  PROVE  x = y
<1> DEFINE n == Len(y)
<1>1. x = [i \in 1..n |-> x[i]] /\ y = [i \in 1..n |-> y[i]]
  OBVIOUS
<1>2. \A i \in 1..n : x[i] = y[i]
  OBVIOUS
<1> HIDE DEF n
<1>3. [i \in 1..n |-> x[i]] = [i \in 1..n |-> y[i]]
  BY <1>2, Zenon
<1> QED
  BY <1>1, <1>3, Zenon

LEMMA RangeShifts ==
  ASSUME NEW n \in Nat, NEW k \in Nat
  PROVE  /\ \A i \in 1..n : k + i \in 1..(k + n)
         /\ \A i \in 1..k : i \in 1..(k + n)
  OBVIOUS

\* A frame with the message m at place o of the data, and r bytes after it.
Framed(data, o, p, m, r) ==
  /\ Len(data) = o + (4 + Len(m)) + r /\ o \in Nat /\ r \in Nat
  /\ \A i \in 1..4 : data[o + i] = p[i]
  /\ SubSeq(data, o + 4 + 1, o + 4 + Len(m)) = m

LEMMA FrameWithin ==
  ASSUME NEW e \in Seq(Byte), NEW p \in Seq(Byte), Len(p) = 4, NEW m \in Seq(Byte),
         NEW rest \in Seq(Byte), NEW data, data = (e \o (p \o m)) \o rest
  PROVE  Framed(data, Len(e), p, m, Len(rest))
<1> DEFINE pm == p \o m
           x == e \o pm
           o == Len(e)
           l == Len(m)
<1>1. /\ pm \in Seq(Byte) /\ Len(pm) = 4 + l /\ l \in Nat
      /\ \A i \in 1..4 : pm[i] = p[i]
      /\ \A i \in 1..l : pm[4 + i] = m[i]
  <2>1. Concatenated(p, 4, m, l, pm)
    BY Concatenation, Zenon
  <2> QED
    BY <2>1, Zenon DEF Concatenated
<1> HIDE DEF pm
<1>2. /\ x \in Seq(Byte) /\ Len(x) = o + (4 + l) /\ o \in Nat
      /\ \A i \in 1..(4 + l) : x[o + i] = pm[i]
  <2>1. Concatenated(e, o, pm, 4 + l, x)
    BY <1>1, Concatenation, Zenon
  <2> QED
    BY <2>1, Zenon DEF Concatenated
<1>3. data = x \o rest
  BY Zenon DEF pm
<1> HIDE DEF x
<1>4. /\ data \in Seq(Byte) /\ Len(data) = o + (4 + l) + Len(rest) /\ Len(rest) \in Nat
      /\ \A i \in 1..(o + (4 + l)) : data[i] = x[i]
  <2>1. Concatenated(x, o + (4 + l), rest, Len(rest), data)
    BY <1>2, <1>3, Concatenation, Zenon
  <2> QED
    BY <2>1, Zenon DEF Concatenated
<1> HIDE DEF o, l
<1>10. o \in Nat /\ l \in Nat /\ 4 \in Nat /\ 4 + l \in Nat /\ o + 4 \in Nat
  <2>1. o \in Nat /\ l \in Nat
    BY <1>1, <1>2, Zenon
  <2> QED
    BY <2>1
<1>5. \A i \in 1..(4 + l) : data[o + i] = pm[i]
  <2>1. \A i \in 1..(4 + l) : o + i \in 1..(o + (4 + l))
    BY <1>10, RangeShifts, Zenon
  <2> QED
    BY <1>2, <1>4, <2>1, Zenon
<1>6. \A i \in 1..4 : data[o + i] = p[i]
  <2>1. \A i \in 1..4 : i \in 1..(4 + l)
    BY <1>10, RangeShifts, Zenon
  <2> QED
    BY <1>1, <1>5, <2>1, Zenon
<1> DEFINE s == SubSeq(data, o + 4 + 1, o + 4 + l)
<1>7. /\ s \in Seq(Byte) /\ Len(s) = l
      /\ \A i \in 1..l : s[i] = data[o + (4 + i)]
  <2>1. o + 4 \in Nat /\ o + 4 + l <= Len(data) /\ \A i \in 1..l : o + 4 + i = o + (4 + i)
    <3>1. o + 4 + l <= o + (4 + l) + Len(rest) /\ \A i \in 1..l : o + 4 + i = o + (4 + i)
      <4>1. Len(rest) \in Nat
        BY <1>4, Zenon
      <4> QED
        BY <1>10, <4>1
    <3> QED
      BY <1>4, <1>10, <3>1, Zenon
  <2> DEFINE from == o + 4
  <2>2. Sliced(data, from, l, s)
    <3>1. from \in Nat /\ from + l <= Len(data) /\ s = SubSeq(data, from + 1, from + l)
      BY <2>1, Zenon
    <3> HIDE DEF from, s
    <3> QED
      BY <1>1, <1>4, <3>1, Slice, Zenon
  <2> HIDE DEF s
  <2> QED
    BY <2>1, <2>2, Zenon DEF Sliced
<1>8. \A i \in 1..l : s[i] = m[i]
  <2>1. \A i \in 1..l : 4 + i \in 1..(4 + l)
    BY <1>10, RangeShifts, Zenon
  <2> HIDE DEF s
  <2>2. \A i \in 1..l : pm[4 + i] = m[i] /\ data[o + (4 + i)] = pm[4 + i]
    BY <1>1, <1>5, <2>1, Zenon
  <2> QED
    BY <1>7, <2>2, Zenon
<1>9. s = m
  <2> HIDE DEF s
  <2> QED
    BY <1>7, <1>8, SameBytes, Zenon DEF l
<1> QED
  BY <1>2, <1>4, <1>6, <1>9, Zenon DEF Framed, o, l

\* A length of less than 2^32.
Short(n) == n \div 16777216 < 256

\* A u32 read from the four bytes of one.
LEMMA LengthRead ==
  ASSUME NEW n \in Nat, Short(n), NEW data, NEW o \in Nat,
         \A i \in 1..4 : data[o + i] = Prefix(n)[i]
  PROVE  LengthAt(data, o) = n
<1>1. /\ Prefix(n)[1] = (n \div 16777216) % 256 /\ Prefix(n)[2] = (n \div 65536) % 256
      /\ Prefix(n)[3] = (n \div 256) % 256 /\ Prefix(n)[4] = n % 256
  BY SMT DEF Prefix
<1>2. 1 \in 1..4 /\ 2 \in 1..4 /\ 3 \in 1..4 /\ 4 \in 1..4
  OBVIOUS
<1>3. /\ data[o + 1] = Prefix(n)[1] /\ data[o + 2] = Prefix(n)[2]
      /\ data[o + 3] = Prefix(n)[3] /\ data[o + 4] = Prefix(n)[4]
  BY <1>2, SMT
<1>4. n = 16777216 * ((n \div 16777216) % 256) + 65536 * ((n \div 65536) % 256)
          + 256 * ((n \div 256) % 256) + (n % 256)
  BY SMT DEF Short
<1> QED
  BY <1>1, <1>3, <1>4, SMT DEF LengthAt

\* The encoding of a batch begins with that of its first k messages.
LEMMA EncodedSplit ==
  ASSUME NEW b \in Batch, NEW k \in 0..Len(b)
  PROVE  \E rest \in Seq(Byte) : Encoded(b, Len(b)) = Encoded(b, k) \o rest
<1> DEFINE s == Frames(b)
           tail == SubSeq(s, k + 1, Len(s))
<1>1. s \in Seq(Seq(Byte)) /\ Len(s) = Len(b) /\ Len(b) \in Nat
  BY FramesAre, BatchIs, Zenon
<1>2. k \in 0..Len(s)
  BY <1>1, Zenon
<1> HIDE DEF s
<1>3. Flatten(s) = Flatten(SubSeq(s, 1, k)) \o Flatten(tail)
  BY <1>1, <1>2, FlattenSplit, Zenon
<1>4. tail \in Seq(Seq(Byte))
  BY <1>1, <1>2
<1> HIDE DEF tail
<1>5. Flatten(tail) \in Seq(Byte)
  BY <1>4, FlattenIsSeq, Zenon
<1>6. Encoded(b, Len(b)) = Flatten(s)
  BY EncodedStarts, Zenon DEF s
<1> QED
  BY <1>3, <1>5, <1>6, Zenon DEF Encoded, s

\* Where parse_batch is after k messages.
After(b, k) == [ok |-> TRUE, offset |-> Len(Encoded(b, k)), messages |-> SubSeq(b, 1, k)]

\* A round of parse_batch reads the next message.
LEMMA RoundReads ==
  ASSUME NEW b \in Batch, NEW k \in 1..Len(b), Short(Len(b[k]))
  PROVE  ParseRound(Encoded(b, Len(b)), After(b, k - 1)) = After(b, k)
<1> DEFINE data == Encoded(b, Len(b))
           e == Encoded(b, k - 1)
           p == Prefix(Len(b[k]))
           m == b[k]
           o == Len(e)
           l == Len(m)
           at == After(b, k - 1)
<1>1. Len(b) \in Nat /\ m \in Seq(Byte) /\ l \in Nat
  BY BatchIs, Zenon
<1>2. k - 1 \in 0..Len(b) /\ k \in 0..Len(b)
  BY <1>1
<1>3. e \in Seq(Byte) /\ p \in Seq(Byte) /\ Len(p) = 4
  BY <1>1, <1>2, EncodedIs, PrefixIs, Zenon
<1>4. Encoded(b, k) = e \o (p \o m)
  BY EncodedNext, Zenon
<1>5. PICK rest \in Seq(Byte) : data = (e \o (p \o m)) \o rest
  BY <1>2, <1>4, EncodedSplit, Zenon
<1>6. /\ Len(data) = o + (4 + l) + Len(rest)
      /\ \A i \in 1..4 : data[o + i] = p[i]
      /\ SubSeq(data, o + 4 + 1, o + 4 + l) = m
      /\ o \in Nat /\ Len(rest) \in Nat
  <2> HIDE DEF data, e, p, m
  <2>1. Framed(data, Len(e), p, m, Len(rest))
    BY <1>1, <1>3, <1>5, FrameWithin, Zenon
  <2> QED
    BY <2>1, Zenon DEF Framed
<1>8. LengthAt(data, o) = l
  <2> HIDE DEF data, o, m
  <2> QED
    BY <1>1, <1>6, LengthRead, Zenon DEF p, l, m
<1>9. Len(Encoded(b, k)) = o + 4 + l
  <2>1. /\ Len(Encoded(b, k)) = Size(b, k) + 4 * k /\ o = Size(b, k - 1) + 4 * (k - 1)
        /\ Size(b, k) = Size(b, k - 1) + l /\ Size(b, k - 1) \in Nat
    BY <1>2, EncodedLength, EncodedNext, EncodedIs, Zenon
  <2>2. \A x, y \in Nat : x + y + 4 * k = x + 4 * (k - 1) + 4 + y
    BY <1>1
  <2> HIDE DEF o, l
  <2> QED
    BY <1>1, <2>1, <2>2, Zenon
<1>10. SubSeq(b, 1, k) = Append(SubSeq(b, 1, k - 1), m)
  BY OneFurther, Zenon DEF Batch
<1>11. at.ok = TRUE /\ at.offset = o /\ at.messages = SubSeq(b, 1, k - 1)
  BY DEF After
<1>12. After(b, k) = [ok |-> TRUE, offset |-> o + 4 + l,
                      messages |-> Append(at.messages, SubSeq(data, o + 4 + 1, o + 4 + l))]
  BY <1>6, <1>9, <1>10, <1>11, Zenon DEF After
<1>13. ~(o >= Len(data)) /\ ~(o + 4 > Len(data)) /\ ~(o + 4 + l > Len(data))
  <2> DEFINE n == Len(data)
             r == Len(rest)
  <2>1. n = o + (4 + l) + r /\ o \in Nat /\ l \in Nat /\ r \in Nat
    BY <1>1, <1>6, Zenon
  <2>2. ~(o >= n) /\ ~(o + 4 > n) /\ ~(o + 4 + l > n)
    <3> HIDE DEF o, l, n, r
    <3> QED
      BY <2>1
  <2> QED
    BY <2>2, Zenon
<1> HIDE DEF data, o, l, at
<1> QED
  BY <1>8, <1>11, <1>12, <1>13, Zenon DEF ParseRound, data, at

\* parse_batch answers the batch that was encoded.
LEMMA RoundTrip ==
  ASSUME NEW b \in Batch, \A k \in 1..Len(b) : Short(Len(b[k]))
  PROVE  parse_batch(Encoded(b, Len(b))) = [ok |-> TRUE, messages |-> b]
<1> DEFINE n == Len(b)
           data == Encoded(b, n)
           l == Len(data)
<1>1. n \in Nat /\ n \in 0..n
  BY BatchIs
<1>2. data \in Seq(Byte)
  BY <1>1, EncodedIs, Zenon
<1>3. l \in Nat /\ n <= l
  <2>1. l = Size(b, n) + 4 * n /\ Size(b, n) \in Nat
    BY <1>1, EncodedLength, EncodedIs, Zenon
  <2> HIDE DEF l, n
  <2> QED
    BY <1>1, <2>1
<1>4. PICK f : /\ Parsing(data, f)
               /\ parse_batch(data) = [ok |-> f[l].ok, messages |-> f[l].messages]
  <2> HIDE DEF data
  <2> QED
    BY <1>2, ParseRuns, Zenon
<1>5. f[0] = Beginning /\ \A i \in 1..l : f[i] = ParseRound(data, f[i - 1])
  BY <1>4, Zenon DEF Parsing
<1> DEFINE T == {i \in 0..l : f[i] = After(b, IF i <= n THEN i ELSE n)}
<1>6. 0 \in T
  <2>1. Encoded(b, 0) = <<>> /\ SubSeq(b, 1, 0) = <<>>
    BY EncodedStarts, NoneAtAll, Zenon DEF Batch
  <2>2. Len(<<>>) = 0 /\ 0 \in 0..l /\ 0 <= n
    BY <1>1, <1>3
  <2>3. After(b, 0) = Beginning
    BY <2>1, <2>2, Zenon DEF After, Beginning
  <2> HIDE DEF l, n
  <2> QED
    BY <1>5, <2>2, <2>3, Zenon
<1>7. ASSUME NEW i \in 1..l, i - 1 \in T PROVE i \in T
  <2>1. CASE i <= n
    <3>1. i \in 1..n /\ i - 1 <= n /\ i \in 0..l
      BY <1>1, <1>3, <2>1
    <3>2. f[i - 1] = After(b, i - 1)
      BY <1>7, <3>1, Zenon
    <3>3. ParseRound(data, After(b, i - 1)) = After(b, i)
      BY <3>1, RoundReads, Zenon
    <3> HIDE DEF data, l, n
    <3> QED
      BY <1>5, <2>1, <3>1, <3>2, <3>3, Zenon
  <2>2. CASE ~(i <= n)
    <3>1. n <= i - 1 /\ i \in 0..l /\ (i - 1 <= n => i - 1 = n)
      BY <1>1, <1>3, <2>2
    <3>2. f[i - 1] = After(b, n)
      BY <1>7, <3>1, Zenon
    <3>3. After(b, n).offset = l
      BY DEF After
    <3>4. l >= l
      BY <1>3
    <3>5. ParseRound(data, After(b, n)) = After(b, n)
      BY <3>3, <3>4, Zenon DEF ParseRound
    <3> HIDE DEF data, l, n
    <3> QED
      BY <1>5, <2>2, <3>1, <3>2, <3>5, Zenon
  <2> QED
    BY <2>1, <2>2, Zenon
<1>8. l \in T
  <2>1. l \in 0..l
    BY <1>3
  <2> HIDE DEF T, l
  <2> QED
    BY <1>3, <1>6, <1>7, <2>1, Reaches, Zenon
<1>9. f[l] = After(b, n)
  <2>1. l <= n => l = n
    BY <1>1, <1>3
  <2> HIDE DEF l, n
  <2> QED
    BY <1>8, <2>1, Zenon
<1>10. SubSeq(b, 1, n) = b
  BY AllOfThem, Zenon DEF Batch
<1>11. f[l].ok = TRUE /\ f[l].messages = b
  BY <1>9, <1>10 DEF After
<1> HIDE DEF l
<1> QED
  BY <1>4, <1>11, Zenon
-----------------------------------------------------------------------------
\* ZeroCopy: the inductive invariant of process_batch.

\* How far a call is that nothing disturbs.
Underway(t) ==
  LET b == batch[t]
      k == next[t]
  IN  /\ pc[t] = "input" => k \in 1..(Len(b) + 1) /\ input_buffer = Size(b, k - 1)
      /\ pc[t] = "length" => /\ k \in 1..(Len(b) + 1)
                             /\ output_buffer = Encoded(b, k - 1)
                             /\ Len(output_buffer) <= max_size
      /\ pc[t] = "message" => /\ k \in 1..Len(b)
                              /\ output_buffer = Encoded(b, k - 1) \o Prefix(Len(b[k]))
                              /\ Len(output_buffer) <= max_size

TooLarge(b) == Len(b) > batch_size \/ Bytes(b) + 4 * Len(b) > max_size

\* What such a call answers.
Done(t) ==
  LET b == batch[t]
  IN  IF result[t].ok
      THEN result[t].bytes = Encoded(b, Len(b)) /\ Len(result[t].bytes) <= max_size
      ELSE TooLarge(b)

ZTypes ==
  /\ pc \in [Task -> {"idle", "input", "length", "message"}]
  /\ batch \in [Task -> Batches \cup {NoBatch}]
  /\ DOMAIN next = Task /\ DOMAIN result = Task /\ DOMAIN alone = Task

ZInv ==
  /\ ZTypes
  /\ \A t \in Task : pc[t] # "idle" => batch[t] \in Batches
  /\ \A t \in Task : alone[t] /\ pc[t] # "idle" =>
       Underway(t) /\ \A u \in Task : u # t => pc[u] = "idle"
  /\ \A t \in Task : alone[t] /\ pc[t] = "idle" /\ batch[t] # NoBatch => Done(t)

LEMMA BatchesAre ==
  /\ \A b \in Batches : b \in Batch /\ Len(b) \in Nat /\ b # NoBatch
  /\ batch_size \in Nat /\ max_size \in Nat
<1>1. \A b \in Batches : b \in Batch /\ b # NoBatch
  BY ZeroCopyAssumption, SMT DEF Batch
<1>2. batch_size \in Nat /\ max_size \in Nat
  BY ZeroCopyAssumption, SMT
<1> QED
  BY <1>1, <1>2, BatchIs, Zenon

LEMMA ShortEnough == ASSUME NEW n \in Nat, n <= max_size PROVE Short(n)
  BY ZeroCopyAssumption, SMT DEF Short

LEMMA ZInvInit == ZInit => ZInv
  BY Zenon DEF ZInit, ZInv, ZTypes

\* A step of task t within its call changes only what is its own.
Own(t) ==
  /\ batch' = batch /\ alone' = alone
  /\ pc' \in [Task -> {"idle", "input", "length", "message"}]
  /\ DOMAIN next' = Task /\ DOMAIN result' = Task
  /\ \A u \in Task : u # t => pc'[u] = pc[u] /\ result'[u] = result[u]

LEMMA OwnStep ==
  ASSUME ZInv, NEW t \in Task, pc[t] # "idle", Own(t),
         alone[t] => IF pc'[t] = "idle" THEN Done(t)' ELSE Underway(t)'
  PROVE  ZInv'
<1>1. /\ ZTypes
      /\ \A u \in Task : pc[u] # "idle" => batch[u] \in Batches
      /\ \A u \in Task : alone[u] /\ pc[u] # "idle" =>
           Underway(u) /\ \A v \in Task : v # u => pc[v] = "idle"
      /\ \A u \in Task : alone[u] /\ pc[u] = "idle" /\ batch[u] # NoBatch => Done(u)
  BY Zenon DEF ZInv
<1>2. ZTypes'
  BY <1>1, Zenon DEF ZTypes, Own
<1>3. /\ batch' = batch /\ alone' = alone
      /\ \A u \in Task : u # t => pc'[u] = pc[u] /\ result'[u] = result[u]
  BY Zenon DEF Own
<1>4. \A u \in Task : pc'[u] # "idle" => batch'[u] \in Batches
  BY <1>1, <1>3, Zenon
<1>5. ASSUME NEW u \in Task, alone'[u], pc'[u] # "idle"
      PROVE  Underway(u)' /\ \A v \in Task : v # u => pc'[v] = "idle"
  <2>1. u = t
    BY <1>1, <1>3, <1>5, Zenon
  <2> QED
    BY <1>1, <1>3, <1>5, <2>1, Zenon
<1>6. ASSUME NEW u \in Task, alone'[u], pc'[u] = "idle", batch'[u] # NoBatch
      PROVE  Done(u)'
  <2>1. CASE u = t
    BY <1>3, <1>6, <2>1, Zenon
  <2>2. CASE u # t
    <3>1. Done(u)
      BY <1>1, <1>3, <1>6, <2>2, Zenon
    <3>2. batch'[u] = batch[u] /\ result'[u] = result[u]
      BY <1>3, <2>2, Zenon
    <3> QED
      BY <3>1, <3>2, Zenon DEF Done, TooLarge
  <2> QED
    BY <2>1, <2>2, Zenon
<1> QED
  BY <1>2, <1>4, <1>5, <1>6, Zenon DEF ZInv

\* What a step of a call that nothing disturbs knows.
LEMMA AtWork ==
  ASSUME ZInv, NEW t \in Task, pc[t] # "idle"
  PROVE  /\ batch[t] \in Batches /\ batch[t] \in Batch /\ Len(batch[t]) \in Nat
         /\ alone[t] => Underway(t)
         /\ DOMAIN pc = Task /\ DOMAIN next = Task /\ DOMAIN result = Task
<1>1. batch[t] \in Batches /\ (alone[t] => Underway(t))
  BY Zenon DEF ZInv
<1>2. DOMAIN pc = Task /\ DOMAIN next = Task /\ DOMAIN result = Task
  BY DEF ZInv, ZTypes
<1> QED
  BY <1>1, <1>2, BatchesAre, Zenon

\* Where the task goes, and what it answers if it ends.
LEMMA OwnIs ==
  ASSUME ZInv, NEW t \in Task, NEW l \in {"idle", "input", "length", "message"},
         pc' = [pc EXCEPT ![t] = l],
         batch' = batch, alone' = alone, DOMAIN next' = Task,
         (\E r : result' = [result EXCEPT ![t] = r]) \/ result' = result
  PROVE  Own(t) /\ pc'[t] = l
<1>1. /\ pc \in [Task -> {"idle", "input", "length", "message"}] /\ DOMAIN result = Task
  BY Zenon DEF ZInv, ZTypes
<1>2. pc' \in [Task -> {"idle", "input", "length", "message"}] /\ pc'[t] = l
  BY <1>1
<1>3. \A u \in Task : u # t => pc'[u] = pc[u]
  BY <1>1
<1>4. DOMAIN result' = Task /\ \A u \in Task : u # t => result'[u] = result[u]
  BY <1>1
<1> QED
  BY <1>2, <1>3, <1>4, Zenon DEF Own

LEMMA Failing ==
  ASSUME ZInv, NEW t \in Task, pc[t] # "idle", Return(t, Err),
         batch' = batch, alone' = alone, next' = next, alone[t] => TooLarge(batch[t])
  PROVE  ZInv'
<1>1. DOMAIN result = Task /\ DOMAIN next = Task
  BY AtWork, Zenon
<1>2. pc' = [pc EXCEPT ![t] = "idle"] /\ result' = [result EXCEPT ![t] = Err]
  BY Zenon DEF Return, Goto
<1>3. Own(t) /\ pc'[t] = "idle"
  BY <1>1, <1>2, OwnIs, Zenon
<1>4. result'[t] = Err
  BY <1>1, <1>2, Zenon
<1>5. ~Err.ok
  BY DEF Err
<1>6. alone[t] => Done(t)'
  BY <1>4, <1>5, Zenon DEF Done, TooLarge
<1> QED
  BY <1>3, <1>6, OwnStep, Zenon

\* What is written up to message k is not more than what the batch needs.
LEMMA Needed ==
  ASSUME NEW b \in Batch, NEW k \in 1..Len(b)
  PROVE  LET s == Size(b, k - 1)
             o == Len(Encoded(b, k - 1))
             m == Len(b[k])
             all == Bytes(b) + 4 * Len(b)
         IN  /\ s \in Nat /\ o \in Nat /\ m \in Nat /\ all \in Nat
             /\ s + m <= all /\ o + 4 <= all /\ o + 4 + m <= all
<1> DEFINE s == Size(b, k - 1)
           o == Len(Encoded(b, k - 1))
           m == Len(b[k])
           z == Bytes(b)
           n == Len(b)
<1>1. n \in Nat /\ m \in Nat
  BY BatchIs, Zenon
<1>2. k - 1 \in 0..n /\ k \in 0..n
  BY <1>1
<1>3. /\ Size(b, k) = s + m /\ s \in Nat /\ Size(b, k) <= z /\ o = s + 4 * (k - 1)
  BY <1>2, EncodedNext, EncodedIs, EncodedLength, SizeBelow, Zenon
<1>4. z \in Nat
  <2>1. n \in 0..n
    BY <1>1
  <2> QED
    BY <2>1, EncodedIs, EncodedStarts, Zenon
<1> HIDE DEF s, o, m, z, n
<1>5. s + m <= z
  BY <1>3, Zenon
<1>6. k \in Nat /\ k <= n /\ k > 0
  BY <1>1 DEF n
<1>7. o = s + 4 * (k - 1)
  BY <1>3, Zenon
<1>8. /\ s \in Nat /\ o \in Nat /\ m \in Nat /\ z + 4 * n \in Nat
      /\ s + m <= z + 4 * n /\ o + 4 <= z + 4 * n /\ o + 4 + m <= z + 4 * n
  BY <1>1, <1>3, <1>4, <1>5, <1>6, <1>7
<1> QED
  BY <1>8, Zenon DEF s, o, m, z, n

\* A batch of which message k does not fit is too large.
LEMMA NoRoom ==
  ASSUME NEW b \in Batch, NEW k \in 1..Len(b),
         \/ Size(b, k - 1) + Len(b[k]) > max_size
         \/ Len(Encoded(b, k - 1)) + 4 > max_size
         \/ Len(Encoded(b, k - 1)) + 4 + Len(b[k]) > max_size
  PROVE  TooLarge(b)
<1> DEFINE s == Size(b, k - 1)
           o == Len(Encoded(b, k - 1))
           m == Len(b[k])
           all == Bytes(b) + 4 * Len(b)
<1>1. /\ s \in Nat /\ o \in Nat /\ m \in Nat /\ all \in Nat
      /\ s + m <= all /\ o + 4 <= all /\ o + 4 + m <= all
  BY Needed, Zenon
<1>2. s + m > max_size \/ o + 4 > max_size \/ o + 4 + m > max_size
  BY Zenon
<1>3. max_size \in Nat
  BY BatchesAre, Zenon
<1> HIDE DEF s, o, m, all
<1>4. all > max_size
  BY <1>1, <1>2, <1>3
<1> QED
  BY <1>4, Zenon DEF TooLarge, all

LEMMA ZInvFillInput ==
  ASSUME ZInv, NEW t \in Task, FillInput(t)
  PROVE  ZInv'
<1> DEFINE b == batch[t]
           k == next[t]
           n == Len(batch[t][next[t]])
<1>1. /\ pc[t] = "input" /\ k <= Len(b) /\ batch' = batch /\ alone' = alone
      /\ IF Fits(input_buffer, n)
         THEN /\ input_buffer' = input_buffer + n
              /\ next' = [next EXCEPT ![t] = @ + 1]
              /\ UNCHANGED <<pc, result>>
         ELSE Return(t, Err) /\ UNCHANGED <<input_buffer, next>>
  BY Zenon DEF FillInput
<1>2. pc[t] # "idle"
  BY <1>1
<1>3. /\ b \in Batch /\ Len(b) \in Nat /\ (alone[t] => Underway(t))
      /\ DOMAIN pc = Task /\ DOMAIN next = Task /\ DOMAIN result = Task
  BY <1>2, AtWork, Zenon
<1>4. alone[t] => k \in 1..(Len(b) + 1) /\ input_buffer = Size(b, k - 1)
  BY <1>1, <1>3, Zenon DEF Underway
<1>5. alone[t] => k \in 1..Len(b)
  <2> HIDE DEF b, k
  <2> QED
    BY <1>1, <1>3, <1>4
<1>6. CASE Fits(input_buffer, n)
  <2>1. /\ input_buffer' = input_buffer + n /\ next' = [next EXCEPT ![t] = @ + 1]
        /\ pc' = pc /\ result' = result
    BY <1>1, <1>6, Zenon
  <2>2. pc' = [pc EXCEPT ![t] = "input"]
    <3>1. pc \in [Task -> {"idle", "input", "length", "message"}]
      BY Zenon DEF ZInv, ZTypes
    <3> QED
      BY <1>1, <2>1, <3>1
  <2>3. DOMAIN next' = Task /\ next'[t] = k + 1
    BY <1>3, <2>1
  <2>4. Own(t) /\ pc'[t] = "input"
    BY <1>1, <2>1, <2>2, <2>3, OwnIs, Zenon
  <2>5. ASSUME alone[t] PROVE Underway(t)'
    <3>1. Size(b, k) = Size(b, k - 1) + n
      BY <1>3, <1>5, <2>5, EncodedNext, Zenon
    <3>2. k + 1 \in 1..(Len(b) + 1)
      <4> HIDE DEF b, k
      <4> QED
        BY <1>3, <1>5, <2>5
    <3>3. input_buffer' = Size(b, k)
      BY <1>4, <2>1, <2>5, <3>1, Zenon
    <3>4. batch'[t] = b /\ next'[t] = k + 1 /\ pc'[t] # "length" /\ pc'[t] # "message"
      BY <1>1, <2>3, <2>4
    <3> HIDE DEF b, k, n
    <3>5. next'[t] \in 1..(Len(batch'[t]) + 1) /\ input_buffer' = Size(batch'[t], next'[t] - 1)
      <4>1. next'[t] - 1 = k
        BY <1>3, <1>5, <2>5, <3>4
      <4> QED
        BY <3>2, <3>3, <3>4, <4>1, Zenon
    <3> QED
      BY <3>4, <3>5, Zenon DEF Underway
  <2>6. pc'[t] # "idle"
    BY <2>4
  <2> QED
    BY <1>2, <2>4, <2>5, <2>6, OwnStep, Zenon
<1>7. CASE ~Fits(input_buffer, n)
  <2>1. Return(t, Err) /\ next' = next
    BY <1>1, <1>7, Zenon
  <2>2. ASSUME alone[t] PROVE TooLarge(b)
    <3>1. ~(Size(b, k - 1) + n <= max_size)
      BY <1>4, <1>7, <2>2, Zenon DEF Fits
    <3>2. Size(b, k - 1) \in Nat /\ n \in Nat /\ max_size \in Nat
      BY <1>3, <1>5, <2>2, Needed, BatchesAre, Zenon
    <3>3. Size(b, k - 1) + n > max_size
      <4> DEFINE s == Size(b, k - 1)
      <4> HIDE DEF s, n
      <4> QED
        BY <3>1, <3>2
    <3> QED
      BY <1>3, <1>5, <2>2, <3>3, NoRoom, Zenon
  <2> QED
    BY <1>1, <1>2, <2>1, <2>2, Failing, Zenon
<1> QED
  BY <1>6, <1>7, Zenon

LEMMA ZInvClearOutput ==
  ASSUME ZInv, NEW t \in Task, ClearOutput(t)
  PROVE  ZInv'
<1> DEFINE b == batch[t]
<1>1. /\ pc[t] = "input" /\ batch' = batch /\ alone' = alone /\ result' = result
      /\ output_buffer' = <<>> /\ next' = [next EXCEPT ![t] = 1]
      /\ pc' = [pc EXCEPT ![t] = "length"]
  BY Zenon DEF ClearOutput, Goto
<1>2. pc[t] # "idle"
  BY <1>1
<1>3. b \in Batch /\ Len(b) \in Nat /\ DOMAIN next = Task
  BY <1>2, AtWork, Zenon
<1>4. DOMAIN next' = Task /\ next'[t] = 1
  BY <1>1, <1>3, Zenon
<1>5. Own(t) /\ pc'[t] = "length"
  BY <1>1, <1>4, OwnIs, Zenon
<1>6. Underway(t)'
  <2>1. batch'[t] = b /\ pc'[t] # "input" /\ pc'[t] # "message"
    BY <1>1, <1>5
  <2>2. Encoded(b, 0) = <<>>
    BY <1>3, EncodedStarts, Zenon
  <2>3. max_size \in Nat /\ Len(<<>>) = 0
    BY BatchesAre
  <2> HIDE DEF b
  <2>4. 1 \in 1..(Len(b) + 1) /\ next'[t] - 1 = 0 /\ Len(output_buffer') <= max_size
    BY <1>1, <1>3, <1>4, <2>3
  <2>5. next'[t] \in 1..(Len(batch'[t]) + 1) /\ output_buffer' = Encoded(batch'[t], next'[t] - 1)
    BY <1>1, <1>4, <2>1, <2>2, <2>4, Zenon
  <2> QED
    BY <2>1, <2>4, <2>5, Zenon DEF Underway
<1>7. pc'[t] # "idle"
  BY <1>5
<1> QED
  BY <1>2, <1>5, <1>6, <1>7, OwnStep, Zenon

LEMMA ZInvAppendLength ==
  ASSUME ZInv, NEW t \in Task, AppendLength(t)
  PROVE  ZInv'
<1> DEFINE b == batch[t]
           k == next[t]
           p == Prefix(Len(batch[t][next[t]]))
<1>1. /\ pc[t] = "length" /\ k <= Len(b) /\ batch' = batch /\ alone' = alone
      /\ IF Fits(Len(output_buffer), Len(p))
         THEN /\ output_buffer' = output_buffer \o p
              /\ next' = [next EXCEPT ![t] = k]
              /\ pc' = [pc EXCEPT ![t] = "message"]
              /\ result' = result
         ELSE Return(t, Err) /\ UNCHANGED <<output_buffer, next>>
  BY Zenon DEF AppendLength, AppendOutput, Goto
<1>2. pc[t] # "idle"
  BY <1>1
<1>3. /\ b \in Batch /\ Len(b) \in Nat /\ (alone[t] => Underway(t))
      /\ DOMAIN next = Task
  BY <1>2, AtWork, Zenon
<1>4. alone[t] => k \in 1..(Len(b) + 1) /\ output_buffer = Encoded(b, k - 1)
  BY <1>1, <1>3, Zenon DEF Underway
<1>5. alone[t] => k \in 1..Len(b)
  <2> HIDE DEF b, k
  <2> QED
    BY <1>1, <1>3, <1>4
<1>6. alone[t] => Len(p) = 4 /\ p \in Seq(Byte) /\ output_buffer \in Seq(Byte)
  <2>1. k \in 1..Len(b) => k - 1 \in 0..Len(b) /\ Len(b[k]) \in Nat
    BY <1>3, EncodedNext, BatchIs, Zenon
  <2> QED
    BY <1>3, <1>4, <1>5, <2>1, PrefixIs, EncodedIs, Zenon
<1>7. CASE Fits(Len(output_buffer), Len(p))
  <2>1. /\ output_buffer' = output_buffer \o p /\ next' = [next EXCEPT ![t] = k]
        /\ pc' = [pc EXCEPT ![t] = "message"] /\ result' = result
    BY <1>1, <1>7, Zenon
  <2>2. DOMAIN next' = Task /\ next'[t] = k
    BY <1>3, <2>1, Zenon
  <2>3. Own(t) /\ pc'[t] = "message"
    BY <1>1, <2>1, <2>2, OwnIs, Zenon
  <2>4. ASSUME alone[t] PROVE Underway(t)'
    <3>1. batch'[t] = b /\ next'[t] = k /\ pc'[t] # "input" /\ pc'[t] # "length"
      BY <1>1, <2>2, <2>3
    <3>2. Len(output_buffer') <= max_size
      <4>1. Len(output_buffer \o p) = Len(output_buffer) + Len(p)
        <5> HIDE DEF p
        <5> QED
          BY <1>6, <2>4
      <4> QED
        BY <1>7, <2>1, <4>1, Zenon DEF Fits
    <3>3. output_buffer' = Encoded(b, k - 1) \o Prefix(Len(b[k]))
      BY <1>4, <2>1, <2>4, Zenon
    <3> HIDE DEF b, k, p
    <3> QED
      BY <1>5, <2>4, <3>1, <3>2, <3>3, Zenon DEF Underway
  <2>5. pc'[t] # "idle"
    BY <2>3
  <2> QED
    BY <1>2, <2>3, <2>4, <2>5, OwnStep, Zenon
<1>8. CASE ~Fits(Len(output_buffer), Len(p))
  <2>1. Return(t, Err) /\ next' = next
    BY <1>1, <1>8, Zenon
  <2>2. ASSUME alone[t] PROVE TooLarge(b)
    <3> DEFINE o == Len(Encoded(b, k - 1))
    <3>1. ~(o + 4 <= max_size)
      BY <1>4, <1>6, <1>8, <2>2, Zenon DEF Fits
    <3>2. o \in Nat /\ max_size \in Nat
      BY <1>3, <1>5, <2>2, Needed, BatchesAre, Zenon
    <3>3. o + 4 > max_size
      <4> HIDE DEF o
      <4> QED
        BY <3>1, <3>2
    <3> QED
      BY <1>3, <1>5, <2>2, <3>3, NoRoom, Zenon
  <2> QED
    BY <1>1, <1>2, <2>1, <2>2, Failing, Zenon
<1> QED
  BY <1>7, <1>8, Zenon

LEMMA ZInvAppendMessage ==
  ASSUME ZInv, NEW t \in Task, AppendMessage(t)
  PROVE  ZInv'
<1> DEFINE b == batch[t]
           k == next[t]
           m == batch[t][next[t]]
           p == Prefix(Len(b[k]))
           e == Encoded(b, k - 1)
<1>1. /\ pc[t] = "message" /\ batch' = batch /\ alone' = alone
      /\ IF Fits(Len(output_buffer), Len(m))
         THEN /\ output_buffer' = output_buffer \o m
              /\ next' = [next EXCEPT ![t] = k + 1]
              /\ pc' = [pc EXCEPT ![t] = "length"]
              /\ result' = result
         ELSE Return(t, Err) /\ UNCHANGED <<output_buffer, next>>
  BY Zenon DEF AppendMessage, AppendOutput, Goto
<1>2. pc[t] # "idle"
  BY <1>1
<1>3. /\ b \in Batch /\ Len(b) \in Nat /\ (alone[t] => Underway(t))
      /\ DOMAIN next = Task
  BY <1>2, AtWork, Zenon
<1>4. alone[t] => k \in 1..Len(b) /\ output_buffer = e \o p
  BY <1>1, <1>3, Zenon DEF Underway
<1>5. alone[t] => /\ e \in Seq(Byte) /\ p \in Seq(Byte) /\ Len(p) = 4 /\ m \in Seq(Byte)
                  /\ Encoded(b, k) = e \o (p \o m)
  <2>1. k \in 1..Len(b) => k - 1 \in 0..Len(b) /\ Len(m) \in Nat /\ m \in Seq(Byte)
    BY <1>3, EncodedNext, BatchIs, Zenon
  <2> QED
    BY <1>3, <1>4, <2>1, PrefixIs, EncodedIs, EncodedNext, Zenon
<1>6. alone[t] => /\ (e \o p) \o m = Encoded(b, k)
                  /\ Len(e \o p) = Len(e) + 4 /\ Len((e \o p) \o m) = Len(e \o p) + Len(m)
  <2> SUFFICES ASSUME alone[t]
               PROVE  /\ (e \o p) \o m = Encoded(b, k)
                      /\ Len(e \o p) = Len(e) + 4
                      /\ Len((e \o p) \o m) = Len(e \o p) + Len(m)
    BY Zenon
  <2>1. /\ e \in Seq(Byte) /\ p \in Seq(Byte) /\ Len(p) = 4 /\ m \in Seq(Byte)
        /\ Encoded(b, k) = e \o (p \o m)
    BY <1>5, Zenon
  <2>2. \A x, y \in Seq(Byte) : x \o y \in Seq(Byte) /\ Len(x \o y) = Len(x) + Len(y)
    OBVIOUS
  <2> HIDE DEF e, p, m
  <2>3. e \o p \in Seq(Byte) /\ Len(e \o p) = Len(e) + 4
    <3>1. Len(e \o p) = Len(e) + Len(p)
      BY <2>1, <2>2, Zenon
    <3> QED
      BY <2>1, <2>2, <3>1, Zenon
  <2>4. (e \o p) \o m = e \o (p \o m)
    <3>1. Associative(Seq(Byte))
      BY ListsAssociative, Zenon
    <3> QED
      BY <2>1, <3>1, Zenon DEF Associative
  <2> QED
    BY <2>1, <2>2, <2>3, <2>4, Zenon
<1>7. CASE Fits(Len(output_buffer), Len(m))
  <2>1. /\ output_buffer' = output_buffer \o m /\ next' = [next EXCEPT ![t] = k + 1]
        /\ pc' = [pc EXCEPT ![t] = "length"] /\ result' = result
    BY <1>1, <1>7, Zenon
  <2>2. DOMAIN next' = Task /\ next'[t] = k + 1
    BY <1>3, <2>1, Zenon
  <2>3. Own(t) /\ pc'[t] = "length"
    BY <1>1, <2>1, <2>2, OwnIs, Zenon
  <2>4. ASSUME alone[t] PROVE Underway(t)'
    <3>1. batch'[t] = b /\ next'[t] = k + 1 /\ pc'[t] # "input" /\ pc'[t] # "message"
      BY <1>1, <2>2, <2>3
    <3>2. output_buffer' = Encoded(b, k) /\ Len(output_buffer') <= max_size
      BY <1>4, <1>6, <1>7, <2>1, <2>4, Zenon DEF Fits
    <3> HIDE DEF b, k, p, e, m
    <3>3. k + 1 \in 1..(Len(b) + 1) /\ next'[t] - 1 = k
      BY <1>3, <1>4, <2>4, <3>1
    <3>4. next'[t] \in 1..(Len(batch'[t]) + 1) /\ output_buffer' = Encoded(batch'[t], next'[t] - 1)
      BY <3>1, <3>2, <3>3, Zenon
    <3> QED
      BY <3>1, <3>2, <3>4, Zenon DEF Underway
  <2>5. pc'[t] # "idle"
    BY <2>3
  <2> QED
    BY <1>2, <2>3, <2>4, <2>5, OwnStep, Zenon
<1>8. CASE ~Fits(Len(output_buffer), Len(m))
  <2>1. Return(t, Err) /\ next' = next
    BY <1>1, <1>8, Zenon
  <2>2. ASSUME alone[t] PROVE TooLarge(b)
    <3> DEFINE o == Len(Encoded(b, k - 1))
               l == Len(m)
    <3>1. ~(o + 4 + l <= max_size)
      BY <1>4, <1>6, <1>8, <2>2, Zenon DEF Fits
    <3>2. o \in Nat /\ l \in Nat /\ max_size \in Nat
      BY <1>3, <1>4, <2>2, Needed, BatchesAre, Zenon
    <3>3. o + 4 + l > max_size
      <4> HIDE DEF o, l
      <4> QED
        BY <3>1, <3>2
    <3> QED
      BY <1>3, <1>4, <2>2, <3>3, NoRoom, Zenon
  <2> QED
    BY <1>1, <1>2, <2>1, <2>2, Failing, Zenon
<1> QED
  BY <1>7, <1>8, Zenon

LEMMA ZInvGetBytes ==
  ASSUME ZInv, NEW t \in Task, GetBytes(t)
  PROVE  ZInv'
<1> DEFINE b == batch[t]
           k == next[t]
           r == [ok |-> TRUE, bytes |-> output_buffer]
<1>1. /\ pc[t] = "length" /\ k > Len(b) /\ batch' = batch /\ alone' = alone /\ next' = next
      /\ pc' = [pc EXCEPT ![t] = "idle"] /\ result' = [result EXCEPT ![t] = r]
  BY Zenon DEF GetBytes, Return, Goto
<1>2. pc[t] # "idle"
  BY <1>1
<1>3. /\ b \in Batch /\ Len(b) \in Nat /\ (alone[t] => Underway(t))
      /\ DOMAIN next = Task /\ DOMAIN result = Task
  BY <1>2, AtWork, Zenon
<1>4. Own(t) /\ pc'[t] = "idle"
  BY <1>1, <1>3, OwnIs, Zenon
<1>5. ASSUME alone[t] PROVE Done(t)'
  <2>1. /\ k \in 1..(Len(b) + 1) /\ output_buffer = Encoded(b, k - 1)
        /\ Len(output_buffer) <= max_size
    BY <1>1, <1>3, <1>5, Zenon DEF Underway
  <2>2. k - 1 = Len(b)
    <3> HIDE DEF b, k
    <3> QED
      BY <1>1, <1>3, <2>1
  <2>3. output_buffer = Encoded(b, Len(b))
    <3> HIDE DEF b, k
    <3> QED
      BY <2>1, <2>2, Zenon
  <2>4. result'[t] = r /\ r.ok = TRUE /\ r.bytes = output_buffer /\ batch'[t] = b
    BY <1>1, <1>3
  <2> HIDE DEF b, r
  <2>5. result'[t].ok /\ result'[t].bytes = Encoded(batch'[t], Len(batch'[t]))
    BY <2>3, <2>4, Zenon
  <2> QED
    BY <2>1, <2>4, <2>5, Zenon DEF Done
<1> QED
  BY <1>2, <1>4, <1>5, OwnStep, Zenon

LEMMA ZInvProcess ==
  ASSUME ZInv, NEW t \in Task, NEW b \in Batches, process_batch(t, b)
  PROVE  ZInv'
<1>1. /\ ZTypes
      /\ \A u \in Task : pc[u] # "idle" => batch[u] \in Batches
      /\ \A u \in Task : alone[u] /\ pc[u] = "idle" /\ batch[u] # NoBatch => Done(u)
  BY Zenon DEF ZInv
<1>2. /\ pc[t] = "idle" /\ batch' = [batch EXCEPT ![t] = b] /\ next' = [next EXCEPT ![t] = 1]
      /\ alone' = [u \in Task |-> IF u = t THEN \A v \in Task \ {t} : pc[v] = "idle"
                                  ELSE alone[u] /\ pc[u] = "idle"]
      /\ result' = [result EXCEPT ![t] = Err]
      /\ IF Len(b) > batch_size
         THEN pc' = [pc EXCEPT ![t] = "idle"]
         ELSE pc' = [pc EXCEPT ![t] = "input"] /\ input_buffer' = 0
  BY Zenon DEF process_batch, Goto
<1>3. /\ pc \in [Task -> {"idle", "input", "length", "message"}]
      /\ batch \in [Task -> Batches \cup {NoBatch}]
      /\ DOMAIN next = Task /\ DOMAIN result = Task
  BY <1>1, Zenon DEF ZTypes
<1>4. /\ ZTypes' /\ batch'[t] = b /\ next'[t] = 1 /\ result'[t] = Err
      /\ \A u \in Task : u # t => batch'[u] = batch[u] /\ result'[u] = result[u] /\ pc'[u] = pc[u]
  BY <1>2, <1>3 DEF ZTypes
<1>5. /\ alone'[t] => \A u \in Task : u # t => pc[u] = "idle"
      /\ \A u \in Task : u # t => (alone'[u] => alone[u] /\ pc[u] = "idle")
  BY <1>2, Zenon
<1>6. IF Len(b) > batch_size THEN pc'[t] = "idle" ELSE pc'[t] = "input" /\ input_buffer' = 0
  BY <1>2, <1>3, Zenon
<1>7. \A u \in Task : pc'[u] # "idle" => batch'[u] \in Batches
  BY <1>1, <1>4, Zenon
<1>8. pc'[t] # "idle" => Underway(t)'
  <2> SUFFICES ASSUME pc'[t] # "idle" PROVE Underway(t)'
    BY Zenon
  <2>1. pc'[t] = "input" /\ input_buffer' = 0
    BY <1>6, Zenon
  <2>2. pc'[t] # "length" /\ pc'[t] # "message"
    BY <2>1
  <2>3. b \in Batch /\ Len(b) \in Nat
    BY BatchesAre, Zenon
  <2>4. Size(b, 0) = 0
    BY <2>3, EncodedStarts, Zenon
  <2>7. next'[t] = 1
    BY <1>4, Zenon
  <2>5. 1 \in 1..(Len(b) + 1) /\ next'[t] - 1 = 0
    BY <2>3, <2>7
  <2>6. next'[t] \in 1..(Len(batch'[t]) + 1) /\ input_buffer' = Size(batch'[t], next'[t] - 1)
    BY <1>4, <2>1, <2>4, <2>5, Zenon
  <2> QED
    BY <2>2, <2>6, Zenon DEF Underway
<1>9. pc'[t] = "idle" => Done(t)'
  <2> SUFFICES ASSUME pc'[t] = "idle" PROVE Done(t)'
    BY Zenon
  <2>1. Len(b) > batch_size
    <3>1. "idle" # "input"
      OBVIOUS
    <3> QED
      BY <1>6, <3>1, Zenon
  <2>2. ~Err.ok
    BY DEF Err
  <2>3. TooLarge(b)
    BY <2>1, Zenon DEF TooLarge
  <2> QED
    BY <1>4, <2>2, <2>3, Zenon DEF Done, TooLarge
<1>10. ASSUME NEW u \in Task, alone'[u], pc'[u] # "idle"
       PROVE  Underway(u)' /\ \A v \in Task : v # u => pc'[v] = "idle"
  BY <1>4, <1>5, <1>8, <1>10, Zenon
<1>11. ASSUME NEW u \in Task, alone'[u], pc'[u] = "idle", batch'[u] # NoBatch
       PROVE  Done(u)'
  <2>1. CASE u = t
    BY <1>9, <1>11, <2>1, Zenon
  <2>2. CASE u # t
    <3>1. Done(u)
      BY <1>1, <1>4, <1>5, <1>11, <2>2, Zenon
    <3> QED
      BY <1>4, <2>2, <3>1, Zenon DEF Done, TooLarge
  <2> QED
    BY <2>1, <2>2, Zenon
<1> QED
  BY <1>4, <1>7, <1>10, <1>11, Zenon DEF ZInv

LEMMA ZInvStep == ZInv /\ [ZNext]_processor => ZInv'
<1> SUFFICES ASSUME ZInv, [ZNext]_processor PROVE ZInv'
  BY Zenon
<1>1. CASE ZNext
  BY <1>1, ZInvProcess, ZInvFillInput, ZInvClearOutput, ZInvAppendLength, ZInvAppendMessage,
     ZInvGetBytes, Zenon DEF ZNext
<1>2. CASE UNCHANGED processor
  BY <1>2, Zenon DEF processor, ZInv, ZTypes, Underway, Done, TooLarge
<1> QED
  BY <1>1, <1>2, Zenon

\* A call of process_batch that no other call overlaps answers what parse_batch
\* takes apart into the same messages, and fails only for a batch that is too
\* large for the processor: for every batch of messages shorter than 2^32.
THEOREM AloneIsExactAlways == ZSpec => []AloneIsExact
<1>1. ZInv => AloneIsExact
  <2> SUFFICES ASSUME ZInv, NEW t \in Task, Answered(t), alone[t]
               PROVE  IF result[t].ok
                      THEN parse_batch(result[t].bytes) = [ok |-> TRUE, messages |-> batch[t]]
                      ELSE TooLarge(batch[t])
    BY Zenon DEF AloneIsExact, TooLarge
  <2> DEFINE b == batch[t]
  <2>1. pc[t] = "idle" /\ b # NoBatch
    BY Zenon DEF Answered
  <2>2. Done(t)
    BY <2>1, Zenon DEF ZInv
  <2>3. b \in Batch
    <3>1. batch \in [Task -> Batches \cup {NoBatch}]
      BY Zenon DEF ZInv, ZTypes
    <3>2. b \in Batches
      BY <2>1, <3>1, Zenon
    <3> QED
      BY <3>2, BatchesAre, Zenon
  <2>4. CASE result[t].ok
    <3>1. result[t].bytes = Encoded(b, Len(b)) /\ Len(Encoded(b, Len(b))) <= max_size
      BY <2>2, <2>4, Zenon DEF Done
    <3>2. ASSUME NEW k \in 1..Len(b) PROVE Short(Len(b[k]))
      <4>1. /\ Len(b[k]) \in Nat /\ Len(Encoded(b, k - 1)) \in Nat /\ max_size \in Nat
            /\ Len(Encoded(b, k - 1)) + 4 + Len(b[k]) <= Bytes(b) + 4 * Len(b)
        BY <2>3, Needed, BatchesAre, Zenon
      <4>2. Len(Encoded(b, Len(b))) = Bytes(b) + 4 * Len(b)
        <5>1. Len(b) \in 0..Len(b)
          BY <2>3, BatchIs
        <5> QED
          BY <2>3, <5>1, EncodedLength, EncodedStarts, Zenon
      <4> DEFINE l == Len(b[k])
                 o == Len(Encoded(b, k - 1))
                 all == Bytes(b) + 4 * Len(b)
      <4>3. all <= max_size /\ all \in Nat
        BY <2>3, <3>1, <4>2, Needed, Zenon
      <4>4. l \in Nat /\ o \in Nat /\ max_size \in Nat /\ o + 4 + l <= all
        BY <4>1, Zenon
      <4> HIDE DEF l, o, all
      <4>5. l <= max_size
        BY <4>3, <4>4
      <4> QED
        BY <4>4, <4>5, ShortEnough, Zenon DEF l
    <3>3. parse_batch(Encoded(b, Len(b))) = [ok |-> TRUE, messages |-> b]
      <4> HIDE DEF b
      <4> QED
        BY <2>3, <3>2, RoundTrip, Zenon
    <3> QED
      BY <2>4, <3>1, <3>3, Zenon
  <2>5. CASE ~result[t].ok
    BY <2>2, <2>5, Zenon DEF Done
  <2> QED
    BY <2>4, <2>5, Zenon
<1> QED
  BY <1>1, ZInvInit, ZInvStep, PTL DEF ZSpec
-----------------------------------------------------------------------------
(* The composition *)

\* A step of one manager is a step of its own specification and leaves the
\* others alone; the heartbeats and the checks are steps of Health, the rate
\* counter and the histogram steps of Metrics.
LEMMA PartsStep ==
  [Next]_managers =>
    [RNext]_isr /\ [LNext]_log /\ [ZNext]_processor /\ [HNext]_hvars /\ [MNext]_mvars
<1>1. LatencyNext \/ ClockNext \/ RateNext => MNext
  BY Zenon DEF MNext, RateNext
<1>2. BeatNext \/ CheckNext => HNext
  BY Zenon DEF HNext
<1>3. UNCHANGED managers => UNCHANGED <<isr, log, processor, hvars, mvars>>
  BY Zenon DEF managers
<1> QED
  BY <1>1, <1>2, <1>3, Zenon DEF Next

\* The objects Broker::new_with_cluster builds, run side by side, are each what
\* their own modules describe: what is proved of a manager by itself holds in
\* the broker that has all of them.
THEOREM ManagersAreTheirParts == Spec => RSpec /\ LSpec /\ ZSpec /\ HSpec /\ MSpec
<1>1. Init => RInit /\ LInit /\ ZInit /\ HInit /\ MInit
  BY Zenon DEF Init
<1> QED
  BY <1>1, PartsStep, PTL DEF Spec, RSpec, LSpec, ZSpec, HSpec, MSpec
=============================================================================

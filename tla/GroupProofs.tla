---------------------------- MODULE GroupProofs -----------------------------
(***************************************************************************)
(* The group coordinator keeps its invariants for any members, generations *)
(* and assignments that callers may send.                                  *)
(*                                                                         *)
(* A group whose leader uses the coordinator's assignment functions gives  *)
(* every partition to one member, for any members and any number of        *)
(* partitions.                                                             *)
(*                                                                         *)
(* With any number of consumers of crates/consumer as callers, member ids  *)
(* stay unique and the leader is never too late.                           *)
(***************************************************************************)
EXTENDS ConsumerGroup, Rebalance, Loops

-----------------------------------------------------------------------------
(* The group coordinator *)

\* RebalancesInTurn is inductive once it is known that a group with members
\* has a generation and a group without has none.
GroupInv ==
  /\ GroupTypeOK
  /\ RebalancesInTurn
  /\ state = "Empty" <=> generation_id = 0
  /\ state = "Empty" => members = {} /\ leader_id = NoMember
  /\ state # "Empty" => leader_id \in members

LEMMA InitGroupInv == GroupInit => GroupInv
  BY DEF GroupInit, GroupInv, GroupTypeOK, RebalancesInTurn

LEMMA JoinGroupInv ==
  ASSUME GroupInv, NEW m \in Member, handle_join_group(m)
  PROVE  GroupInv'
<1>1. GroupTypeOK'
  BY DEF handle_join_group, NewMetadata, Restarts, GroupInv, GroupTypeOK
<1>2. RebalancesInTurn'
  BY GroupAssumption DEF handle_join_group, NewMetadata, Restarts, GroupInv, GroupTypeOK, RebalancesInTurn
<1> QED
  BY <1>1, <1>2, GroupAssumption DEF handle_join_group, NewMetadata, Restarts, GroupInv, GroupTypeOK

LEMMA SyncGroupInv ==
  ASSUME GroupInv, NEW m \in Member, NEW g, NEW a,
         \A x \in DOMAIN a : a[x] \subseteq Partition,
         handle_sync_group(m, g, a)
  PROVE  GroupInv'
<1>1. GroupTypeOK'
  BY Zenon DEF handle_sync_group, CurrentGeneration, Applies, GroupInv, GroupTypeOK
<1>2. RebalancesInTurn'
  <2>1. CASE Applies(m)
    <3>1. /\ generation_id \in Nat /\ generation_id # 0
          /\ completed = 1..(generation_id - 1)
          /\ completed' = completed \cup {generation_id}
          /\ state' = "Stable" /\ generation_id' = generation_id
      BY <2>1, Zenon DEF handle_sync_group, CurrentGeneration, Applies, GroupInv, GroupTypeOK,
                  RebalancesInTurn
    <3>2. completed' = 1..generation_id
      BY <3>1
    <3> QED
      BY <3>1, <3>2, Zenon DEF RebalancesInTurn
  <2>2. CASE ~Applies(m)
    BY <2>2, Zenon DEF handle_sync_group, GroupInv, RebalancesInTurn
  <2> QED
    BY <2>1, <2>2, Zenon
<1> QED
  BY <1>1, <1>2, Zenon DEF handle_sync_group, CurrentGeneration, Applies, GroupInv

LEMMA HeartbeatGroupInv ==
  ASSUME GroupInv, NEW m \in Member, NEW g, handle_heartbeat(m, g)
  PROVE  GroupInv'
  BY Zenon DEF handle_heartbeat, CurrentGeneration, GroupInv, GroupTypeOK, RebalancesInTurn

LEMMA GroupInvariant == GroupSpec => []GroupInv
<1>1. ASSUME GroupInv, [GroupNext]_group
      PROVE  GroupInv'
  <2>1. ASSUME NEW m \in Member, NEW g \in 0..MaxGeneration, NEW a \in GroupAssignments,
               handle_sync_group(m, g, a)
        PROVE  GroupInv'
    BY <1>1, <2>1, SyncGroupInv, GroupAssumption, Zenon
  <2>2. CASE UNCHANGED group
    BY <1>1, <2>2, Zenon DEF group, GroupInv, GroupTypeOK, RebalancesInTurn
  <2> QED
    BY <1>1, <2>1, <2>2, JoinGroupInv, HeartbeatGroupInv, Zenon DEF GroupNext
<1> QED
  BY <1>1, InitGroupInv, PTL DEF GroupSpec

\* The group's metadata keep their types.
THEOREM GroupTyped == GroupSpec => []GroupTypeOK
<1>1. GroupInv => GroupTypeOK
  BY Zenon DEF GroupInv
<1> QED
  BY <1>1, GroupInvariant, PTL

\* handle_join_group starts a generation only after the leader's sync of the
\* one before.
THEOREM GenerationsInTurn == GroupSpec => []RebalancesInTurn
<1>1. GroupInv => RebalancesInTurn
  BY Zenon DEF GroupInv
<1> QED
  BY <1>1, GroupInvariant, PTL

\* No handler changes the assignments, the members or the generation of a
\* stable group that stays stable.
THEOREM StableGroupIsFixed == GroupSpec => StableIsFixed
<1>1. ASSUME GroupInv, [GroupNext]_group
      PROVE  [state = "Stable" /\ state' = "Stable" =>
                UNCHANGED <<assignment, generation_id, members>>]_group
  BY <1>1, Zenon DEF GroupNext, handle_join_group, handle_sync_group, Applies, handle_heartbeat, group
<1> QED
  BY <1>1, GroupInvariant, PTL DEF GroupSpec, StableIsFixed
-----------------------------------------------------------------------------
(* The assignment functions *)

\* Steps that never go down lead from one number to another.
Stairs(n, b) == \A i \in 0..n : b[i] \in Int /\ (i # 0 => b[i - 1] <= b[i])

LEMMA StairsRise ==
  ASSUME NEW n \in Nat, NEW b, Stairs(n, b)
  PROVE  \A i, j \in 0..n : i <= j => b[i] <= b[j]
<1> DEFINE T == {j \in 0..n : \A i \in 0..j : b[i] <= b[j]}
<1>1. 0 \in T
  BY DEF Stairs
<1>2. ASSUME NEW j \in 1..n, j - 1 \in T PROVE j \in T
  <2>1. b[j] \in Int /\ b[j - 1] \in Int /\ b[j - 1] <= b[j] /\ j \in 0..n
    BY DEF Stairs
  <2>2. \A i \in 0..(j - 1) : b[i] <= b[j - 1] /\ b[i] \in Int
    BY <1>2 DEF Stairs
  <2>3. \A i \in 0..j : i = j \/ i \in 0..(j - 1)
    OBVIOUS
  <2>4. \A i \in 0..j : b[i] <= b[j]
    BY <2>1, <2>2, <2>3
  <2> QED
    BY <2>1, <2>4, Zenon
<1>3. \A i \in 0..n : i \in T
  <2> HIDE DEF T
  <2> QED
    BY <1>1, <1>2, Reaches, Zenon
<1> QED
  BY <1>3

\* Every number between the first and the last is on exactly one step.
LEMMA StairsDivide ==
  ASSUME NEW n \in Nat, NEW b, Stairs(n, b)
  PROVE  /\ \A q \in Int : b[0] <= q /\ q < b[n] => \E i \in 1..n : b[i - 1] <= q /\ q < b[i]
         /\ \A q \in Int : \A i, j \in 1..n :
              b[i - 1] <= q /\ q < b[i] /\ b[j - 1] <= q /\ q < b[j] => i = j
<1>1. \A i \in 0..n : b[i] \in Int
  BY Zenon DEF Stairs
<1>2. ASSUME NEW q \in Int, b[0] <= q, q < b[n]
      PROVE  \E i \in 1..n : b[i - 1] <= q /\ q < b[i]
  <2> DEFINE T == {i \in 0..n : b[i] <= q}
  <2>1. 0 \in T /\ n \in 0..n /\ n \notin T
    BY <1>1, <1>2
  <2>2. PICK i \in 1..n : i - 1 \in T /\ i \notin T
    <3> HIDE DEF T
    <3> QED
      BY <2>1, Reaches, Zenon
  <2>3. b[i - 1] <= q /\ q < b[i]
    BY <1>1, <2>2
  <2> QED
    BY <2>3, Zenon
<1>3. ASSUME NEW q \in Int, NEW i \in 1..n, NEW j \in 1..n,
             b[i - 1] <= q, q < b[i], b[j - 1] <= q, q < b[j]
      PROVE  i = j
  <2>1. /\ i \in 0..n /\ j \in 0..n /\ i - 1 \in 0..n /\ j - 1 \in 0..n
        /\ i = j \/ i <= j - 1 \/ j <= i - 1
    OBVIOUS
  <2>2. /\ b[i] \in Int /\ b[j] \in Int /\ b[i - 1] \in Int /\ b[j - 1] \in Int
        /\ i <= j - 1 => b[i] <= b[j - 1]
        /\ j <= i - 1 => b[j] <= b[i - 1]
    BY <1>1, <2>1, StairsRise, Zenon
  <2> QED
    BY <1>3, <2>1, <2>2
<1> QED
  BY <1>2, <1>3, Zenon

\* The ids a leader is told: distinct members, itself at least.
Listed(s, M) ==
  /\ Len(s) \in Nat /\ Len(s) > 0 /\ DOMAIN s = 1..Len(s)
  /\ \A i \in 1..Len(s) : s[i] \in M
  /\ \A i, j \in 1..Len(s) : s[i] = s[j] => i = j

\* Every partition in the share of one of the ids, and of one only.
Divides(a, ids) ==
  /\ DOMAIN a = Range(ids)
  /\ \A m \in Range(ids) : a[m] \subseteq Partition
  /\ \A q \in Partition : \E m \in Range(ids) : q \in a[m]
  /\ \A q \in Partition : \A m, n \in Range(ids) : q \in a[m] /\ q \in a[n] => m = n

LEMMA RoundrobinDivides ==
  ASSUME NEW ids, NEW M, Listed(ids, M)
  PROVE  Divides(assign_partitions_roundrobin(ids), ids)
<1> DEFINE n == Len(ids)
           a == assign_partitions_roundrobin(ids)
<1>1. DOMAIN a = Range(ids) /\ \A m \in Range(ids) : a[m] = {q \in Partition : ids[(q % n) + 1] = m}
  BY Zenon DEF assign_partitions_roundrobin
<1>2. \A q \in Partition : (q % n) + 1 \in 1..n
  BY RebalanceAssumption DEF Listed
<1>3. \A q \in Partition : ids[(q % n) + 1] \in Range(ids)
  BY <1>2, Zenon DEF Listed, Range
<1> HIDE DEF a, n
<1> QED
  BY <1>1, <1>3, Zenon DEF Divides, a

\* partition_idx ends where the partitions do.
LEMMA SharesAddUp ==
  ASSUME NEW ids, NEW M, Listed(ids, M)
  PROVE  LET b == partition_idx(ids)
         IN  Stairs(Len(ids), b) /\ b[0] = 0 /\ b[Len(ids)] = NumPartitions
<1> DEFINE n == Len(ids)
           d == NumPartitions \div n
           r == NumPartitions % n
           c == [i \in 0..n |-> (i * d) + (IF i < r THEN i ELSE r)]
           F(f) == [i \in 0..Len(ids) |-> IF i = 0 THEN 0 ELSE f[i - 1] + Share(ids, i - 1)]
<1>1. n \in Nat /\ n > 0
  BY Zenon DEF Listed
<1>2. d \in Nat /\ r \in Nat /\ r < n /\ NumPartitions = (n * d) + r
  BY <1>1, RebalanceAssumption
<1>3. \A i \in 0..n : Share(ids, i) = d + (IF i < r THEN 1 ELSE 0)
  BY Zenon DEF Share
<1> HIDE DEF d, r, n
<1>4. c[0] = 0 /\ c[n] = NumPartitions /\ \A i \in 0..n : c[i] \in Int
  BY <1>1, <1>2
<1>5. ASSUME NEW i \in 1..n PROVE c[i] = c[i - 1] + Share(ids, i - 1) /\ c[i - 1] <= c[i]
  <2>1. i - 1 \in 0..n /\ i \in 0..n
    BY <1>1
  <2>2. i * d = ((i - 1) * d) + d /\ i * d \in Int /\ (i - 1) * d \in Int
    BY <1>2
  <2>3. /\ c[i] = (i * d) + (IF i < r THEN i ELSE r)
        /\ c[i - 1] = ((i - 1) * d) + (IF i - 1 < r THEN i - 1 ELSE r)
        /\ Share(ids, i - 1) = d + (IF i - 1 < r THEN 1 ELSE 0)
    BY <1>3, <2>1
  <2> DEFINE x == i * d
             y == (i - 1) * d
  <2> HIDE DEF x, y, c
  <2>4. /\ x = y + d /\ x \in Int /\ y \in Int
        /\ c[i] = x + (IF i < r THEN i ELSE r)
        /\ c[i - 1] = y + (IF i - 1 < r THEN i - 1 ELSE r)
    BY <2>2, <2>3, Zenon DEF x, y
  <2> QED
    BY <1>1, <1>2, <2>3, <2>4
<1>6. DOMAIN c = 0..n
  BY Zenon
<1> HIDE DEF c
<1>7. \A i \in 0..n : i = 0 \/ i \in 1..n
  BY <1>1
<1>8. c = F(c)
  <2>1. \A i \in 0..n : c[i] = IF i = 0 THEN 0 ELSE c[i - 1] + Share(ids, i - 1)
    BY <1>4, <1>5, <1>7, Zenon
  <2>2. c = [i \in 0..n |-> c[i]]
    BY <1>6, Zenon DEF c
  <2> QED
    BY <2>1, <2>2, Zenon DEF n
<1> DEFINE b == CHOOSE f : f = F(f)
<1>9. b = F(b)
  <2> HIDE DEF F
  <2> QED
    BY <1>8, Zenon
<1>10. partition_idx(ids) = b
  BY Zenon DEF partition_idx
<1> HIDE DEF b
<1>11. \A i \in 0..n : b[i] = IF i = 0 THEN 0 ELSE b[i - 1] + Share(ids, i - 1)
  BY <1>9, Zenon DEF n
<1> DEFINE T == {i \in 0..n : b[i] = c[i]}
<1>12. 0 \in T /\ \A i \in 1..n : i - 1 \in T => i \in T
  <2>1. 0 \in 0..n /\ \A i \in 1..n : i \in 0..n /\ i # 0
    BY <1>1
  <2> HIDE DEF F
  <2> QED
    BY <1>4, <1>5, <1>11, <2>1, Zenon
<1>13. \A i \in 0..n : b[i] = c[i]
  <2>1. \A i \in 0..n : i \in T
    <3> HIDE DEF T
    <3> QED
      BY <1>1, <1>12, Reaches, Zenon
  <2> QED
    BY <2>1, Zenon
<1>14. Stairs(n, b) /\ b[0] = 0 /\ b[n] = NumPartitions
  <2>1. 0 \in 0..n /\ n \in 0..n /\ \A i \in 1..n : i - 1 \in 0..n
    BY <1>1
  <2> QED
    BY <1>4, <1>5, <1>7, <1>13, <2>1, Zenon DEF Stairs
<1> QED
  BY <1>10, <1>14, Zenon DEF n

LEMMA RangeDivides ==
  ASSUME NEW ids, NEW M, Listed(ids, M)
  PROVE  Divides(assign_partitions_range(ids), ids)
<1> DEFINE n == Len(ids)
           b == partition_idx(ids)
           a == assign_partitions_range(ids)
<1>1. n \in Nat /\ n > 0 /\ Stairs(n, b) /\ b[0] = 0 /\ b[n] = NumPartitions
  BY SharesAddUp, Zenon DEF Listed
<1>2. Range(ids) = {ids[i] : i \in 1..n}
  BY Zenon DEF Range, Listed
<1>3. \A i \in 1..n : a[ids[i]] = b[i - 1]..(b[i] - 1)
  <2> SUFFICES ASSUME NEW i \in 1..n PROVE a[ids[i]] = b[i - 1]..(b[i] - 1)
    BY Zenon
  <2> DEFINE k == CHOOSE k \in 1..Len(ids) : ids[k] = ids[i]
  <2>1. k \in 1..n /\ ids[k] = ids[i]
    BY Zenon
  <2>2. k = i
    BY <2>1, Zenon DEF Listed
  <2>3. a[ids[i]] = b[k - 1]..(b[k] - 1)
    BY <1>2, Zenon DEF assign_partitions_range
  <2> QED
    BY <2>2, <2>3, Zenon
<1>4. DOMAIN a = Range(ids)
  BY Zenon DEF assign_partitions_range
<1> HIDE DEF a, b, n
<1>5. \A i \in 0..n : b[i] \in Int /\ b[0] <= b[i] /\ b[i] <= b[n]
  <2>1. 0 \in 0..n /\ n \in 0..n /\ \A i \in 0..n : 0 <= i /\ i <= n
    BY <1>1
  <2>2. \A i, j \in 0..n : i <= j => b[i] <= b[j]
    BY <1>1, StairsRise, Zenon
  <2> QED
    BY <1>1, <2>1, <2>2, Zenon DEF Stairs
<1>6. ASSUME NEW i \in 1..n PROVE b[i - 1]..(b[i] - 1) \subseteq Partition
  <2>1. b[i - 1] \in Int /\ b[i] \in Int /\ 0 <= b[i - 1] /\ b[i] <= NumPartitions
    BY <1>1, <1>5
  <2> QED
    BY <2>1, RebalanceAssumption
<1>7. \A q \in Partition, i \in 1..n : q \in a[ids[i]] <=> b[i - 1] <= q /\ q < b[i]
  <2> SUFFICES ASSUME NEW q \in Partition, NEW i \in 1..n
               PROVE  q \in a[ids[i]] <=> b[i - 1] <= q /\ q < b[i]
    BY Zenon
  <2>1. b[i - 1] \in Int /\ b[i] \in Int /\ q \in Int
    BY <1>1, <1>5, RebalanceAssumption
  <2>2. a[ids[i]] = b[i - 1]..(b[i] - 1)
    BY <1>3, Zenon
  <2> QED
    BY <2>1, <2>2
<1>8. \A q \in Partition : q \in Int /\ b[0] <= q /\ q < b[n]
  BY <1>1, RebalanceAssumption
<1>9. \A q \in Partition : \E i \in 1..n : q \in a[ids[i]]
  BY <1>1, <1>7, <1>8, StairsDivide, Zenon
<1>10. \A q \in Partition : \A i, j \in 1..n : q \in a[ids[i]] /\ q \in a[ids[j]] => i = j
  BY <1>1, <1>7, <1>8, StairsDivide, Zenon
<1>11. \A m \in Range(ids) : a[m] \subseteq Partition
  BY <1>2, <1>3, <1>6, Zenon
<1>12. \A q \in Partition : \E m \in Range(ids) : q \in a[m]
  BY <1>2, <1>9, Zenon
<1>13. \A q \in Partition : \A m, o \in Range(ids) : q \in a[m] /\ q \in a[o] => m = o
  BY <1>2, <1>10, Zenon
<1> QED
  BY <1>4, <1>11, <1>12, <1>13, Zenon DEF Divides, a

\* Whichever of the two functions the leader uses.
LEMMA DivisionsDivide ==
  ASSUME NEW ids, NEW M, Listed(ids, M), NEW a \in Divisions(ids)
  PROVE  /\ \A m \in DOMAIN a : m \in Range(ids) /\ a[m] \subseteq Partition
         /\ Divides(a, ids) \/ Partition = {}
<1>1. CASE NumPartitions = 0
  <2>1. Partition = {} /\ ids # <<>>
    BY <1>1, RebalanceAssumption DEF Listed
  <2>2. DOMAIN a = {}
    BY <1>1 DEF Divisions
  <2> QED
    BY <2>1, <2>2, Zenon
<1>2. CASE NumPartitions # 0
  <2>1. ids # <<>>
    BY DEF Listed
  <2>2. Divides(a, ids)
    BY <1>2, <2>1, RangeDivides, RoundrobinDivides, Zenon DEF Divisions
  <2> QED
    BY <2>2, Zenon DEF Divides
<1> QED
  BY <1>1, <1>2, Zenon
-----------------------------------------------------------------------------
(* The rebalance *)

\* The partitions m holds by its last sync are none, or its own in the stable
\* group, if it synced in the current generation.
HeldNow(m) ==
  /\ held[m].gen \in Nat /\ held[m].gen <= generation_id
  /\ held[m].gen = generation_id =>
       held[m].partitions = {} \/ (state = "Stable" /\ held[m].partitions = assignment[m])

(***************************************************************************)
(* The inductive invariant.  StableCovers depends on what the leader was   *)
(* told: whoever is not in its list has joined since and owns nothing.     *)
(* OneOwnerPerPartition needs to know that a member which can sync before  *)
(* the leader owns nothing either: its join took away what it had.         *)
(***************************************************************************)
RebalanceInv ==
  /\ GroupInv
  /\ joined \in [Member -> Nat] /\ DOMAIN held = Member
  /\ \A m \in Member : joined[m] <= generation_id
  /\ \A m \in Member : m \notin members => assignment[m] = {}
  /\ state = "PreparingRebalance" =>
       \A m \in Member : joined[m] = generation_id => assignment[m] = {}
  /\ snapshot # NoSnapshot =>
       /\ state = "PreparingRebalance" /\ Listed(snapshot, members)
       /\ \A m \in Member \ Range(snapshot) : assignment[m] = {}
  /\ StableCovers
  /\ OneOwnerPerPartition
  /\ \A m \in Member : HeldNow(m)

LEMMA InitRebalanceInv == RInit => RebalanceInv
<1> SUFFICES ASSUME RInit PROVE RebalanceInv
  BY Zenon
<1>1. GroupInv
  BY InitGroupInv, Zenon DEF RInit
<1>2. /\ state = "Empty" /\ generation_id = 0 /\ snapshot = NoSnapshot
      /\ \A m \in Member : assignment[m] = {} /\ held[m].gen = 0 /\ held[m].partitions = {}
      /\ joined \in [Member -> Nat] /\ DOMAIN held = Member /\ \A m \in Member : joined[m] = 0
  BY Zenon DEF RInit, GroupInit
<1>3. "Empty" # "Stable" /\ "Empty" # "PreparingRebalance" /\ 0 <= 0 /\ 0 \in Nat
  OBVIOUS
<1>4. \A m \in Member : HeldNow(m)
  BY <1>2, <1>3, Zenon DEF HeldNow
<1>5. StableCovers /\ OneOwnerPerPartition
  BY <1>2, <1>3, Zenon DEF StableCovers, OneOwnerPerPartition
<1> QED
  BY <1>1, <1>2, <1>3, <1>4, <1>5, Zenon DEF RebalanceInv

LEMMA JoinRebalanceInv ==
  ASSUME RebalanceInv, NEW m \in Member, Join(m)
  PROVE  RebalanceInv'
<1>1. GroupInv'
  BY JoinGroupInv, Zenon DEF Join, RebalanceInv
<1>2. /\ state' = "PreparingRebalance" /\ members' = members \cup {m}
      /\ assignment' = [assignment EXCEPT ![m] = {}]
      /\ joined' = [joined EXCEPT ![m] = generation_id'] /\ UNCHANGED held
      /\ snapshot' # NoSnapshot => snapshot' = snapshot
      /\ generation_id' = IF Restarts THEN generation_id + 1 ELSE generation_id
  BY Zenon DEF Join, handle_join_group, NewMetadata
<1>3. generation_id \in Nat /\ generation_id' \in Nat /\ generation_id <= generation_id'
  BY <1>2 DEF RebalanceInv, GroupInv, GroupTypeOK
<1>4. /\ joined' \in [Member -> Nat] /\ assignment'[m] = {}
      /\ \A o \in Member : o # m => assignment'[o] = assignment[o] /\ joined'[o] = joined[o]
  BY <1>2, <1>3, Zenon DEF RebalanceInv, GroupInv, GroupTypeOK
<1>0. \A o \in Member : joined'[o] <= generation_id'
  <2>1. joined'[m] = generation_id' /\ \A o \in Member : joined[o] \in Nat /\ joined[o] <= generation_id
    BY <1>2, <1>3, Zenon DEF RebalanceInv
  <2> QED
    BY <1>3, <1>4, <2>1
<1>5. \A o \in Member : o \notin members' => assignment'[o] = {}
  BY <1>2, <1>4, Zenon DEF RebalanceInv
<1>6. CASE state = "PreparingRebalance"
  <2>1. generation_id' = generation_id
    BY <1>2, <1>6 DEF Restarts
  <2>2. \A o \in Member : joined'[o] = generation_id' => assignment'[o] = {}
    BY <1>4, <1>6, <2>1, Zenon DEF RebalanceInv
  <2>3. snapshot' # NoSnapshot =>
          /\ Listed(snapshot', members')
          /\ \A o \in Member \ Range(snapshot') : assignment'[o] = {}
    <3> SUFFICES ASSUME snapshot' # NoSnapshot
                 PROVE  /\ Listed(snapshot', members')
                        /\ \A o \in Member \ Range(snapshot') : assignment'[o] = {}
      BY Zenon
    <3>1. snapshot' = snapshot /\ snapshot # NoSnapshot
      BY <1>2, Zenon
    <3>2. Listed(snapshot, members) /\ \A o \in Member \ Range(snapshot) : assignment[o] = {}
      BY <3>1, Zenon DEF RebalanceInv
    <3>3. Listed(snapshot, members')
      BY <1>2, <3>2, Zenon DEF Listed
    <3> QED
      BY <1>4, <3>1, <3>2, <3>3, Zenon
  <2>4. "PreparingRebalance" # "Stable"
    OBVIOUS
  <2>5. \A o \in Member : HeldNow(o)'
    BY <1>2, <1>6, <2>1, <2>4, Zenon DEF RebalanceInv, HeldNow
  <2>6. StableCovers' /\ OneOwnerPerPartition'
    BY <1>2, <2>4, Zenon DEF RebalanceInv, StableCovers, OneOwnerPerPartition
  <2> QED
    BY <1>0, <1>1, <1>2, <1>4, <1>5, <2>2, <2>3, <2>5, <2>6, Zenon DEF RebalanceInv
<1>7. CASE state # "PreparingRebalance"
  <2>1. generation_id' = generation_id + 1
    BY <1>2, <1>7, Zenon DEF Restarts, RebalanceInv, GroupInv, GroupTypeOK
  <2>2. snapshot' = NoSnapshot
    BY <1>2, <1>7, Zenon DEF RebalanceInv
  <2>3. \A o \in Member : held'[o].gen \in Nat /\ held'[o].gen < generation_id'
    BY <1>2, <1>3, <2>1 DEF RebalanceInv, HeldNow
  <2>4. \A o \in Member : HeldNow(o)'
    BY <1>3, <2>3 DEF HeldNow
  <2>5. \A o \in Member : joined'[o] = generation_id' => assignment'[o] = {}
    <3>1. \A o \in Member : joined[o] \in Nat /\ joined[o] <= generation_id
      BY Zenon DEF RebalanceInv
    <3>2. \A o \in Member : joined[o] # generation_id'
      BY <1>3, <2>1, <3>1
    <3> QED
      BY <1>4, <3>2, Zenon
  <2>6. "PreparingRebalance" # "Stable"
    OBVIOUS
  <2>7. StableCovers' /\ OneOwnerPerPartition'
    BY <1>2, <2>6, Zenon DEF RebalanceInv, StableCovers, OneOwnerPerPartition
  <2> QED
    BY <1>0, <1>1, <1>2, <1>4, <1>5, <2>2, <2>4, <2>5, <2>7, Zenon DEF RebalanceInv
<1> QED
  BY <1>6, <1>7, Zenon

\* The leader asks who the members are.
LEMMA AskRebalanceInv ==
  ASSUME RebalanceInv, get_group_members
  PROVE  RebalanceInv'
<1>1. /\ UNCHANGED <<group, joined, held>> /\ state = "PreparingRebalance"
      /\ snapshot' \in Orders(members)
  BY Zenon DEF get_group_members
<1>2. UNCHANGED <<state, members, leader_id, generation_id, assignment, last_heartbeat, completed>>
  BY <1>1, Zenon DEF group
<1>3. PICK n \in 0..Cardinality(members) : snapshot' \in Bijection(1..n, members)
  BY <1>1, Zenon DEF Orders
<1>4. /\ snapshot' \in [1..n -> members]
      /\ \A i, j \in 1..n : snapshot'[i] = snapshot'[j] => i = j
      /\ \A m \in members : \E i \in 1..n : snapshot'[i] = m
  BY <1>3, Zenon DEF Bijection, Injection, Surjection, IsInjective
<1>5. n > 0 /\ n \in Nat
  <2>1. leader_id \in members
    BY <1>1 DEF RebalanceInv, GroupInv
  <2>2. PICK i \in 1..n : snapshot'[i] = leader_id
    BY <1>4, <2>1, Zenon
  <2> QED
    BY <2>2
<1>6. Len(snapshot') = n /\ DOMAIN snapshot' = 1..n
  BY <1>4, <1>5
<1>7. Listed(snapshot', members)
  BY <1>4, <1>5, <1>6, Zenon DEF Listed
<1>8. \A m \in Member \ Range(snapshot') : assignment[m] = {}
  <2>1. \A m \in members : m \in Range(snapshot')
    BY <1>4, <1>6, Zenon DEF Range
  <2> QED
    BY <2>1, Zenon DEF RebalanceInv
<1>9. GroupInv'
  BY <1>2, Zenon DEF RebalanceInv, GroupInv, GroupTypeOK, RebalancesInTurn
<1>10. (\A m \in Member : HeldNow(m))' /\ StableCovers' /\ OneOwnerPerPartition'
  BY <1>1, <1>2, Zenon DEF RebalanceInv, HeldNow, StableCovers, OneOwnerPerPartition
<1> QED
  BY <1>1, <1>2, <1>7, <1>8, <1>9, <1>10, Zenon DEF RebalanceInv

\* In a stable group the assignments are disjoint.
LEMMA StableIsDisjoint ==
  ASSUME GroupTypeOK, StableCovers, state = "Stable", NEW m \in Member, NEW n \in Member, m # n
  PROVE  assignment[m] \cap assignment[n] = {}
<1> SUFFICES ASSUME NEW q, q \in assignment[m], q \in assignment[n] PROVE FALSE
  BY Zenon
<1>1. q \in Partition
  BY Zenon DEF GroupTypeOK
<1>2. PICK o \in Member : {x \in Member : q \in assignment[x]} = {o}
  BY <1>1, Zenon DEF StableCovers
<1>3. m \in {o} /\ n \in {o}
  BY <1>2, Zenon
<1> QED
  BY <1>3, Zenon

\* A sync that ends no rebalance.
LEMMA QuietSyncInv ==
  ASSUME RebalanceInv, NEW m \in Member, NEW a, Sync(m, a), ~Applies(m),
         snapshot' \in {snapshot, NoSnapshot}
  PROVE  RebalanceInv'
<1>1. /\ UNCHANGED group /\ joined[m] = generation_id /\ state # "Empty" /\ UNCHANGED joined
      /\ held' = [held EXCEPT ![m] = [gen |-> generation_id, partitions |-> assignment[m]]]
  BY Zenon DEF Sync, handle_sync_group, CurrentGeneration, group
<1>2. UNCHANGED <<state, members, leader_id, generation_id, assignment, last_heartbeat, completed>>
  BY <1>1, Zenon DEF group
<1>3. /\ DOMAIN held' = Member /\ held'[m].gen = generation_id /\ held'[m].partitions = assignment[m]
      /\ \A o \in Member : o # m => held'[o] = held[o]
  BY <1>1, Zenon DEF RebalanceInv
<1>4. generation_id \in Nat /\ generation_id <= generation_id
  BY DEF RebalanceInv, GroupInv, GroupTypeOK
<1>5. state = "Stable" \/ assignment[m] = {}
  BY <1>1, Zenon DEF RebalanceInv, GroupInv, GroupTypeOK
<1>6. \A o \in Member : HeldNow(o)'
  BY <1>2, <1>3, <1>4, <1>5, Zenon DEF RebalanceInv, HeldNow
<1>7. ASSUME NEW o \in Member, o # m, held[o].gen = generation_id
      PROVE  held[o].partitions \cap assignment[m] = {}
  <2>1. held[o].partitions = {} \/ (state = "Stable" /\ held[o].partitions = assignment[o])
    BY <1>7, Zenon DEF RebalanceInv, HeldNow
  <2>2. state = "Stable" => assignment[o] \cap assignment[m] = {}
    BY <1>7, StableIsDisjoint, Zenon DEF RebalanceInv, GroupInv
  <2> QED
    BY <2>1, <2>2, Zenon
<1>8. OneOwnerPerPartition'
  <2> SUFFICES ASSUME NEW o \in Member, NEW u \in Member, o # u, held'[o].gen = held'[u].gen
               PROVE  held'[o].partitions \cap held'[u].partitions = {}
    BY Zenon DEF OneOwnerPerPartition
  <2>1. CASE o = m
    BY <1>3, <1>7, <2>1, Zenon
  <2>2. CASE u = m
    BY <1>3, <1>7, <2>2, Zenon
  <2>3. CASE o # m /\ u # m
    BY <1>3, <2>3, Zenon DEF RebalanceInv, OneOwnerPerPartition
  <2> QED
    BY <2>1, <2>2, <2>3, Zenon
<1>9. GroupInv' /\ StableCovers'
  <2>1. GroupInv'
    BY <1>2, Zenon DEF RebalanceInv, GroupInv, GroupTypeOK, RebalancesInTurn
  <2>2. StableCovers'
    BY <1>2, ZenonT(30) DEF RebalanceInv, StableCovers
  <2> QED
    BY <2>1, <2>2, Zenon
<1> QED
  BY <1>1, <1>2, <1>3, <1>6, <1>8, <1>9, Zenon DEF RebalanceInv

\* The leader's sync, with an answer of either assignment function to a list
\* that may be shorter than the group by now.
LEMMA LeaderSyncInv ==
  ASSUME RebalanceInv, LeaderSync
  PROVE  RebalanceInv'
<1>1. PICK a \in Divisions(snapshot) : Sync(leader_id, a)
  BY Zenon DEF LeaderSync
<1>2. /\ snapshot # NoSnapshot /\ snapshot' = NoSnapshot
      /\ state = "PreparingRebalance" /\ Listed(snapshot, members)
      /\ \A m \in Member \ Range(snapshot) : assignment[m] = {}
  BY Zenon DEF LeaderSync, RebalanceInv
<1>3. /\ \A m \in DOMAIN a : m \in Range(snapshot) /\ a[m] \subseteq Partition
      /\ Divides(a, snapshot) \/ Partition = {}
  BY <1>1, <1>2, DivisionsDivide, Zenon
<1>4. leader_id \in members /\ leader_id \in Member /\ members \subseteq Member
  BY <1>2 DEF RebalanceInv, GroupInv, GroupTypeOK
<1>5. Range(snapshot) \subseteq members
  BY <1>2, Zenon DEF Listed, Range
<1>6. GroupInv'
  <2>1. handle_sync_group(leader_id, joined[leader_id], a)
    BY <1>1, Zenon DEF Sync
  <2> QED
    BY <1>3, <1>4, <2>1, SyncGroupInv, Zenon DEF RebalanceInv
<1>7. /\ assignment' = [x \in Member |-> IF x \in members \cap DOMAIN a THEN a[x] ELSE assignment[x]]
      /\ state' = "Stable" /\ joined[leader_id] = generation_id /\ UNCHANGED joined
      /\ UNCHANGED <<members, leader_id, generation_id>>
      /\ held' = [held EXCEPT ![leader_id] =
                    [gen |-> generation_id, partitions |-> assignment'[leader_id]]]
  BY <1>1, <1>2, Zenon DEF Sync, handle_sync_group, CurrentGeneration, Applies
<1>8. StableCovers'
  <2> SUFFICES ASSUME NEW q \in Partition
               PROVE  \E m \in Member : {n \in Member : q \in assignment'[n]} = {m}
    BY Zenon DEF StableCovers
  <2>1. Divides(a, snapshot)
    BY <1>3, Zenon
  <2>2. /\ \A x \in Range(snapshot) : x \in Member /\ assignment'[x] = a[x]
        /\ \A x \in Member \ Range(snapshot) : assignment'[x] = {}
    BY <1>2, <1>4, <1>5, <1>7, <2>1, Zenon DEF Divides
  <2>3. PICK m \in Range(snapshot) : q \in a[m]
    BY <2>1, Zenon DEF Divides
  <2>4. \A n \in Range(snapshot) : q \in a[n] => n = m
    BY <2>1, <2>3, Zenon DEF Divides
  <2>5. {n \in Member : q \in assignment'[n]} = {m}
    BY <2>2, <2>3, <2>4, Zenon
  <2> QED
    BY <2>2, <2>3, <2>5, Zenon
<1>9. /\ DOMAIN held' = Member /\ held'[leader_id].gen = generation_id
      /\ held'[leader_id].partitions = assignment'[leader_id]
      /\ \A o \in Member : o # leader_id => held'[o] = held[o]
  BY <1>4, <1>7, Zenon DEF RebalanceInv
<1>10. \A o \in Member : held[o].gen = generation_id => held[o].partitions = {}
  <2>1. "PreparingRebalance" # "Stable"
    OBVIOUS
  <2> QED
    BY <1>2, <2>1, Zenon DEF RebalanceInv, HeldNow
<1>11. \A o \in Member : HeldNow(o)'
  <2>1. generation_id \in Nat /\ generation_id <= generation_id
    BY DEF RebalanceInv, GroupInv, GroupTypeOK
  <2> QED
    BY <1>7, <1>9, <1>10, <2>1, Zenon DEF RebalanceInv, HeldNow
<1>12. OneOwnerPerPartition'
  <2> SUFFICES ASSUME NEW o \in Member, NEW u \in Member, o # u, held'[o].gen = held'[u].gen
               PROVE  held'[o].partitions \cap held'[u].partitions = {}
    BY Zenon DEF OneOwnerPerPartition
  <2>1. CASE o = leader_id
    BY <1>9, <1>10, <2>1, Zenon
  <2>2. CASE u = leader_id
    BY <1>9, <1>10, <2>2, Zenon
  <2>3. CASE o # leader_id /\ u # leader_id
    BY <1>9, <2>3, Zenon DEF RebalanceInv, OneOwnerPerPartition
  <2> QED
    BY <2>1, <2>2, <2>3, Zenon
<1>13. \A m \in Member : m \notin members => assignment'[m] = {}
  BY <1>3, <1>5, <1>7, Zenon DEF RebalanceInv
<1>14. "PreparingRebalance" # "Stable"
  OBVIOUS
<1> QED
  BY <1>2, <1>6, <1>7, <1>8, <1>9, <1>11, <1>12, <1>13, <1>14, Zenon DEF RebalanceInv

\* What the invariant depends on, apart from the group's own.
LEMMA SameRebalanceInv ==
  ASSUME RebalanceInv, GroupInv',
         UNCHANGED <<state, members, generation_id, assignment, joined, snapshot, held>>
  PROVE  RebalanceInv'
<1>1. Listed(snapshot, members)' <=> Listed(snapshot, members)
  BY Zenon DEF Listed
<1>2. \A m \in Member : HeldNow(m)'
  BY Zenon DEF RebalanceInv, HeldNow
<1>3. StableCovers' /\ OneOwnerPerPartition'
  <2>1. StableCovers'
    BY ZenonT(30) DEF RebalanceInv, StableCovers
  <2>2. OneOwnerPerPartition'
    BY Zenon DEF RebalanceInv, OneOwnerPerPartition
  <2> QED
    BY <2>1, <2>2, Zenon
<1>4. Range(snapshot)' = Range(snapshot)
  BY Zenon DEF Range
<1> QED
  BY <1>1, <1>2, <1>3, <1>4, Zenon DEF RebalanceInv

LEMMA NextRebalanceInv == RebalanceInv /\ [RNext]_rvars => RebalanceInv'
<1> SUFFICES ASSUME RebalanceInv, [RNext]_rvars PROVE RebalanceInv'
  BY Zenon
<1>1. ASSUME NEW m \in Member, FollowerSync(m) PROVE RebalanceInv'
  <2>1. ~Applies(m) /\ snapshot' = snapshot /\ Sync(m, [x \in {} |-> {}])
    BY <1>1, Zenon DEF FollowerSync, Applies
  <2> QED
    BY <2>1, QuietSyncInv, Zenon
<1>2. ASSUME NEW m \in Member, MemberHeartbeat(m) PROVE RebalanceInv'
  <2>1. GroupInv'
    BY <1>2, HeartbeatGroupInv, Zenon DEF MemberHeartbeat, RebalanceInv
  <2>2. UNCHANGED <<state, members, leader_id, generation_id, assignment, joined, snapshot, held>>
    BY <1>2, Zenon DEF MemberHeartbeat, handle_heartbeat
  <2> QED
    BY <2>1, <2>2, SameRebalanceInv, Zenon
<1>3. CASE UNCHANGED rvars
  <2>1. UNCHANGED <<state, members, leader_id, generation_id, assignment, last_heartbeat, completed,
                    joined, snapshot, held>>
    BY <1>3, Zenon DEF rvars, group
  <2>2. GroupInv'
    BY <2>1, Zenon DEF RebalanceInv, GroupInv, GroupTypeOK, RebalancesInTurn
  <2> QED
    BY <2>1, <2>2, SameRebalanceInv, Zenon
<1>4. ASSUME NEW m \in Member, Join(m) PROVE RebalanceInv'
  BY <1>4, JoinRebalanceInv, Zenon
<1>5. CASE get_group_members
  BY <1>5, AskRebalanceInv, Zenon
<1>6. CASE LeaderSync
  BY <1>6, LeaderSyncInv, Zenon
<1> QED
  BY <1>1, <1>2, <1>3, <1>4, <1>5, <1>6, Zenon DEF RNext

LEMMA RebalanceInvariant == RSpec => []RebalanceInv
  BY InitRebalanceInv, NextRebalanceInv, PTL DEF RSpec

\* Whatever the number of members and of partitions, and whoever joins between
\* get_group_members and the leader's sync_group: once the group is stable,
\* assign_partitions_range and assign_partitions_roundrobin have given every
\* partition to exactly one member.
THEOREM StableGroupCovers == RSpec => []StableCovers
<1>1. RebalanceInv => StableCovers
  BY Zenon DEF RebalanceInv
<1> QED
  BY <1>1, RebalanceInvariant, PTL

\* No two members are answered the same partition by syncs of one generation,
\* in whatever order they and the leader sync.
THEOREM PartitionsHaveOneOwner == RSpec => []OneOwnerPerPartition
<1>1. RebalanceInv => OneOwnerPerPartition
  BY Zenon DEF RebalanceInv
<1> QED
  BY <1>1, RebalanceInvariant, PTL
-----------------------------------------------------------------------------
(* The consumers *)

\* The id c has, or is about to learn from the answer on its way.
Own(c) == IF pc[c] = "join" THEN reply[c].member_id ELSE member_id[c]

\* The generation c joined, or is about to learn that it joined.
Joined(c) == IF pc[c] = "join" THEN reply[c].generation_id ELSE gen[c]

(***************************************************************************)
(* The inductive invariant.  LeaderInTime has to be known from the moment  *)
(* the broker handled the join (Joined), and only the leader itself may be *)
(* able to end the rebalance, which needs unique ids (Own).                *)
(***************************************************************************)
ConsumerInv ==
  /\ GroupInv
  /\ ClientTypeOK
  /\ \A c \in Consumer : pc[c] = "join" =>
       reply[c] # NoReply /\ member_id[c] \in {NoMember, reply[c].member_id}
  /\ \A c \in Consumer : Own(c) # NoMember => Own(c) \in members
  /\ \A c, d \in Consumer : Own(c) = Own(d) /\ Own(c) # NoMember => c = d
  /\ \A c \in Consumer :
       pc[c] \in {"join", "sync"} =>
         /\ Own(c) # NoMember
         /\ Joined(c) \in 1..generation_id
         /\ Own(c) = leader_id => Joined(c) = generation_id /\ state = "PreparingRebalance"

LEMMA InitConsumerInv == CInit => ConsumerInv
<1> SUFFICES ASSUME CInit PROVE ConsumerInv
  BY Zenon
<1>1. GroupInv
  BY InitGroupInv, Zenon DEF CInit
<1> QED
  BY <1>1, Zenon DEF CInit, ConsumerInv, ClientTypeOK, Own

\* A step that concerns c alone: the others keep their place, id and answer.
OnlyFor(c) ==
  \A d \in Consumer \ {c} :
    /\ pc'[d] = pc[d] /\ member_id'[d] = member_id[d]
    /\ gen'[d] = gen[d] /\ reply'[d] = reply[d]

LEMMA SendJoinInv ==
  ASSUME ConsumerInv, NEW c \in Consumer, NEW m \in Member, SendJoin(c, m)
  PROVE  ConsumerInv'
<1> USE GroupAssumption, ConsumerAssumption
<1>1. GroupInv'
  BY JoinGroupInv, Zenon DEF SendJoin, ConsumerInv
<1>2. [member_id |-> m, leader_id |-> leader_id', generation_id |-> generation_id'] \in JoinResponse
  BY <1>1, Zenon DEF SendJoin, handle_join_group, JoinResponse, ConsumerInv, GroupInv, GroupTypeOK
<1>3. /\ OnlyFor(c) /\ pc'[c] = "join" /\ member_id'[c] = member_id[c]
      /\ reply'[c] # NoReply
      /\ reply'[c].member_id = m /\ reply'[c].generation_id = generation_id'
  BY <1>2, Zenon DEF SendJoin, OnlyFor, ConsumerInv, ClientTypeOK
<1>4. ClientTypeOK'
  BY <1>2, Zenon DEF SendJoin, ConsumerInv, ClientTypeOK
<1>5. /\ Own(c)' = m /\ Joined(c)' = generation_id'
      /\ \A d \in Consumer \ {c} : Own(d)' = Own(d) /\ Joined(d)' = Joined(d) /\ pc'[d] = pc[d]
  BY <1>3, Zenon DEF OnlyFor, Own, Joined
<1>6. \A d \in Consumer \ {c} : Own(d) # m
  <2>1. CASE member_id[c] = NoMember
    BY <2>1, Zenon DEF SendJoin, IdFor, ConsumerInv
  <2>2. CASE member_id[c] # NoMember
    BY <2>2, Zenon DEF SendJoin, IdFor, ConsumerInv, Own
  <2> QED
    BY <2>1, <2>2, Zenon
<1>7. /\ members' = members \cup {m} /\ m # NoMember
      /\ state' = "PreparingRebalance"
      /\ generation_id' \in Nat /\ generation_id' >= 1 /\ generation_id' >= generation_id
      /\ state = "PreparingRebalance" => generation_id' = generation_id
      /\ leader_id' = leader_id \/ leader_id' = m
  BY DEF SendJoin, handle_join_group, NewMetadata, Restarts, ConsumerInv, GroupInv, GroupTypeOK
<1>8. \A d \in Consumer : Own(d)' # NoMember => Own(d)' \in members'
  BY <1>5, <1>7, Zenon DEF ConsumerInv
<1>9. \A d, e \in Consumer : Own(d)' = Own(e)' /\ Own(d)' # NoMember => d = e
  BY <1>5, <1>6 DEF ConsumerInv
<1>10. ASSUME NEW d \in Consumer, pc'[d] \in {"join", "sync"}
       PROVE  /\ Own(d)' # NoMember
              /\ Joined(d)' \in 1..generation_id'
              /\ Own(d)' = leader_id' => Joined(d)' = generation_id' /\ state' = "PreparingRebalance"
  <2>1. CASE d = c
    BY <1>5, <1>7, <2>1
  <2>2. CASE d # c
    <3>1. /\ pc[d] \in {"join", "sync"} /\ Own(d)' = Own(d) /\ Joined(d)' = Joined(d)
          /\ Own(d) # NoMember /\ Joined(d) \in 1..generation_id /\ Own(d) # m
      BY <1>5, <1>6, <1>10, <2>2, Zenon DEF ConsumerInv
    <3>2. Own(d)' = leader_id' => Own(d) = leader_id
      BY <1>7, <3>1, Zenon
    <3>3. generation_id \in Nat
      BY Zenon DEF ConsumerInv, GroupInv, GroupTypeOK
    <3> QED
      BY <1>7, <3>1, <3>2, <3>3 DEF ConsumerInv
  <2> QED
    BY <2>1, <2>2, Zenon
<1>11. \A d \in Consumer : pc'[d] = "join" =>
         reply'[d] # NoReply /\ member_id'[d] \in {NoMember, reply'[d].member_id}
  BY <1>3 DEF OnlyFor, SendJoin, IdFor, ConsumerInv
<1> QED
  BY <1>1, <1>4, <1>8, <1>9, <1>10, <1>11, Zenon DEF ConsumerInv

\* What the steps after the join have in common: they move c on, and at most
\* end the rebalance, which only the leader does.
CallMovesOn(c) ==
  /\ OnlyFor(c)
  /\ UNCHANGED <<members, leader_id, generation_id>>
  /\ pc'[c] # "join"
  /\ Own(c)' \in {NoMember, Own(c)}
  /\ pc'[c] = "sync" => pc[c] = "join" /\ Own(c)' = Own(c) /\ Joined(c)' = Joined(c)
  /\ state' = state \/ (pc[c] = "sync" /\ pc'[c] # "sync" /\ Own(c) = leader_id)

LEMMA MovingOnInv ==
  ASSUME ConsumerInv, NEW c \in Consumer, CallMovesOn(c), GroupInv', ClientTypeOK'
  PROVE  ConsumerInv'
<1>1. \A d \in Consumer \ {c} : Own(d)' = Own(d) /\ Joined(d)' = Joined(d) /\ pc'[d] = pc[d]
  BY Zenon DEF CallMovesOn, OnlyFor, Own, Joined
<1>2. \A d \in Consumer : Own(d)' # NoMember => Own(d)' = Own(d)
  BY <1>1, Zenon DEF CallMovesOn
<1>3. \A d \in Consumer : Own(d)' # NoMember => Own(d)' \in members'
  BY <1>2, Zenon DEF CallMovesOn, ConsumerInv
<1>4. \A d, e \in Consumer : Own(d)' = Own(e)' /\ Own(d)' # NoMember => d = e
  BY <1>2, Zenon DEF ConsumerInv
<1>5. ASSUME NEW d \in Consumer, pc'[d] \in {"join", "sync"}
      PROVE  /\ Own(d)' # NoMember
             /\ Joined(d)' \in 1..generation_id'
             /\ Own(d)' = leader_id' => Joined(d)' = generation_id' /\ state' = "PreparingRebalance"
  <2>1. /\ pc[d] \in {"join", "sync"}
        /\ Own(d)' = Own(d) /\ Joined(d)' = Joined(d)
    BY <1>1, <1>5, Zenon DEF CallMovesOn
  <2>2. Own(d) = leader_id => state' = state
    BY <1>5, <2>1, Zenon DEF CallMovesOn, ConsumerInv
  <2> QED
    BY <2>1, <2>2, Zenon DEF CallMovesOn, ConsumerInv
<1>6. \A d \in Consumer : pc'[d] = "join" =>
         reply'[d] # NoReply /\ member_id'[d] \in {NoMember, reply'[d].member_id}
  BY Zenon DEF CallMovesOn, OnlyFor, ConsumerInv
<1> QED
  BY <1>3, <1>4, <1>5, <1>6, Zenon DEF ConsumerInv

LEMMA NextConsumerInv ==
  ASSUME ConsumerInv, [CNext]_cvars
  PROVE  ConsumerInv'
<1> USE GroupAssumption, ConsumerAssumption
<1>1. ASSUME NEW c \in Consumer, ReceiveJoin(c)
      PROVE  ConsumerInv'
  <2>1. reply[c] \in JoinResponse
    BY <1>1, Zenon DEF ReceiveJoin, ConsumerInv, ClientTypeOK
  <2>2. ClientTypeOK'
    BY <1>1, <2>1, Zenon DEF ReceiveJoin, JoinResponse, ConsumerInv, ClientTypeOK
  <2>3. GroupInv'
    BY <1>1, Zenon DEF ReceiveJoin, group, ConsumerInv, GroupInv, GroupTypeOK, RebalancesInTurn
  <2>4. CallMovesOn(c)
    BY <1>1, Zenon DEF ReceiveJoin, CallMovesOn, OnlyFor, Own, Joined, group, ConsumerInv, ClientTypeOK
  <2> QED
    BY <2>2, <2>3, <2>4, MovingOnInv, Zenon
<1>2. ASSUME NEW c \in Consumer, LoseJoin(c) \/ SyncRefused(c)
      PROVE  ConsumerInv'
  <2>1. ClientTypeOK'
    BY <1>2, Zenon DEF LoseJoin, SyncRefused, ConsumerInv, ClientTypeOK
  <2>2. GroupInv'
    BY <1>2, Zenon DEF LoseJoin, SyncRefused, group, ConsumerInv, GroupInv, GroupTypeOK, RebalancesInTurn
  <2>3. CallMovesOn(c)
    BY <1>2, Zenon DEF LoseJoin, SyncRefused, CallMovesOn, OnlyFor, Own, Joined, group,
                ConsumerInv, ClientTypeOK
  <2> QED
    BY <2>1, <2>2, <2>3, MovingOnInv, Zenon
<1>3. ASSUME NEW c \in Consumer, SyncOk(c) \/ LoseSync(c)
      PROVE  ConsumerInv'
  <2>1. member_id[c] \in Member /\ pc[c] = "sync"
    BY <1>3, Zenon DEF SyncOk, LoseSync, ConsumerInv, ClientTypeOK, Own
  <2>2. ClientTypeOK'
    <3>1. PartitionOf(member_id[c]) \in {0, 1}
      BY <2>1 DEF PartitionOf
    <3>2. {PartitionOf(member_id[c])} \in SUBSET {0, 1}
      BY <3>1, Zenon
    <3>3. <<member_id[c], gen[c]>> \in Member \X Nat
      BY <2>1, Zenon DEF ConsumerInv, ClientTypeOK
    <3>4. /\ assigned' \in [Consumer -> SUBSET {0, 1}]
          /\ beating' \subseteq Member \X Nat
      BY <1>3, <3>2, <3>3, ZenonT(30) DEF SyncOk, LoseSync, ConsumerInv, ClientTypeOK
    <3> QED
      BY <1>3, <3>4, Zenon DEF SyncOk, LoseSync, ConsumerInv, ClientTypeOK
  <2>3. CASE handle_sync_group(member_id[c], gen[c], [m \in {} |-> {}])
    <3>1. GroupInv'
      BY <2>1, <2>3, SyncGroupInv DEF ConsumerInv
    <3>2. /\ UNCHANGED <<members, leader_id, generation_id>>
          /\ state' = state \/ member_id[c] = leader_id
      BY <2>3, Zenon DEF handle_sync_group, Applies
    <3>3. CallMovesOn(c)
      BY <1>3, <2>1, <3>2, Zenon DEF SyncOk, LoseSync, CallMovesOn, OnlyFor, Own, Joined,
                              ConsumerInv, ClientTypeOK
    <3> QED
      BY <2>2, <3>1, <3>3, MovingOnInv, Zenon
  <2>4. CASE LoseSync(c) /\ UNCHANGED group
    <3>1. GroupInv'
      BY <2>4, Zenon DEF group, ConsumerInv, GroupInv, GroupTypeOK, RebalancesInTurn
    <3>2. CallMovesOn(c)
      BY <2>1, <2>4, Zenon DEF LoseSync, CallMovesOn, OnlyFor, Own, Joined, group,
                        ConsumerInv, ClientTypeOK
    <3> QED
      BY <2>2, <3>1, <3>2, MovingOnInv, Zenon
  <2> QED
    BY <1>3, <2>3, <2>4, Zenon DEF SyncOk, LoseSync
<1>4. CASE Heartbeat
  <2>1. PICK b \in beating : handle_heartbeat(b[1], b[2])
    BY <1>4, Zenon DEF Heartbeat
  <2>2. b[1] \in Member
    BY Zenon DEF ConsumerInv, ClientTypeOK
  <2>3. GroupInv'
    BY <2>1, <2>2, HeartbeatGroupInv, Zenon DEF ConsumerInv
  <2> QED
    BY <1>4, <2>1, <2>3, Zenon DEF Heartbeat, client, handle_heartbeat, ConsumerInv, ClientTypeOK,
                            Own, Joined
<1>5. CASE UNCHANGED cvars
  BY <1>5, Zenon DEF cvars, client, group, ConsumerInv, GroupInv, GroupTypeOK, RebalancesInTurn,
              ClientTypeOK, Own, Joined
<1> QED
  BY <1>1, <1>2, <1>3, <1>4, <1>5, SendJoinInv, Zenon DEF CNext, Settle

LEMMA ConsumerInvariant == CSpec => []ConsumerInv
  BY InitConsumerInv, NextConsumerInv, PTL DEF CSpec

\* The consumers' state keeps its types.
THEOREM ConsumersTyped == CSpec => []ClientTypeOK
<1>1. ConsumerInv => ClientTypeOK
  BY Zenon DEF ConsumerInv
<1> QED
  BY <1>1, ConsumerInvariant, PTL

\* The sync of the group's leader always finds the generation it joined, still
\* in rebalance.
THEOREM LeaderIsInTime == CSpec => []LeaderInTime
<1>1. ConsumerInv => LeaderInTime
  BY Zenon DEF ConsumerInv, LeaderInTime, Own, Joined
<1> QED
  BY <1>1, ConsumerInvariant, PTL

\* A consumer's sync is refused only when the leader has completed the
\* generation the consumer joined.
THEOREM RefusalMeansOvertaken == CSpec => []RefusedOnlyWhenOvertaken
<1>1. ASSUME ConsumerInv, NEW c \in Consumer, pc[c] = "sync", ~CurrentGeneration(gen[c])
      PROVE  gen[c] \in completed
  <2>1. gen[c] \in 1..generation_id /\ generation_id \in Nat
    BY <1>1, Zenon DEF ConsumerInv, Joined, GroupInv, GroupTypeOK
  <2>2. gen[c] # generation_id
    BY <1>1, <2>1, Zenon DEF CurrentGeneration, ConsumerInv, GroupInv
  <2> QED
    BY <1>1, <2>1, <2>2 DEF ConsumerInv, GroupInv, RebalancesInTurn
<1>2. ConsumerInv => RefusedOnlyWhenOvertaken
  BY <1>1, Zenon DEF RefusedOnlyWhenOvertaken
<1> QED
  BY <1>2, ConsumerInvariant, PTL

\* No two consumers ever have the same member id.
THEOREM MemberIdsUnique == CSpec => []IdsAreUnique
<1>1. ConsumerInv => IdsAreUnique
  BY Zenon DEF ConsumerInv, IdsAreUnique, Own
<1> QED
  BY <1>1, ConsumerInvariant, PTL
=============================================================================

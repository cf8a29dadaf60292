----------------------------- MODULE Rebalance -----------------------------
(***************************************************************************)
(* The group coordinator used the way its API is laid out: a member joins, *)
(* the leader asks get_group_members for the members, divides the          *)
(* partitions with one of the two assignment functions and sends the       *)
(* result in its sync; the others sync without a map.  Between any two of  *)
(* these calls other members may join.  (The client in crates/consumer     *)
(* does not do this yet: see ConsumerGroup.)                               *)
(***************************************************************************)
EXTENDS GroupCoordinator, Sequences, Functions, Lists

CONSTANT NumPartitions, NoSnapshot

ASSUME RebalanceAssumption ==
  /\ NumPartitions \in Nat
  /\ Partition = 0..(NumPartitions - 1)

VARIABLES
  joined,   \* the generation each member got from its last join
  snapshot, \* what get_group_members answered the leader, if it has asked
  held      \* the partitions each member got from its last sync, and when

rvars == <<group, joined, snapshot, held>>
-----------------------------------------------------------------------------
(***************************************************************************)
(* assign_partitions_range and assign_partitions_roundrobin, for member    *)
(* ids in the order of the argument.  A list of partitions is kept as a    *)
(* set.                                                                    *)
(***************************************************************************)
\* Mutant of Share: the extra partitions go to one member too few.
ShareShort(ids, i) ==
  (NumPartitions \div Len(ids)) + (IF i + 1 < NumPartitions % Len(ids) THEN 1 ELSE 0)

\* num_partitions_for_member of the i-th member, counting from 0
Share(ids, i) ==
  (NumPartitions \div Len(ids)) + (IF i < NumPartitions % Len(ids) THEN 1 ELSE 0)

\* partition_idx after the turns of the first i members
partition_idx(ids) ==
  LET after[i \in 0..Len(ids)] == IF i = 0 THEN 0 ELSE after[i - 1] + Share(ids, i - 1)
  IN  after

assign_partitions_range(ids) ==
  [m \in Range(ids) |->
     LET i == CHOOSE k \in 1..Len(ids) : ids[k] = m
     IN  partition_idx(ids)[i - 1]..(partition_idx(ids)[i] - 1)]

assign_partitions_roundrobin(ids) ==
  [m \in Range(ids) |-> {q \in Partition : ids[(q % Len(ids)) + 1] = m}]

\* What the two functions return: an empty map when there is nothing to divide.
Divisions(ids) ==
  IF ids = <<>> \/ NumPartitions = 0 THEN {[m \in {} |-> {}]}
  ELSE {assign_partitions_range(ids), assign_partitions_roundrobin(ids)}
-----------------------------------------------------------------------------
RInit ==
  /\ GroupInit
  /\ joined = [m \in Member |-> 0]
  /\ snapshot = NoSnapshot
  /\ held = [m \in Member |-> [gen |-> 0, partitions |-> {}]]

Join(m) ==
  /\ handle_join_group(m)
  /\ joined' = [joined EXCEPT ![m] = generation_id']
  /\ snapshot' = IF m = leader_id' THEN NoSnapshot ELSE snapshot
  /\ UNCHANGED held

\* The leader calls get_group_members, which lists a HashMap.
get_group_members ==
  /\ leader_id # NoMember /\ joined[leader_id] = generation_id
  /\ state = "PreparingRebalance" /\ snapshot = NoSnapshot
  /\ snapshot' \in Orders(members)
  /\ UNCHANGED <<group, joined, held>>

Sync(m, a) ==
  /\ handle_sync_group(m, joined[m], a)
  /\ held' = [held EXCEPT ![m] = [gen |-> joined[m], partitions |-> assignment'[m]]]
  /\ UNCHANGED joined

LeaderSync ==
  /\ snapshot # NoSnapshot
  /\ \E a \in Divisions(snapshot) : Sync(leader_id, a)
  /\ snapshot' = NoSnapshot

FollowerSync(m) ==
  /\ m \in members \ {leader_id}
  /\ Sync(m, [x \in {} |-> {}])
  /\ UNCHANGED snapshot

MemberHeartbeat(m) ==
  /\ handle_heartbeat(m, joined[m])
  /\ UNCHANGED <<joined, snapshot, held>>

RNext ==
  \/ \E m \in Member : Join(m) \/ FollowerSync(m) \/ MemberHeartbeat(m)
  \/ get_group_members
  \/ LeaderSync

RSpec == RInit /\ [][RNext]_rvars
-----------------------------------------------------------------------------
\* In a stable group every partition has exactly one owner, also when members
\* joined after the leader asked who they are.
StableCovers ==
  state = "Stable" =>
    \A q \in Partition : \E m \in Member : {n \in Member : q \in assignment[n]} = {m}

\* Two members that synced in the same generation hold no partition in common,
\* whichever of them synced before the leader: nobody is handed an assignment
\* of an earlier generation.
OneOwnerPerPartition ==
  \A m, n \in Member :
    m # n /\ held[m].gen = held[n].gen => held[m].partitions \cap held[n].partitions = {}
=============================================================================

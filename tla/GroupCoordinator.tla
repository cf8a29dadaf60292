-------------------------- MODULE GroupCoordinator --------------------------
(***************************************************************************)
(* One consumer group of the group coordinator                             *)
(* (crates/broker/src/coordinator.rs), called by anybody with any member   *)
(* id, generation and assignment.  Every handler holds the group's write   *)
(* lock, so each is one action; a call that only returns Err is left out.  *)
(* A group that does not exist yet is one in state Empty without members:  *)
(* the handler that creates it leaves that state at once.  Members are     *)
(* never removed, and CompletingRebalance and Dead are never entered.      *)
(***************************************************************************)
EXTENDS Integers

CONSTANTS
  Member,        \* member ids
  Partition,
  GroupAssignments, \* the assignment maps callers send: partial functions
                    \* from Member to sets of partitions
  MaxGeneration, \* bound: joins that would start a later generation
  NoMember

ASSUME GroupAssumption ==
  /\ NoMember \notin Member
  /\ MaxGeneration \in Nat
  /\ \A a \in GroupAssignments : \A m \in DOMAIN a : a[m] \subseteq Partition

VARIABLES
  state, members, leader_id, generation_id,
  assignment,     \* MemberMetadata.assignment
  last_heartbeat, \* the generation in which MemberMetadata.last_heartbeat was set
  completed       \* history: generations whose rebalance the leader completed

group == <<state, members, leader_id, generation_id, assignment, last_heartbeat, completed>>

\* The GroupMetadata a first join creates.
GroupInit ==
  /\ state = "Empty" /\ members = {} /\ leader_id = NoMember /\ generation_id = 0
  /\ assignment = [m \in Member |-> {}]
  /\ last_heartbeat = [m \in Member |-> 0]
  /\ completed = {}

\* Mutant of Restarts: joining during a rebalance starts another one.
RestartsAlways == TRUE

\* Whether a join starts a new generation.
Restarts == state \in {"Stable", "Empty"}

\* Mutant of NewMetadata: a member that joins again keeps what it had.
KeptMetadata(m) ==
  /\ members' = members \cup {m}
  /\ last_heartbeat' = [last_heartbeat EXCEPT ![m] = generation_id']
  /\ UNCHANGED assignment

\* The MemberMetadata that a join inserts, or replaces.
NewMetadata(m) ==
  /\ members' = members \cup {m}
  /\ last_heartbeat' = [last_heartbeat EXCEPT ![m] = generation_id']
  /\ assignment' = [assignment EXCEPT ![m] = {}]

\* Mutant of handle_join_group: a member that joins a stable group again does
\* not start a rebalance.
handle_join_groupQuiet(m) ==
  /\ Restarts => generation_id < MaxGeneration
  /\ leader_id' = IF leader_id = NoMember THEN m ELSE leader_id
  /\ state' = IF m \in members THEN state ELSE "PreparingRebalance"
  /\ generation_id' = IF Restarts /\ m \notin members THEN generation_id + 1 ELSE generation_id
  /\ NewMetadata(m)
  /\ UNCHANGED completed

handle_join_group(m) ==
  /\ Restarts => generation_id < MaxGeneration
  /\ leader_id' = IF leader_id = NoMember THEN m ELSE leader_id
  /\ state' = "PreparingRebalance"
  /\ generation_id' = IF Restarts THEN generation_id + 1 ELSE generation_id
  /\ NewMetadata(m)
  /\ UNCHANGED completed

\* Mutant of Applies: only a member that is alone ends the rebalance.
AppliesAlone(m) == state = "PreparingRebalance" /\ members = {m}

\* Whether a sync of member m ends the rebalance.
Applies(m) == state = "PreparingRebalance" /\ m = leader_id

\* The group exists and the caller's generation is its generation.
CurrentGeneration(g) == state # "Empty" /\ g = generation_id

\* The answer to the caller is assignment'[m].
handle_sync_group(m, g, a) ==
  /\ CurrentGeneration(g)
  /\ IF Applies(m)
     THEN /\ assignment' = [x \in Member |-> IF x \in members \cap DOMAIN a THEN a[x]
                                             ELSE assignment[x]]
          /\ state' = "Stable"
          /\ completed' = completed \cup {g}
     ELSE UNCHANGED <<assignment, state, completed>>
  /\ UNCHANGED <<members, leader_id, generation_id, last_heartbeat>>

handle_heartbeat(m, g) ==
  /\ CurrentGeneration(g) /\ m \in members
  /\ last_heartbeat' = [last_heartbeat EXCEPT ![m] = generation_id]
  /\ UNCHANGED <<state, members, leader_id, generation_id, assignment, completed>>

GroupNext ==
  \E m \in Member :
    \/ handle_join_group(m)
    \/ \E g \in 0..MaxGeneration :
         \/ \E a \in GroupAssignments : handle_sync_group(m, g, a)
         \/ handle_heartbeat(m, g)

GroupSpec == GroupInit /\ [][GroupNext]_group
-----------------------------------------------------------------------------
GroupTypeOK ==
  /\ state \in {"Empty", "PreparingRebalance", "Stable"}
  /\ members \subseteq Member
  /\ leader_id \in Member \cup {NoMember}
  /\ generation_id \in Nat
  /\ assignment \in [Member -> SUBSET Partition]
  /\ last_heartbeat \in [Member -> Nat]
  /\ completed \subseteq Nat

\* A new generation starts only after the leader completed the one before:
\* whoever joins in between is let into the rebalance under way.
RebalancesInTurn ==
  completed = (IF state = "Stable" THEN 1..generation_id ELSE 1..(generation_id - 1))

\* The assignments of a stable group stay as the leader sent them until the
\* next join: late, repeated and outdated syncs change nothing.
StableIsFixed ==
  [][state = "Stable" /\ state' = "Stable" =>
       UNCHANGED <<assignment, generation_id, members>>]_group
=============================================================================

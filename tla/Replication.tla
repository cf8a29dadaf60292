---------------------------- MODULE Replication ----------------------------
(***************************************************************************)
(* ReplicationManager (crates/broker/src/replication.rs) for one           *)
(* partition: the replicas, how far behind the leader they last reported   *)
(* to be, and elections.  Every method holds the write lock of isr_sets,   *)
(* so each is one action.  Reports arrive in any order and as late as they *)
(* like: a broker's report may be handled after it became the leader.      *)
(***************************************************************************)
EXTENDS Integers

CONSTANTS
  Broker,
  MaxLag,    \* lag up to which a follower is in sync (100 in the code)
  MaxReported, \* bound: offsets reported
  NoBroker, NoReplica

ReplicaInfo ==
  [state : {"Leader", "Follower", "OutOfSync"}, last_fetch_offset : Nat, lag : Int]

ASSUME ReplicationAssumption ==
  /\ MaxLag \in Nat /\ MaxReported \in Nat
  /\ NoBroker \notin Broker /\ NoReplica \notin ReplicaInfo

VARIABLES leader_id, replicas

isr == <<leader_id, replicas>>

RInit ==
  /\ leader_id = NoBroker
  /\ replicas = [b \in Broker |-> NoReplica]

Known(b) == replicas[b] # NoReplica

NewReplica(s) == [state |-> s, last_fetch_offset |-> 0, lag |-> 0]

init_partition(b) ==
  /\ leader_id' = b
  /\ replicas' = [x \in Broker |-> IF x = b THEN NewReplica("Leader") ELSE NoReplica]

\* Adding a broker that is a replica already starts it over.
add_follower(b) ==
  /\ leader_id # NoBroker
  /\ replicas' = [replicas EXCEPT ![b] = NewReplica("Follower")]
  /\ UNCHANGED leader_id

StateAt(lag) == IF lag <= MaxLag THEN "Follower" ELSE "OutOfSync"

Reported(offset, leader_offset) ==
  [state |-> StateAt(leader_offset - offset),
   last_fetch_offset |-> offset, lag |-> leader_offset - offset]

update_follower_offset(b, offset, leader_offset) ==
  /\ Known(b)
  /\ replicas' = [replicas EXCEPT ![b] = Reported(offset, leader_offset)]
  /\ UNCHANGED leader_id

\* Leader or Follower
get_isr == {b \in Broker : Known(b) /\ replicas[b].state \in {"Leader", "Follower"}}

\* Mutant of AfterElection: the old leader is not told.
AfterElectionUntold(b, x) ==
  IF x = b THEN [replicas[x] EXCEPT !.state = "Leader"] ELSE replicas[x]

\* Replica x once b is elected.
AfterElection(b, x) ==
  IF x = b THEN [replicas[x] EXCEPT !.state = "Leader"]
  ELSE IF Known(x) /\ replicas[x].state = "Leader" THEN [replicas[x] EXCEPT !.state = "Follower"]
  ELSE replicas[x]

\* The first member of the ISR in the order of a HashMap: any of them.
elect_leader(b) ==
  /\ b \in get_isr
  /\ replicas' = [x \in Broker |-> AfterElection(b, x)]
  /\ leader_id' = b

RNext ==
  \E b \in Broker :
    \/ init_partition(b)
    \/ add_follower(b)
    \/ \E o, l \in 0..MaxReported : update_follower_offset(b, o, l)
    \/ elect_leader(b)

RSpec == RInit /\ [][RNext]_isr
-----------------------------------------------------------------------------
ReplicasTyped ==
  /\ leader_id \in Broker \cup {NoBroker}
  /\ replicas \in [Broker -> ReplicaInfo \cup {NoReplica}]

\* The leader that get_leader names is one of the replicas, and no other
\* replica takes itself for the leader: elections and late reports never
\* leave two of them.
OneLeader ==
  /\ leader_id # NoBroker => Known(leader_id)
  /\ \A b \in Broker : Known(b) /\ replicas[b].state = "Leader" => b = leader_id

\* A replica counts as in sync exactly when its last report was close enough,
\* also after it led and lost the lead: no election can pick one that fell
\* behind.
InSyncIsClose ==
  \A b \in Broker : Known(b) => (b \in get_isr <=> replicas[b].lag <= MaxLag)
=============================================================================

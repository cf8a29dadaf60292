--------------------------- MODULE ConsumerGroup ---------------------------
(***************************************************************************)
(* Consumers of one group (crates/consumer/src/consumer.rs) and the group  *)
(* coordinator behind the broker's join_group, sync_group and heartbeat    *)
(* calls.  A consumer subscribes: it joins, syncs with an empty assignment *)
(* map, computes its partition from the bytes of its member id and starts  *)
(* a heartbeat task.  Calls of several consumers interleave, and the       *)
(* answer to a call can be lost after the broker has handled it; subscribe *)
(* then fails, and the application may call it again.                      *)
(***************************************************************************)
EXTENDS GroupCoordinator

CONSTANTS Consumer, Hash, NoReply

JoinResponse == [member_id : Member, leader_id : Member, generation_id : Nat]

ASSUME ConsumerAssumption ==
  /\ Hash \in [Member -> Nat]
  /\ NoReply \notin JoinResponse

VARIABLES
  pc,        \* "out", "join" (answer on its way), "sync" (about to sync),
             \* "in", or "failed"
  member_id, \* Consumer.member_id, NoMember for ""
  gen,       \* Consumer.generation_id
  reply,     \* the JoinGroupResponse on its way
  assigned,  \* Consumer.assignment
  beating    \* <<member_id, generation_id>> of the heartbeat tasks started

client == <<pc, member_id, gen, reply, assigned, beating>>
cvars == <<group, client>>

CInit ==
  /\ GroupInit
  /\ pc = [c \in Consumer |-> "out"]
  /\ member_id = [c \in Consumer |-> NoMember]
  /\ gen = [c \in Consumer |-> 0]
  /\ reply = [c \in Consumer |-> NoReply]
  /\ assigned = [c \in Consumer |-> {}]
  /\ beating = {}

\* The id a join request of c gets: its own, or a new UUID.
IdFor(c, m) == IF member_id[c] = NoMember THEN m \notin members ELSE m = member_id[c]

\* Consumer::subscribe sends its join; the broker handles it.
SendJoin(c, m) ==
  /\ pc[c] \in {"out", "in", "failed"}
  /\ IdFor(c, m)
  /\ handle_join_group(m)
  /\ reply' = [reply EXCEPT ![c] =
                 [member_id |-> m, leader_id |-> leader_id', generation_id |-> generation_id']]
  /\ pc' = [pc EXCEPT ![c] = "join"]
  /\ UNCHANGED <<member_id, gen, assigned, beating>>

ReceiveJoin(c) ==
  /\ pc[c] = "join"
  /\ member_id' = [member_id EXCEPT ![c] = reply[c].member_id]
  /\ gen' = [gen EXCEPT ![c] = reply[c].generation_id]
  /\ reply' = [reply EXCEPT ![c] = NoReply]
  /\ pc' = [pc EXCEPT ![c] = "sync"]
  /\ UNCHANGED <<group, assigned, beating>>

\* The answer to the join is lost: the id it carried is lost with it.
LoseJoin(c) ==
  /\ pc[c] = "join"
  /\ reply' = [reply EXCEPT ![c] = NoReply]
  /\ pc' = [pc EXCEPT ![c] = "failed"]
  /\ UNCHANGED <<group, member_id, gen, assigned, beating>>

PartitionOf(m) == Hash[m] % 2

\* The sync succeeds; the assignment in its answer is not looked at.
SyncOk(c) ==
  /\ pc[c] = "sync"
  /\ handle_sync_group(member_id[c], gen[c], [m \in {} |-> {}])
  /\ assigned' = [assigned EXCEPT ![c] = {PartitionOf(member_id[c])}]
  /\ beating' = beating \cup {<<member_id[c], gen[c]>>}
  /\ pc' = [pc EXCEPT ![c] = "in"]
  /\ UNCHANGED <<member_id, gen, reply>>

\* The broker refuses the sync: the group has moved on.
SyncRefused(c) ==
  /\ pc[c] = "sync" /\ ~CurrentGeneration(gen[c])
  /\ pc' = [pc EXCEPT ![c] = "failed"]
  /\ UNCHANGED <<group, member_id, gen, reply, assigned, beating>>

\* The call fails: the sync or its answer is lost.
LoseSync(c) ==
  /\ pc[c] = "sync"
  /\ \/ handle_sync_group(member_id[c], gen[c], [m \in {} |-> {}])
     \/ UNCHANGED group
  /\ pc' = [pc EXCEPT ![c] = "failed"]
  /\ UNCHANGED <<member_id, gen, reply, assigned, beating>>

\* A heartbeat task never stops and ignores every answer; a heartbeat that the
\* broker refuses changes nothing.
Heartbeat ==
  /\ \E b \in beating : handle_heartbeat(b[1], b[2])
  /\ UNCHANGED client

Settle(c) == ReceiveJoin(c) \/ SyncOk(c) \/ SyncRefused(c)

CNext ==
  \/ \E c \in Consumer :
       \/ \E m \in Member : SendJoin(c, m)
       \/ LoseJoin(c) \/ LoseSync(c)
       \/ Settle(c)
  \/ Heartbeat

CSpec == CInit /\ [][CNext]_cvars

\* A consumer whose call is under way goes on with it.
CFairSpec == CSpec /\ \A c \in Consumer : WF_cvars(Settle(c))
-----------------------------------------------------------------------------
ClientTypeOK ==
  /\ pc \in [Consumer -> {"out", "join", "sync", "in", "failed"}]
  /\ member_id \in [Consumer -> Member \cup {NoMember}]
  /\ gen \in [Consumer -> Nat]
  /\ reply \in [Consumer -> JoinResponse \cup {NoReply}]
  /\ assigned \in [Consumer -> SUBSET {0, 1}]
  /\ beating \subseteq Member \X Nat

\* The group's leader never comes too late with its sync: nothing that other
\* consumers do between its join and its sync can end or renew the generation
\* it joined.
LeaderInTime ==
  \A c \in Consumer :
    pc[c] = "sync" /\ member_id[c] = leader_id =>
      gen[c] = generation_id /\ state = "PreparingRebalance"

\* A sync is refused only after the leader completed the generation it names.
RefusedOnlyWhenOvertaken ==
  \A c \in Consumer :
    pc[c] = "sync" /\ ~CurrentGeneration(gen[c]) => gen[c] \in completed

\* A member id is never shared by two consumers, however often they join, fail
\* and join again.
IdsAreUnique ==
  \A c, d \in Consumer :
    member_id[c] = member_id[d] /\ member_id[c] # NoMember => c = d

\* A leader that has joined brings the group to Stable, unless its call fails.
LeaderSettlesGroup ==
  \A c \in Consumer :
    pc[c] = "sync" /\ member_id[c] = leader_id ~> state = "Stable" \/ pc[c] = "failed"
=============================================================================

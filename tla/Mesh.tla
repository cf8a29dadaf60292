-------------------------------- MODULE Mesh --------------------------------
(***************************************************************************)
(* How brokers learn of each other (P2PMesh).  A broker keeps a table of   *)
(* the nodes it knows and one of who owns which partition.  Both grow when *)
(* it asks another broker for its tables: the bootstrap brokers once, when *)
(* it starts, and two known nodes at every tick of its gossip task.  Both  *)
(* shrink when records grow old.                                           *)
(*                                                                         *)
(* A broker, its address and the partition it serves go by one name.  The  *)
(* gossip channel is local to a process and its only subscriber skips the  *)
(* process's own messages: heartbeats and announcements reach nobody, and  *)
(* no caller of the gossip_message call exists, so last_seen is set when a *)
(* record is made and never again.                                         *)
(***************************************************************************)
EXTENDS Integers

CONSTANTS
  Node,       \* the brokers
  Bootstrap,  \* Bootstrap[n]: the brokers named to n by --bootstrap
  MaxStarts   \* bound: how often a broker's process is started

ASSUME MeshAssumption ==
  /\ Bootstrap \in [Node -> SUBSET Node]
  /\ MaxStarts \in Nat \ {0}

VARIABLES
  phase,       \* phase[n]: "off", "joining" (not serving yet) or "up"
  starts,      \* starts[n]: how often n was started; makes its ids fresh
  nodes,       \* MeshTopology::nodes: the ids of the records n has
  stale,       \* those of them that are older than node_timeout
  partitions,  \* MeshTopology::partitions: the owner ids n has
  boot,        \* the bootstrap brokers n has still to ask
  round,       \* the nodes the gossip task has still to ask in this round
  joinAnswer,  \* the answer to join_cluster that n has not applied yet
  syncAnswer   \* the answer to the gossip task that n has not applied yet

topologies == <<nodes, stale, partitions>>
asking     == <<boot, round, joinAnswer, syncAnswer>>
mesh       == <<phase, starts, topologies, asking>>

\* NodeId::new is called twice: the mesh's node_id and the id inside node_info.
NodeId == [of : Node, start : 1..MaxStarts, kind : {"node_id", "node_info"}]

MeshId(n, s) == [of |-> n, start |-> s, kind |-> "node_id"]
InfoId(n, s) == [of |-> n, start |-> s, kind |-> "node_info"]

Owners == UNION {[S -> NodeId] : S \in SUBSET Node}
Answer == [nodes : SUBSET NodeId, partitions : Owners, given : BOOLEAN]

NoOwners == [p \in {} |-> MeshId(p, 1)]
NoAnswer == [nodes |-> {}, partitions |-> NoOwners, given |-> FALSE]

MeshInit ==
  /\ phase = [n \in Node |-> "off"]
  /\ starts = [n \in Node |-> 0]
  /\ nodes = [n \in Node |-> {}]
  /\ stale = [n \in Node |-> {}]
  /\ partitions = [n \in Node |-> NoOwners]
  /\ boot = [n \in Node |-> {}]
  /\ round = [n \in Node |-> {}]
  /\ joinAnswer = [n \in Node |-> NoAnswer]
  /\ syncAnswer = [n \in Node |-> NoAnswer]

MeshTypeOK ==
  /\ phase \in [Node -> {"off", "joining", "up"}]
  /\ starts \in [Node -> 0..MaxStarts]
  /\ nodes \in [Node -> SUBSET NodeId]
  /\ stale \in [Node -> SUBSET NodeId]
  /\ partitions \in [Node -> Owners]
  /\ boot \in [Node -> SUBSET Node]
  /\ round \in [Node -> SUBSET NodeId]
  /\ joinAnswer \in [Node -> Answer]
  /\ syncAnswer \in [Node -> Answer]
-----------------------------------------------------------------------------
(* The tables *)

\* HashMap::insert of every pair of new.
InsertAll(map, new) ==
  [p \in DOMAIN map \cup DOMAIN new |-> IF p \in DOMAIN new THEN new[p] ELSE map[p]]

\* add_node for each of ids: the partition of each gets one of them as owner.
AddedOwners(ids) ==
  {own \in [{i.of : i \in ids} -> ids] : \A p \in DOMAIN own : own[p].of = p}

\* remove_node for each of ids: a record takes the owner of its partition along,
\* whoever that is; an id without a record changes nothing.
remove_nodes(n, ids) ==
  LET gone == ids \cap nodes[n]
  IN  /\ nodes' = [nodes EXCEPT ![n] = @ \ gone]
      /\ stale' = [stale EXCEPT ![n] = @ \ gone]
      /\ partitions' = [partitions EXCEPT ![n] =
           [p \in DOMAIN @ \ {i.of : i \in gone} |-> @[p]]]

get_node_for_partition(n, p) ==
  IF p \in DOMAIN partitions[n] THEN {partitions[n][p]} \cap nodes[n] ELSE {}

\* What get_mesh_topology answers.
get_mesh_topology(n) ==
  [nodes |-> nodes[n], partitions |-> partitions[n], given |-> TRUE]

\* Mutant of Learn: the owners after the new nodes.
LearnOwnersLast(n, t) ==
  LET new == t.nodes \ nodes[n]
  IN  /\ nodes' = [nodes EXCEPT ![n] = @ \cup new]
      /\ \E own \in AddedOwners(new) :
           partitions' = [partitions EXCEPT ![n] = InsertAll(InsertAll(@, own), t.partitions)]
      /\ UNCHANGED stale

\* The gossip task, and a manual sync: first the owners, then the new nodes.
Learn(n, t) ==
  LET new == t.nodes \ nodes[n]
  IN  /\ nodes' = [nodes EXCEPT ![n] = @ \cup new]
      /\ \E own \in AddedOwners(new) :
           partitions' = [partitions EXCEPT ![n] = InsertAll(InsertAll(@, t.partitions), own)]
      /\ UNCHANGED stale

\* request_cluster_state: first the new nodes, then the owners.
LearnAtStart(n, t) ==
  LET new == t.nodes \ nodes[n]
  IN  /\ nodes' = [nodes EXCEPT ![n] = @ \cup new]
      /\ \E own \in AddedOwners(new) :
           partitions' = [partitions EXCEPT ![n] = InsertAll(InsertAll(@, own), t.partitions)]
      /\ UNCHANGED stale
-----------------------------------------------------------------------------
(* Starting and stopping *)

\* Mutant of start: the broker announces itself as the owner of every partition.
startAsOwnerOfAll(n) ==
  /\ phase[n] = "off" /\ starts[n] < MaxStarts
  /\ phase' = [phase EXCEPT ![n] = "joining"]
  /\ starts' = [starts EXCEPT ![n] = @ + 1]
  /\ nodes' = [nodes EXCEPT ![n] = {InfoId(n, starts'[n])}]
  /\ partitions' = [partitions EXCEPT ![n] = [p \in Node |-> MeshId(n, starts'[n])]]
  /\ boot' = [boot EXCEPT ![n] = Bootstrap[n]]
  /\ UNCHANGED <<stale, round, joinAnswer, syncAnswer>>

\* P2PMesh::new and start, up to the calls of join_cluster.
start(n) ==
  /\ phase[n] = "off" /\ starts[n] < MaxStarts
  /\ phase' = [phase EXCEPT ![n] = "joining"]
  /\ starts' = [starts EXCEPT ![n] = @ + 1]
  /\ nodes' = [nodes EXCEPT ![n] = {InfoId(n, starts'[n])}]
  /\ partitions' = [partitions EXCEPT ![n] = [p \in {n} |-> MeshId(n, starts'[n])]]
  /\ boot' = [boot EXCEPT ![n] = Bootstrap[n]]
  /\ UNCHANGED <<stale, round, joinAnswer, syncAnswer>>

\* The mesh is stored and the broker starts to serve.
serve(n) ==
  /\ phase[n] = "joining" /\ boot[n] = {} /\ ~joinAnswer[n].given
  /\ phase' = [phase EXCEPT ![n] = "up"]
  /\ UNCHANGED <<starts, topologies, asking>>

\* The process ends; nothing of the mesh is kept.
Crash(n) ==
  /\ phase[n] # "off"
  /\ phase' = [phase EXCEPT ![n] = "off"]
  /\ nodes' = [nodes EXCEPT ![n] = {}]
  /\ stale' = [stale EXCEPT ![n] = {}]
  /\ partitions' = [partitions EXCEPT ![n] = NoOwners]
  /\ boot' = [boot EXCEPT ![n] = {}]
  /\ round' = [round EXCEPT ![n] = {}]
  /\ joinAnswer' = [joinAnswer EXCEPT ![n] = NoAnswer]
  /\ syncAnswer' = [syncAnswer EXCEPT ![n] = NoAnswer]
  /\ UNCHANGED starts
-----------------------------------------------------------------------------
(* Asking for tables *)

\* The gossip task picks the nodes of its next round: two, if there are two.
Tick(n) ==
  /\ phase[n] # "off" /\ round[n] = {} /\ ~syncAnswer[n].given
  /\ \E i, j \in nodes[n] :
       /\ i = j => nodes[n] = {i}
       /\ round' = [round EXCEPT ![n] = {i, j}]
  /\ UNCHANGED <<phase, starts, topologies, boot, joinAnswer, syncAnswer>>

\* Mutant of BootAnswered: the answering broker remembers who asked.
BootAnsweredToKnown(n, m) ==
  /\ m \in boot[n] /\ ~joinAnswer[n].given
  /\ phase[m] = "up"
  /\ nodes' = [nodes EXCEPT ![m] = @ \cup {InfoId(n, starts[n])}]
  /\ boot' = [boot EXCEPT ![n] = @ \ {m}]
  /\ joinAnswer' = [joinAnswer EXCEPT ![n] = get_mesh_topology(m)]
  /\ UNCHANGED <<phase, starts, stale, partitions, round, syncAnswer>>

\* The call of a bootstrap broker is answered.
BootAnswered(n, m) ==
  /\ m \in boot[n] /\ ~joinAnswer[n].given
  /\ phase[m] = "up"
  /\ boot' = [boot EXCEPT ![n] = @ \ {m}]
  /\ joinAnswer' = [joinAnswer EXCEPT ![n] = get_mesh_topology(m)]
  /\ UNCHANGED <<phase, starts, topologies, round, syncAnswer>>

\* It fails: the broker is not there, or the call is lost.
BootFails(n, m) ==
  /\ m \in boot[n] /\ ~joinAnswer[n].given
  /\ boot' = [boot EXCEPT ![n] = @ \ {m}]
  /\ UNCHANGED <<phase, starts, topologies, round, joinAnswer, syncAnswer>>

\* The answer is applied.
request_cluster_state(n) ==
  /\ joinAnswer[n].given
  /\ LearnAtStart(n, joinAnswer[n])
  /\ joinAnswer' = [joinAnswer EXCEPT ![n] = NoAnswer]
  /\ UNCHANGED <<phase, starts, boot, round, syncAnswer>>

\* The same three steps of the gossip task.
SyncAnswered(n, i) ==
  /\ i \in round[n] /\ ~syncAnswer[n].given
  /\ phase[i.of] = "up"
  /\ round' = [round EXCEPT ![n] = @ \ {i}]
  /\ syncAnswer' = [syncAnswer EXCEPT ![n] = get_mesh_topology(i.of)]
  /\ UNCHANGED <<phase, starts, topologies, boot, joinAnswer>>

SyncFails(n, i) ==
  /\ i \in round[n] /\ ~syncAnswer[n].given
  /\ round' = [round EXCEPT ![n] = @ \ {i}]
  /\ UNCHANGED <<phase, starts, topologies, boot, joinAnswer, syncAnswer>>

Sync(n) ==
  /\ syncAnswer[n].given
  /\ Learn(n, syncAnswer[n])
  /\ syncAnswer' = [syncAnswer EXCEPT ![n] = NoAnswer]
  /\ UNCHANGED <<phase, starts, boot, round, joinAnswer>>
-----------------------------------------------------------------------------
(* Growing old *)

\* node_timeout passes for a record.
Elapse(n, i) ==
  /\ i \in nodes[n] \ stale[n]
  /\ stale' = [stale EXCEPT ![n] = @ \cup {i}]
  /\ UNCHANGED <<phase, starts, nodes, partitions, asking>>

\* The cleanup task.
RemoveStale(n) ==
  /\ stale[n] # {}
  /\ remove_nodes(n, stale[n])
  /\ UNCHANGED <<phase, starts, asking>>
=============================================================================

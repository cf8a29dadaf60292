------------------------------- MODULE Routing -------------------------------
(***************************************************************************)
(* A publish call for a partition of another broker                        *)
(* (forward_message_to_partition): the owner is looked up in the mesh's    *)
(* tables, then after a manual sync, then in the cluster configuration;    *)
(* the message is forwarded, or the call fails.                            *)
(*                                                                         *)
(* Broker.p2p_mesh is a tokio RwLock: a writer waits until every reader is *)
(* gone, and a reader that comes while a writer waits, waits behind it.    *)
(* Lookups and get_mesh_topology hold it for one step, a manual sync and   *)
(* the last request for topologies hold it over their calls.               *)
(***************************************************************************)
EXTENDS Mesh

CONSTANTS
  Publisher,  \* tasks handling publish calls
  Home,       \* Home[q]: the broker that handles q's calls
  Attempts,   \* lookups before the manual sync; 3 in the code
  Configured  \* the brokers of the cluster configuration, the same everywhere

ASSUME RoutingAssumption ==
  /\ Home \in [Publisher -> Node]
  /\ Attempts \in Nat \ {0}
  /\ Configured \subseteq Node

VARIABLES
  pc,     \* pc[q]: "idle", "lookup", "scan", "sync", "write", "retry", "reread",
          \* "forward", "discover", "request", "stuck"
  to,     \* to[q]: the partition the call is for
  tries,  \* tries[q]: lookups that found nobody
  peer,   \* peer[q]: the node q calls, if any
  ask,    \* ask[q]: the nodes q has still to call
  got     \* got[q]: the tables q was given

calls == <<pc, to, tries, peer, ask, got>>
rvars == <<mesh, calls>>

RInit ==
  /\ MeshInit
  /\ pc = [q \in Publisher |-> "idle"]
  /\ to = [q \in Publisher |-> Home[q]]
  /\ tries = [q \in Publisher |-> 0]
  /\ peer = [q \in Publisher |-> {}]
  /\ ask = [q \in Publisher |-> {}]
  /\ got = [q \in Publisher |-> NoAnswer]

At(n, places) == {q \in Publisher : Home[q] = n /\ pc[q] \in places}
Writers(n)    == At(n, {"write", "stuck"})
Readers(n)    == At(n, {"sync", "reread", "request", "stuck"})
CanRead(n)    == Writers(n) = {}
CanWrite(n)   == Readers(n) = {}

\* The call of q ends, answered or not; what it knew is forgotten.
End(q) ==
  /\ pc' = [pc EXCEPT ![q] = "idle"]
  /\ to' = [to EXCEPT ![q] = Home[q]]
  /\ tries' = [tries EXCEPT ![q] = 0]
  /\ peer' = [peer EXCEPT ![q] = {}]
  /\ ask' = [ask EXCEPT ![q] = {}]
  /\ got' = [got EXCEPT ![q] = NoAnswer]

Goto(q, l)      == pc' = [pc EXCEPT ![q] = l]
SetPeer(q, ids) == peer' = [peer EXCEPT ![q] = ids]

\* The nodes are called one after the other; the order is the hash map's.
CallNext(q, ids) ==
  \/ ids = {} /\ SetPeer(q, {}) /\ ask' = [ask EXCEPT ![q] = {}]
  \/ \E i \in ids : SetPeer(q, {i}) /\ ask' = [ask EXCEPT ![q] = ids \ {i}]
-----------------------------------------------------------------------------
\* A publish call whose key belongs to partition p of another broker.
publish(q, p) ==
  /\ pc[q] = "idle" /\ phase[Home[q]] = "up" /\ p # Home[q]
  /\ Goto(q, "lookup") /\ to' = [to EXCEPT ![q] = p]
  /\ UNCHANGED <<mesh, tries, peer, ask, got>>

\* One of the lookups, half a second apart.
Lookup(q) ==
  LET found == get_node_for_partition(Home[q], to[q])
      again == found = {} /\ tries[q] + 1 < Attempts
  IN  /\ pc[q] = "lookup" /\ CanRead(Home[q])
      /\ SetPeer(q, found)
      /\ tries' = [tries EXCEPT ![q] = IF again THEN @ + 1 ELSE 0]
      /\ Goto(q, IF found # {} THEN "forward" ELSE IF again THEN "lookup" ELSE "scan")
      /\ UNCHANGED <<mesh, to, ask, got>>

\* The manual sync takes the read lock and goes through the known nodes.
StartSync(q) ==
  /\ pc[q] = "scan" /\ CanRead(Home[q])
  /\ Goto(q, "sync") /\ CallNext(q, nodes[Home[q]])
  /\ UNCHANGED <<mesh, to, tries, got>>

\* The first node that answers ends the search; the read lock is released and
\* the write lock requested.
SyncGets(q, i) ==
  /\ pc[q] = "sync" /\ i \in peer[q]
  /\ phase[i.of] = "up" /\ CanRead(i.of)
  /\ got' = [got EXCEPT ![q] = get_mesh_topology(i.of)]
  /\ Goto(q, "write") /\ CallNext(q, {})
  /\ UNCHANGED <<mesh, to, tries>>

\* With the write lock the answer is applied, as the gossip task does.
SyncWrites(q) ==
  /\ pc[q] = "write" /\ CanWrite(Home[q])
  /\ Learn(Home[q], got[q])
  /\ got' = [got EXCEPT ![q] = NoAnswer]
  /\ Goto(q, "retry")
  /\ UNCHANGED <<phase, starts, asking, to, tries, peer, ask>>

\* No node is left to ask: the read lock is kept until after the next lookup,
\* which takes it a second time.
SyncEnds(q) ==
  /\ pc[q] = "sync" /\ peer[q] = {}
  /\ Goto(q, "reread")
  /\ UNCHANGED <<mesh, to, tries, peer, ask, got>>

\* get_broker_for_partition of the cluster configuration; the id carries the
\* address.
get_broker_for_partition(p) == {InfoId(b, 1) : b \in Configured \cap {p}}

\* One more lookup, then the cluster configuration.
Retry(q) ==
  LET known  == get_node_for_partition(Home[q], to[q])
      target == IF known # {} THEN known ELSE get_broker_for_partition(to[q])
  IN  /\ pc[q] \in {"retry", "reread"} /\ CanRead(Home[q])
      /\ SetPeer(q, target)
      /\ Goto(q, IF target # {} THEN "forward" ELSE "discover")
      /\ UNCHANGED <<mesh, to, tries, ask, got>>

\* The target stores the message, if its partition it is, and answers; or it
\* cannot be reached, or its answer is lost.  Its storage is taken to return.
Forward(q) ==
  /\ pc[q] = "forward"
  /\ End(q)
  /\ UNCHANGED mesh

\* No node and no configuration: the read lock is taken once more.
StartDiscover(q) ==
  /\ pc[q] = "discover" /\ CanRead(Home[q])
  /\ Goto(q, "request") /\ CallNext(q, nodes[Home[q]])
  /\ UNCHANGED <<mesh, to, tries, got>>

\* request_mesh_topology_from_node: once a node has answered, the task requests
\* the write lock of which it is itself a reader.
RequestGets(q, i) ==
  /\ pc[q] = "request" /\ i \in peer[q]
  /\ phase[i.of] = "up" /\ CanRead(i.of)
  /\ Goto(q, "stuck")
  /\ UNCHANGED <<mesh, to, tries, peer, ask, got>>

\* All nodes failed to answer: the call fails.
RequestEnds(q) ==
  /\ pc[q] = "request" /\ peer[q] = {}
  /\ End(q)
  /\ UNCHANGED mesh

\* Mutant of AskFails: the next node is never called.
AskFailsAgain(q, i) ==
  /\ pc[q] \in {"sync", "request"} /\ i \in peer[q]
  /\ UNCHANGED rvars

\* A call of q to node i fails.
AskFails(q, i) ==
  /\ pc[q] \in {"sync", "request"} /\ i \in peer[q]
  /\ CallNext(q, ask[q])
  /\ UNCHANGED <<mesh, pc, to, tries, got>>

\* The process of n ends, and with it the calls it handles.
Stop(n) ==
  LET of(q) == Home[q] = n
  IN  /\ Crash(n)
      /\ pc' = [q \in Publisher |-> IF of(q) THEN "idle" ELSE pc[q]]
      /\ to' = [q \in Publisher |-> IF of(q) THEN Home[q] ELSE to[q]]
      /\ tries' = [q \in Publisher |-> IF of(q) THEN 0 ELSE tries[q]]
      /\ peer' = [q \in Publisher |-> IF of(q) THEN {} ELSE peer[q]]
      /\ ask' = [q \in Publisher |-> IF of(q) THEN {} ELSE ask[q]]
      /\ got' = [q \in Publisher |-> IF of(q) THEN NoAnswer ELSE got[q]]
-----------------------------------------------------------------------------
MeshStep(n) ==
  /\ \/ start(n) \/ serve(n) \/ Tick(n) \/ request_cluster_state(n) \/ Sync(n)
     \/ RemoveStale(n)
     \/ \E m \in Node : (CanRead(m) /\ BootAnswered(n, m)) \/ BootFails(n, m)
     \/ \E i \in round[n] : (CanRead(i.of) /\ SyncAnswered(n, i)) \/ SyncFails(n, i)
     \/ \E i \in nodes[n] : Elapse(n, i)
  /\ UNCHANGED calls

Call(q) ==
  \/ \E p \in Node : publish(q, p)
  \/ Lookup(q) \/ StartSync(q) \/ SyncWrites(q) \/ SyncEnds(q) \/ Retry(q)
  \/ Forward(q) \/ StartDiscover(q) \/ RequestEnds(q)
  \/ \E i \in peer[q] : SyncGets(q, i) \/ RequestGets(q, i) \/ AskFails(q, i)

RNext == (\E n \in Node : MeshStep(n) \/ Stop(n)) \/ \E q \in Publisher : Call(q)

RSpec == RInit /\ [][RNext]_rvars

\* What the runtime brings about for a call in progress.  A call to a broker that
\* is down fails; one to a broker that is up has no timeout.
Progress(q) ==
  \/ Lookup(q) \/ StartSync(q) \/ SyncWrites(q) \/ SyncEnds(q) \/ Retry(q)
  \/ Forward(q) \/ StartDiscover(q) \/ RequestEnds(q)
  \/ \E i \in peer[q] : \/ SyncGets(q, i) \/ RequestGets(q, i)
                        \/ phase[i.of] # "up" /\ AskFails(q, i)

\* The lock hands itself over in the order of requests, hence strong fairness.
RFairSpec == RSpec /\ \A q \in Publisher : SF_rvars(Progress(q))
-----------------------------------------------------------------------------
(* Properties *)

Place == {"idle", "lookup", "scan", "sync", "write", "retry", "reread", "forward",
          "discover", "request", "stuck"}

\* The tables hold ids and owners, and so do the answers the calls carry.
RoutingTypeOK ==
  /\ MeshTypeOK
  /\ pc \in [Publisher -> Place]
  /\ to \in [Publisher -> Node]
  /\ tries \in [Publisher -> Nat]
  /\ peer \in [Publisher -> SUBSET NodeId]
  /\ ask \in [Publisher -> SUBSET NodeId]
  /\ got \in [Publisher -> Answer]

\* A message is forwarded only to the broker that serves its partition, however
\* old the tables are that named it: forward_message's check for a wrong
\* partition never refuses.
ForwardedToOwner ==
  /\ \A q \in Publisher : pc[q] = "forward" => \A i \in peer[q] : i.of = to[q]
  /\ \A n \in Node : \A p \in DOMAIN partitions[n] : partitions[n][p].of = p

\* The brokers reachable over --bootstrap lists, n itself included.
Reach(n) ==
  {m \in Node : \A S \in SUBSET Node :
     n \in S /\ (\A k \in S : Bootstrap[k] \subseteq S) => m \in S}

\* Discovery goes one way: a broker comes to know only those it reaches over
\* bootstrap lists.  Asking for tables does not make the asker known, and so a
\* broker started without --bootstrap never knows another.
DiscoveryIsOneWay == \A n \in Node : \A i \in nodes[n] : i.of \in Reach(n)

\* A node that a serving broker discovers makes its partition routable at once:
\* the sync writes the owners it was told before it adds the node.
DiscoveredIsRoutable ==
  [][\A n \in Node : phase[n] = "up" /\ phase'[n] = "up" =>
       \A i \in nodes'[n] \ nodes[n] :
         i.of \in DOMAIN partitions'[n] /\ partitions'[n][i.of] \in nodes'[n]]_mesh

Wedged(n) == Readers(n) # {} /\ Writers(n) # {}

\* A forwarded publish ends, unless some broker's p2p_mesh lock is wedged for
\* good: a task that reads it waits for a task that waits to write it.
AnsweredOrWedged ==
  \A q \in Publisher : []<>(pc[q] = "idle") \/ \E n \in Node : <>[]Wedged(n)
=============================================================================

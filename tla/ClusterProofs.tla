--------------------------- MODULE ClusterProofs ----------------------------
(***************************************************************************)
(* Protocols between brokers, publishers and producers. For any brokers,   *)
(* bootstrap lists, configuration and publishers the tables, the answers   *)
(* and the calls in flight stay well-formed, and a message is forwarded    *)
(* only to the broker of its partition. A broker knows only brokers that   *)
(* it reaches in the bootstrap graph, and a node it discovers while it     *)
(* serves is routable at once. The transaction coordinator keeps its       *)
(* invariants and implements AtomicCommit, for any transactions,           *)
(* producers, writes, clock readings and timeout. The circuit breaker of a *)
(* component counts its failures, for any components and threshold.        *)
(***************************************************************************)
EXTENDS Routing, TransactionCoordinator, Health, FiniteSetTheorems, TLAPS

-----------------------------------------------------------------------------
(* Owner tables *)

\* Owners is the set of functions from some partitions to ids.
LEMMA OwnersAre ==
  ASSUME NEW f
  PROVE  f \in Owners <=> DOMAIN f \subseteq Node /\ f \in [DOMAIN f -> NodeId]
<1>1. f \in Owners => DOMAIN f \subseteq Node /\ f \in [DOMAIN f -> NodeId]
  BY Zenon DEF Owners
<1>2. ASSUME DOMAIN f \subseteq Node, f \in [DOMAIN f -> NodeId] PROVE f \in Owners
  BY <1>2, Zenon DEF Owners
<1> QED
  BY <1>1, <1>2, Zenon

LEMMA InsertAllTyped ==
  ASSUME NEW f \in Owners, NEW g \in Owners
  PROVE  InsertAll(f, g) \in Owners
<1> DEFINE h == InsertAll(f, g)
<1>1. /\ DOMAIN f \subseteq Node /\ f \in [DOMAIN f -> NodeId]
      /\ DOMAIN g \subseteq Node /\ g \in [DOMAIN g -> NodeId]
  BY OwnersAre, Zenon
<1>2. DOMAIN h \subseteq Node /\ h \in [DOMAIN h -> NodeId]
  BY <1>1, Zenon DEF InsertAll
<1> QED
  BY <1>2, OwnersAre, Zenon

LEMMA AddedOwnersTyped ==
  ASSUME NEW ids \in SUBSET NodeId, NEW own \in AddedOwners(ids)
  PROVE  own \in Owners /\ \A p \in DOMAIN own : own[p] \in ids /\ own[p].of = p
<1>1. /\ own \in [{i.of : i \in ids} -> ids]
      /\ \A p \in DOMAIN own : own[p].of = p
  BY Zenon DEF AddedOwners
<1>2. DOMAIN own \subseteq Node /\ own \in [DOMAIN own -> NodeId]
  BY <1>1 DEF NodeId
<1> QED
  BY <1>1, <1>2, OwnersAre, Zenon

LEMMA NoAnswerTyped == NoOwners \in Owners /\ NoAnswer \in Answer
<1>1. DOMAIN NoOwners \subseteq Node /\ NoOwners \in [DOMAIN NoOwners -> NodeId]
  BY Zenon DEF NoOwners
<1>2. NoOwners \in Owners
  BY <1>1, OwnersAre, Zenon
<1> QED
  BY <1>2, Zenon DEF NoAnswer, Answer

LEMMA IdsTyped ==
  ASSUME NEW n \in Node, NEW s \in 1..MaxStarts
  PROVE  MeshId(n, s) \in NodeId /\ InfoId(n, s) \in NodeId
  BY Zenon DEF MeshId, InfoId, NodeId

LEMMA TopologyTyped ==
  ASSUME MeshTypeOK, NEW n \in Node
  PROVE  get_mesh_topology(n) \in Answer
  BY Zenon DEF MeshTypeOK, get_mesh_topology, Answer

LEMMA LookupTyped ==
  ASSUME MeshTypeOK, NEW n \in Node, NEW p
  PROVE  get_node_for_partition(n, p) \in SUBSET NodeId
  BY Zenon DEF MeshTypeOK, get_node_for_partition

\* What Learn and LearnAtStart write into the tables of n.
LEMMA LearnTyped ==
  ASSUME MeshTypeOK, NEW n \in Node, NEW t \in Answer,
         Learn(n, t) \/ LearnAtStart(n, t)
  PROVE  /\ nodes' = [nodes EXCEPT ![n] = nodes[n] \cup t.nodes]
         /\ nodes' \in [Node -> SUBSET NodeId] /\ stale' = stale
         /\ \E f \in Owners : partitions' = [partitions EXCEPT ![n] = f]
         /\ partitions' \in [Node -> Owners]
<1> DEFINE new == t.nodes \ nodes[n]
<1>1. /\ t.nodes \in SUBSET NodeId /\ t.partitions \in Owners
      /\ nodes[n] \in SUBSET NodeId /\ partitions[n] \in Owners
      /\ nodes \in [Node -> SUBSET NodeId] /\ partitions \in [Node -> Owners]
  BY Zenon DEF MeshTypeOK, Answer
<1>2. nodes' = [nodes EXCEPT ![n] = nodes[n] \cup new] /\ stale' = stale
  BY Zenon DEF Learn, LearnAtStart
<1>3. nodes[n] \cup new = nodes[n] \cup t.nodes
  BY Zenon
<1>4. \E f \in Owners : partitions' = [partitions EXCEPT ![n] = f]
  <2>1. PICK own \in AddedOwners(new) :
          \/ partitions' = [partitions EXCEPT ![n] =
               InsertAll(InsertAll(partitions[n], t.partitions), own)]
          \/ partitions' = [partitions EXCEPT ![n] =
               InsertAll(InsertAll(partitions[n], own), t.partitions)]
    BY Zenon DEF Learn, LearnAtStart
  <2>2. own \in Owners
    BY <1>1, <2>1, AddedOwnersTyped, Zenon
  <2>3. /\ InsertAll(InsertAll(partitions[n], t.partitions), own) \in Owners
        /\ InsertAll(InsertAll(partitions[n], own), t.partitions) \in Owners
    BY <1>1, <2>2, InsertAllTyped, Zenon
  <2> QED
    BY <2>1, <2>3, Zenon
<1>5. partitions' \in [Node -> Owners]
  BY <1>1, <1>4, Zenon
<1> QED
  BY <1>1, <1>2, <1>3, <1>4, <1>5, Zenon

\* What remove_nodes leaves in the tables of n.
LEMMA RemoveTyped ==
  ASSUME MeshTypeOK, NEW n \in Node, NEW ids, remove_nodes(n, ids)
  PROVE  /\ nodes' \in [Node -> SUBSET NodeId] /\ stale' \in [Node -> SUBSET NodeId]
         /\ \A m \in Node : nodes'[m] \subseteq nodes[m]
         /\ partitions' \in [Node -> Owners]
         /\ \A m \in Node : \A p \in DOMAIN partitions'[m] :
              p \in DOMAIN partitions[m] /\ partitions'[m][p] = partitions[m][p]
<1> DEFINE gone == ids \cap nodes[n]
           f == [p \in DOMAIN partitions[n] \ {i.of : i \in gone} |-> partitions[n][p]]
<1>1. /\ nodes' = [nodes EXCEPT ![n] = nodes[n] \ gone]
      /\ stale' = [stale EXCEPT ![n] = stale[n] \ gone]
      /\ partitions' = [partitions EXCEPT ![n] = f]
  BY Zenon DEF remove_nodes
<1>2. /\ nodes \in [Node -> SUBSET NodeId] /\ stale \in [Node -> SUBSET NodeId]
      /\ partitions \in [Node -> Owners]
  BY Zenon DEF MeshTypeOK
<1>3. DOMAIN partitions[n] \subseteq Node /\ partitions[n] \in [DOMAIN partitions[n] -> NodeId]
  BY <1>2, OwnersAre, Zenon
<1>4. /\ DOMAIN f \subseteq DOMAIN partitions[n]
      /\ \A p \in DOMAIN f : f[p] = partitions[n][p]
      /\ DOMAIN f \subseteq Node /\ f \in [DOMAIN f -> NodeId]
  BY <1>3, Zenon
<1>5. f \in Owners
  BY <1>4, OwnersAre, Zenon
<1> HIDE DEF f
<1>6. \A m \in Node : partitions'[m] = IF m = n THEN f ELSE partitions[m]
  BY <1>1, <1>2, Zenon
<1> QED
  BY <1>1, <1>2, <1>4, <1>5, <1>6, Zenon
-----------------------------------------------------------------------------
(* Types *)

\* Every disjunct of the next-state relation.
LEMMA StepCases ==
  ASSUME RNext
  PROVE  \/ \E n \in Node :
              \/ UNCHANGED calls /\ \/ start(n) \/ serve(n) \/ Tick(n)
                                    \/ request_cluster_state(n) \/ Sync(n) \/ RemoveStale(n)
              \/ UNCHANGED calls /\ \E m \in Node : BootAnswered(n, m) \/ BootFails(n, m)
              \/ UNCHANGED calls /\ \E i \in round[n] : SyncAnswered(n, i) \/ SyncFails(n, i)
              \/ UNCHANGED calls /\ \E i \in nodes[n] : Elapse(n, i)
              \/ Stop(n)
         \/ \E q \in Publisher : Call(q)
  BY Zenon DEF RNext, MeshStep

LEMMA MeshStepTyped ==
  ASSUME MeshTypeOK, NEW n \in Node,
         \/ start(n) \/ serve(n) \/ Tick(n) \/ request_cluster_state(n) \/ Sync(n)
         \/ RemoveStale(n) \/ Crash(n)
         \/ \E m \in Node : BootAnswered(n, m) \/ BootFails(n, m)
         \/ \E i \in round[n] : SyncAnswered(n, i) \/ SyncFails(n, i)
         \/ \E i \in nodes[n] : Elapse(n, i)
  PROVE  MeshTypeOK'
<1> USE MeshAssumption
<1>1. CASE start(n)
  <2>1. starts'[n] \in 1..MaxStarts /\ starts' \in [Node -> 0..MaxStarts]
    BY <1>1 DEF start, MeshTypeOK
  <2>2. MeshId(n, starts'[n]) \in NodeId /\ InfoId(n, starts'[n]) \in NodeId
    BY <2>1, IdsTyped, Zenon
  <2> DEFINE f == [p \in {n} |-> MeshId(n, starts'[n])]
  <2>3. DOMAIN f \subseteq Node /\ f \in [DOMAIN f -> NodeId]
    BY <2>2, Zenon
  <2>4. f \in Owners
    BY <2>3, OwnersAre, Zenon
  <2>5. partitions' = [partitions EXCEPT ![n] = f]
    BY <1>1, Zenon DEF start
  <2> HIDE DEF f
  <2> QED
    BY <1>1, <2>1, <2>2, <2>4, <2>5 DEF start, MeshTypeOK
<1>2. CASE serve(n)
  BY <1>2, Zenon DEF serve, MeshTypeOK, topologies, asking
<1>3. CASE Tick(n)
  BY <1>3 DEF Tick, MeshTypeOK, topologies
<1>4. CASE request_cluster_state(n)
  <2>1. joinAnswer[n] \in Answer
    BY Zenon DEF MeshTypeOK
  <2>2. nodes' \in [Node -> SUBSET NodeId] /\ stale' = stale /\ partitions' \in [Node -> Owners]
    BY <1>4, <2>1, LearnTyped, Zenon DEF request_cluster_state
  <2> QED
    BY <1>4, <2>2, NoAnswerTyped, Zenon DEF request_cluster_state, MeshTypeOK
<1>5. CASE Sync(n)
  <2>1. syncAnswer[n] \in Answer
    BY Zenon DEF MeshTypeOK
  <2>2. nodes' \in [Node -> SUBSET NodeId] /\ stale' = stale /\ partitions' \in [Node -> Owners]
    BY <1>5, <2>1, LearnTyped, Zenon DEF Sync
  <2> QED
    BY <1>5, <2>2, NoAnswerTyped, Zenon DEF Sync, MeshTypeOK
<1>6. CASE RemoveStale(n)
  <2>1. /\ nodes' \in [Node -> SUBSET NodeId] /\ stale' \in [Node -> SUBSET NodeId]
        /\ partitions' \in [Node -> Owners]
    BY <1>6, RemoveTyped, Zenon DEF RemoveStale
  <2> QED
    BY <1>6, <2>1, Zenon DEF RemoveStale, MeshTypeOK, asking
<1>7. CASE Crash(n)
  BY <1>7, NoAnswerTyped, Zenon DEF Crash, MeshTypeOK
<1>8. ASSUME NEW m \in Node, BootAnswered(n, m) PROVE MeshTypeOK'
  BY <1>8, TopologyTyped, Zenon DEF BootAnswered, MeshTypeOK, topologies
<1>9. ASSUME NEW m \in Node, BootFails(n, m) PROVE MeshTypeOK'
  BY <1>9, Zenon DEF BootFails, MeshTypeOK, topologies
<1>10. ASSUME NEW i \in round[n], SyncAnswered(n, i) PROVE MeshTypeOK'
  <2>1. i.of \in Node
    BY <1>10 DEF MeshTypeOK, NodeId
  <2> QED
    BY <1>10, <2>1, TopologyTyped, Zenon DEF SyncAnswered, MeshTypeOK, topologies
<1>11. ASSUME NEW i \in round[n], SyncFails(n, i) PROVE MeshTypeOK'
  BY <1>11, Zenon DEF SyncFails, MeshTypeOK, topologies
<1>12. ASSUME NEW i \in nodes[n], Elapse(n, i) PROVE MeshTypeOK'
  BY <1>12 DEF Elapse, MeshTypeOK, asking
<1> QED
  BY <1>1, <1>2, <1>3, <1>4, <1>5, <1>6, <1>7, <1>8, <1>9, <1>10, <1>11, <1>12, Zenon

\* What a call has in hand stays typed, whatever the tables are.
CallsTyped ==
  /\ pc \in [Publisher -> Place]
  /\ to \in [Publisher -> Node]
  /\ tries \in [Publisher -> Nat]
  /\ peer \in [Publisher -> SUBSET NodeId]
  /\ ask \in [Publisher -> SUBSET NodeId]
  /\ got \in [Publisher -> Answer]

LEMMA CallNextTyped ==
  ASSUME CallsTyped, NEW q \in Publisher, NEW ids \in SUBSET NodeId, CallNext(q, ids)
  PROVE  peer' \in [Publisher -> SUBSET NodeId] /\ ask' \in [Publisher -> SUBSET NodeId]
  BY DEF CallNext, SetPeer, CallsTyped

LEMMA EndTyped ==
  ASSUME CallsTyped, NEW q \in Publisher, End(q)
  PROVE  CallsTyped'
  BY RoutingAssumption, NoAnswerTyped, Zenon DEF End, CallsTyped, Place

LEMMA GotoTyped ==
  ASSUME CallsTyped, NEW q \in Publisher, NEW l \in Place, Goto(q, l)
  PROVE  pc' \in [Publisher -> Place]
  BY Zenon DEF Goto, CallsTyped

LEMMA CallStepTyped ==
  ASSUME MeshTypeOK, CallsTyped, NEW q \in Publisher, Call(q)
  PROVE  MeshTypeOK' /\ CallsTyped'
<1> DEFINE n == Home[q]
<1>0. /\ n \in Node /\ nodes[n] \in SUBSET NodeId
      /\ peer[q] \in SUBSET NodeId /\ ask[q] \in SUBSET NodeId
  BY RoutingAssumption, Zenon DEF MeshTypeOK, CallsTyped
<1> HIDE DEF n
<1>1. UNCHANGED mesh => MeshTypeOK'
  BY Zenon DEF mesh, topologies, asking, MeshTypeOK
<1>2. ASSUME NEW p \in Node, publish(q, p) PROVE MeshTypeOK' /\ CallsTyped'
  BY <1>1, <1>2, GotoTyped, Zenon DEF publish, CallsTyped, Place
<1>3. CASE Lookup(q)
  <2> DEFINE found == get_node_for_partition(Home[q], to[q])
  <2>1. found \in SUBSET NodeId
    BY <1>0, LookupTyped, Zenon DEF n
  <2> HIDE DEF found
  <2>2. pc' \in [Publisher -> Place]
    BY <1>3, Zenon DEF Lookup, Goto, CallsTyped, Place
  <2>3. tries' \in [Publisher -> Nat] /\ peer' \in [Publisher -> SUBSET NodeId]
    BY <1>3, <2>1 DEF Lookup, SetPeer, CallsTyped, found
  <2> QED
    BY <1>1, <1>3, <2>2, <2>3, Zenon DEF Lookup, CallsTyped
<1>4. CASE StartSync(q)
  BY <1>0, <1>1, <1>4, GotoTyped, CallNextTyped, Zenon DEF StartSync, CallsTyped, Place, n
<1>5. CASE StartDiscover(q)
  BY <1>0, <1>1, <1>5, GotoTyped, CallNextTyped, Zenon DEF StartDiscover, CallsTyped, Place, n
<1>6. ASSUME NEW i \in peer[q], SyncGets(q, i) PROVE MeshTypeOK' /\ CallsTyped'
  <2>1. get_mesh_topology(i.of) \in Answer
    BY <1>0, <1>6, TopologyTyped, Zenon DEF NodeId
  <2>2. got' \in [Publisher -> Answer]
    BY <1>6, <2>1, Zenon DEF SyncGets, CallsTyped
  <2> QED
    BY <1>1, <1>6, <2>2, GotoTyped, CallNextTyped, Zenon DEF SyncGets, CallsTyped, Place
<1>7. CASE SyncWrites(q)
  <2>1. got[q] \in Answer /\ Learn(Home[q], got[q])
    BY <1>7, Zenon DEF SyncWrites, CallsTyped
  <2>2. nodes' \in [Node -> SUBSET NodeId] /\ stale' = stale /\ partitions' \in [Node -> Owners]
    BY <1>0, <2>1, LearnTyped, Zenon DEF n
  <2>3. MeshTypeOK'
    BY <1>7, <2>2, Zenon DEF SyncWrites, MeshTypeOK, asking
  <2> QED
    BY <1>7, <2>3, NoAnswerTyped, GotoTyped, Zenon DEF SyncWrites, CallsTyped, Place
<1>8. CASE SyncEnds(q)
  BY <1>1, <1>8, GotoTyped, Zenon DEF SyncEnds, CallsTyped, Place
<1>9. CASE Retry(q)
  <2> DEFINE known == get_node_for_partition(Home[q], to[q])
             target == IF known # {} THEN known ELSE get_broker_for_partition(to[q])
  <2>1. known \in SUBSET NodeId
    BY <1>0, LookupTyped, Zenon DEF n
  <2>2. get_broker_for_partition(to[q]) \in SUBSET NodeId
    <3>1. \A b \in Node : InfoId(b, 1) \in NodeId
      BY MeshAssumption, IdsTyped
    <3> QED
      BY <3>1, RoutingAssumption, Zenon DEF get_broker_for_partition
  <2>3. target \in SUBSET NodeId
    BY <2>1, <2>2, Zenon
  <2> HIDE DEF known, target
  <2>4. pc' \in [Publisher -> Place] /\ peer' \in [Publisher -> SUBSET NodeId]
    BY <1>9, <2>3, Zenon DEF Retry, Goto, SetPeer, CallsTyped, Place, known, target
  <2> QED
    BY <1>1, <1>9, <2>4, Zenon DEF Retry, CallsTyped
<1>10. CASE Forward(q) \/ RequestEnds(q)
  BY <1>1, <1>10, EndTyped, Zenon DEF Forward, RequestEnds
<1>11. ASSUME NEW i \in peer[q], RequestGets(q, i) PROVE MeshTypeOK' /\ CallsTyped'
  BY <1>1, <1>11, GotoTyped, Zenon DEF RequestGets, CallsTyped, Place
<1>12. ASSUME NEW i \in peer[q], AskFails(q, i) PROVE MeshTypeOK' /\ CallsTyped'
  BY <1>0, <1>1, <1>12, CallNextTyped, Zenon DEF AskFails, CallsTyped
<1> QED
  BY <1>2, <1>3, <1>4, <1>5, <1>6, <1>7, <1>8, <1>9, <1>10, <1>11, <1>12, Zenon DEF Call

LEMMA StopTyped ==
  ASSUME CallsTyped, NEW n \in Node, Stop(n)
  PROVE  CallsTyped'
  BY RoutingAssumption, NoAnswerTyped, Zenon DEF Stop, CallsTyped, Place

LEMMA TypeInit == RInit => RoutingTypeOK
<1> SUFFICES ASSUME RInit PROVE RoutingTypeOK
  BY Zenon
<1>1. MeshTypeOK
  BY MeshAssumption, NoAnswerTyped DEF RInit, MeshInit, MeshTypeOK
<1>2. CallsTyped
  BY RoutingAssumption, NoAnswerTyped, Zenon DEF RInit, CallsTyped, Place
<1> QED
  BY <1>1, <1>2, Zenon DEF RoutingTypeOK, CallsTyped

LEMMA TypeStep == RoutingTypeOK /\ [RNext]_rvars => RoutingTypeOK'
<1> SUFFICES ASSUME RoutingTypeOK, [RNext]_rvars PROVE MeshTypeOK' /\ CallsTyped'
  BY Zenon DEF RoutingTypeOK, CallsTyped
<1>0. MeshTypeOK /\ CallsTyped
  BY Zenon DEF RoutingTypeOK, CallsTyped
<1>1. CASE UNCHANGED rvars
  BY <1>0, <1>1, Zenon DEF rvars, mesh, topologies, asking, calls, MeshTypeOK, CallsTyped
<1>2. UNCHANGED calls => CallsTyped'
  BY <1>0, Zenon DEF calls, CallsTyped
<1>3. ASSUME NEW n \in Node, Stop(n) PROVE MeshTypeOK' /\ CallsTyped'
  BY <1>0, <1>3, StopTyped, MeshStepTyped, Zenon DEF Stop
<1>4. ASSUME NEW q \in Publisher, Call(q) PROVE MeshTypeOK' /\ CallsTyped'
  BY <1>0, <1>4, CallStepTyped, Zenon
<1> QED
  BY <1>0, <1>1, <1>2, <1>3, <1>4, StepCases, MeshStepTyped, Zenon

\* The node and owner tables, and every answer on its way into one, hold ids of
\* brokers, in all orders of starts, syncs, expiries, crashes and publish calls.
THEOREM RoutingTyped == RSpec => []RoutingTypeOK
  BY TypeInit, TypeStep, PTL DEF RSpec
-----------------------------------------------------------------------------

Right(f) == \A p \in DOMAIN f : f[p].of = p

\* Right owners are passed on with every answer, so the answers on their way and
\* the targets of forwards belong to the invariant.
TablesRight ==
  \A n \in Node : /\ Right(partitions[n])
                  /\ Right(joinAnswer[n].partitions)
                  /\ Right(syncAnswer[n].partitions)
CallsRight ==
  \A q \in Publisher : /\ Right(got[q].partitions)
                       /\ pc[q] = "forward" => \A i \in peer[q] : i.of = to[q]

LEMMA NoAnswerRight == Right(NoOwners) /\ Right(NoAnswer.partitions)
  BY Zenon DEF Right, NoOwners, NoAnswer

LEMMA InsertAllRight ==
  ASSUME NEW f, NEW g, Right(f), Right(g)
  PROVE  Right(InsertAll(f, g))
  BY Zenon DEF Right, InsertAll

LEMMA LearnRight ==
  ASSUME RoutingTypeOK, TablesRight, NEW n \in Node, NEW t \in Answer, Right(t.partitions),
         Learn(n, t) \/ LearnAtStart(n, t)
  PROVE  \A m \in Node : Right(partitions'[m])
<1> DEFINE new == t.nodes \ nodes[n]
<1>1. new \in SUBSET NodeId /\ partitions \in [Node -> Owners] /\ Right(partitions[n])
  BY Zenon DEF RoutingTypeOK, MeshTypeOK, Answer, TablesRight
<1>2. PICK own \in AddedOwners(new) :
        \/ partitions' = [partitions EXCEPT ![n] =
             InsertAll(InsertAll(partitions[n], t.partitions), own)]
        \/ partitions' = [partitions EXCEPT ![n] =
             InsertAll(InsertAll(partitions[n], own), t.partitions)]
  BY Zenon DEF Learn, LearnAtStart
<1> HIDE DEF new
<1>3. Right(own)
  BY <1>1, <1>2, AddedOwnersTyped, Zenon DEF Right
<1>4. /\ Right(InsertAll(InsertAll(partitions[n], t.partitions), own))
      /\ Right(InsertAll(InsertAll(partitions[n], own), t.partitions))
  BY <1>1, <1>3, InsertAllRight, Zenon
<1>5. \A m \in Node : m # n => partitions'[m] = partitions[m]
  BY <1>1, <1>2, Zenon
<1>6. Right(partitions'[n])
  BY <1>1, <1>2, <1>4, Zenon
<1> QED
  BY <1>5, <1>6, Zenon DEF TablesRight

LEMMA LookupRight ==
  ASSUME TablesRight, NEW n \in Node, NEW p, NEW i \in get_node_for_partition(n, p)
  PROVE  i.of = p
  BY Zenon DEF TablesRight, Right, get_node_for_partition

\* The mesh's own steps.
LEMMA MeshStepRight ==
  ASSUME RoutingTypeOK, TablesRight, NEW n \in Node,
         \/ start(n) \/ serve(n) \/ Tick(n) \/ request_cluster_state(n) \/ Sync(n)
         \/ RemoveStale(n) \/ Crash(n)
         \/ \E m \in Node : BootAnswered(n, m) \/ BootFails(n, m)
         \/ \E i \in round[n] : SyncAnswered(n, i) \/ SyncFails(n, i)
         \/ \E i \in nodes[n] : Elapse(n, i)
  PROVE  TablesRight'
<1>0. /\ partitions \in [Node -> Owners]
      /\ joinAnswer \in [Node -> Answer] /\ syncAnswer \in [Node -> Answer]
  BY Zenon DEF RoutingTypeOK, MeshTypeOK
<1>1. CASE start(n)
  <2> DEFINE f == [p \in {n} |-> MeshId(n, starts'[n])]
  <2>1. Right(f)
    BY Zenon DEF Right, MeshId
  <2>2. partitions' = [partitions EXCEPT ![n] = f]
    BY <1>1, Zenon DEF start
  <2> HIDE DEF f
  <2>3. \A m \in Node : Right(partitions'[m])
    BY <1>0, <2>1, <2>2, Zenon DEF TablesRight
  <2> QED
    BY <1>1, <2>3, Zenon DEF start, TablesRight
<1>2. CASE serve(n) \/ Tick(n)
  BY <1>2, Zenon DEF serve, Tick, topologies, asking, TablesRight
<1>3. CASE request_cluster_state(n)
  <2>1. \A m \in Node : Right(partitions'[m])
    BY <1>0, <1>3, LearnRight, Zenon DEF request_cluster_state, TablesRight
  <2> QED
    BY <1>0, <1>3, <2>1, NoAnswerRight, Zenon DEF request_cluster_state, TablesRight
<1>4. CASE Sync(n)
  <2>1. \A m \in Node : Right(partitions'[m])
    BY <1>0, <1>4, LearnRight, Zenon DEF Sync, TablesRight
  <2> QED
    BY <1>0, <1>4, <2>1, NoAnswerRight, Zenon DEF Sync, TablesRight
<1>5. CASE RemoveStale(n)
  <2>1. \A m \in Node : \A p \in DOMAIN partitions'[m] :
          p \in DOMAIN partitions[m] /\ partitions'[m][p] = partitions[m][p]
    BY <1>5, RemoveTyped, Zenon DEF RemoveStale, RoutingTypeOK
  <2>2. \A m \in Node : Right(partitions'[m])
    BY <2>1 DEF Right, TablesRight
  <2> QED
    BY <1>5, <2>2, Zenon DEF RemoveStale, asking, TablesRight
<1>6. CASE Crash(n)
  BY <1>0, <1>6, NoAnswerRight, Zenon DEF Crash, TablesRight
<1>7. ASSUME NEW m \in Node, BootAnswered(n, m) PROVE TablesRight'
  <2>1. Right(get_mesh_topology(m).partitions)
    BY Zenon DEF get_mesh_topology, TablesRight
  <2> QED
    BY <1>0, <1>7, <2>1, Zenon DEF BootAnswered, topologies, TablesRight
<1>8. ASSUME NEW i \in round[n], SyncAnswered(n, i) PROVE TablesRight'
  <2>1. i.of \in Node
    BY <1>8 DEF RoutingTypeOK, MeshTypeOK, NodeId
  <2>2. Right(get_mesh_topology(i.of).partitions)
    BY <2>1, Zenon DEF get_mesh_topology, TablesRight
  <2> QED
    BY <1>0, <1>8, <2>2, Zenon DEF SyncAnswered, topologies, TablesRight
<1>9. ASSUME NEW i, BootFails(n, i) \/ SyncFails(n, i) \/ Elapse(n, i) PROVE TablesRight'
  BY <1>9, Zenon DEF BootFails, SyncFails, Elapse, topologies, asking, TablesRight
<1> QED
  BY <1>1, <1>2, <1>3, <1>4, <1>5, <1>6, <1>7, <1>8, <1>9, Zenon

\* A publish call's steps.
LEMMA CallStepRight ==
  ASSUME RoutingTypeOK, TablesRight, CallsRight, NEW q \in Publisher, Call(q)
  PROVE  TablesRight' /\ CallsRight'
<1>0. /\ Home[q] \in Node /\ got \in [Publisher -> Answer] /\ pc \in [Publisher -> Place]
      /\ peer \in [Publisher -> SUBSET NodeId] /\ to \in [Publisher -> Node]
  BY RoutingAssumption, Zenon DEF RoutingTypeOK
<1>1. UNCHANGED mesh => TablesRight'
  BY Zenon DEF mesh, topologies, asking, TablesRight
<1>2. ASSUME NEW p \in Node, publish(q, p) PROVE TablesRight' /\ CallsRight'
  BY <1>0, <1>1, <1>2, Zenon DEF publish, Goto, CallsRight
<1>3. CASE Lookup(q)
  <2>1. \A i \in get_node_for_partition(Home[q], to[q]) : i.of = to[q]
    BY <1>0, LookupRight, Zenon
  <2> QED
    BY <1>0, <1>1, <1>3, <2>1, Zenon DEF Lookup, SetPeer, Goto, CallsRight
<1>4. CASE StartSync(q) \/ StartDiscover(q) \/ SyncEnds(q)
  BY <1>0, <1>1, <1>4, Zenon DEF StartSync, StartDiscover, SyncEnds, CallNext, SetPeer, Goto, CallsRight
<1>5. ASSUME NEW i \in peer[q], SyncGets(q, i) PROVE TablesRight' /\ CallsRight'
  <2>1. i.of \in Node
    BY <1>0, <1>5 DEF NodeId
  <2>2. Right(get_mesh_topology(i.of).partitions)
    BY <2>1, Zenon DEF get_mesh_topology, TablesRight
  <2> QED
    BY <1>0, <1>1, <1>5, <2>2, Zenon DEF SyncGets, CallNext, SetPeer, Goto, CallsRight
<1>6. CASE SyncWrites(q)
  <2>1. \A m \in Node : Right(partitions'[m])
    BY <1>0, <1>6, LearnRight, Zenon DEF SyncWrites, CallsRight
  <2>2. TablesRight'
    BY <1>6, <2>1, Zenon DEF SyncWrites, asking, TablesRight
  <2> QED
    BY <1>0, <1>6, <2>2, NoAnswerRight, Zenon DEF SyncWrites, Goto, CallsRight
<1>7. CASE Retry(q)
  <2>1. \A i \in get_node_for_partition(Home[q], to[q]) : i.of = to[q]
    BY <1>0, LookupRight, Zenon
  <2>2. \A i \in get_broker_for_partition(to[q]) : i.of = to[q]
    BY DEF get_broker_for_partition, InfoId
  <2> QED
    BY <1>0, <1>1, <1>7, <2>1, <2>2, ZenonT(30) DEF Retry, SetPeer, Goto, CallsRight
<1>8. CASE Forward(q) \/ RequestEnds(q)
  <2>1. /\ UNCHANGED mesh
        /\ pc' = [pc EXCEPT ![q] = "idle"] /\ got' = [got EXCEPT ![q] = NoAnswer]
        /\ peer' = [peer EXCEPT ![q] = {}] /\ to' = [to EXCEPT ![q] = Home[q]]
    BY <1>8, Zenon DEF Forward, RequestEnds, End
  <2>2. pc'[q] = "idle" /\ got'[q] = NoAnswer
    BY <1>0, <2>1, Zenon
  <2>3. ASSUME NEW r \in Publisher, r # q
        PROVE  pc'[r] = pc[r] /\ got'[r] = got[r] /\ peer'[r] = peer[r] /\ to'[r] = to[r]
    BY <1>0, <2>1, <2>3, Zenon
  <2>4. CallsRight'
    BY <2>2, <2>3, NoAnswerRight, Zenon DEF CallsRight
  <2> QED
    BY <1>1, <2>1, <2>4, Zenon
<1>9. ASSUME NEW i \in peer[q], RequestGets(q, i) \/ AskFails(q, i)
      PROVE  TablesRight' /\ CallsRight'
  BY <1>0, <1>1, <1>9, Zenon DEF RequestGets, AskFails, CallNext, SetPeer, Goto, CallsRight
<1> QED
  BY <1>2, <1>3, <1>4, <1>5, <1>6, <1>7, <1>8, <1>9, Zenon DEF Call

\* Whatever tables a broker was given, and however old they are, it forwards a
\* message only to the broker of the message's partition.
THEOREM OwnerGetsMessage == RSpec => []ForwardedToOwner
<1>1. RInit => TablesRight /\ CallsRight
  BY NoAnswerRight, SMTT(20) DEF RInit, MeshInit, TablesRight, CallsRight
<1>2. RoutingTypeOK /\ TablesRight /\ CallsRight /\ [RNext]_rvars => TablesRight' /\ CallsRight'
  <2> SUFFICES ASSUME RoutingTypeOK, TablesRight, CallsRight, [RNext]_rvars
               PROVE  TablesRight' /\ CallsRight'
    BY Zenon
  <2>1. CASE UNCHANGED rvars
    BY <2>1, Zenon DEF rvars, mesh, topologies, asking, calls, TablesRight, CallsRight
  <2>2. UNCHANGED calls => CallsRight'
    BY Zenon DEF calls, CallsRight
  <2>3. ASSUME NEW n \in Node, Stop(n) PROVE TablesRight' /\ CallsRight'
    <3>1. Crash(n)
      BY <2>3, Zenon DEF Stop
    <3>2. TablesRight'
      BY <3>1, MeshStepRight, Zenon
    <3>3. CallsRight'
      BY <2>3, NoAnswerRight, Zenon DEF Stop, CallsRight
    <3> QED
      BY <3>2, <3>3, Zenon
  <2> QED
    BY <2>1, <2>2, <2>3, StepCases, MeshStepRight, CallStepRight, Zenon
<1>3. TablesRight /\ CallsRight => ForwardedToOwner
  BY Zenon DEF TablesRight, CallsRight, Right, ForwardedToOwner
<1> QED
  BY <1>1, <1>2, <1>3, RoutingTyped, PTL DEF RSpec
-----------------------------------------------------------------------------
(* Discovery *)

LEMMA ReachIsClosed ==
  ASSUME NEW n \in Node
  PROVE  /\ n \in Reach(n) /\ Reach(n) \subseteq Node
         /\ Bootstrap[n] \subseteq Reach(n)
         /\ \A m \in Reach(n) : Reach(m) \subseteq Reach(n)
  BY MeshAssumption, Zenon DEF Reach

Within(ids, n) == \A i \in ids : i.of \in Reach(n)

\* Whom a broker may ask it reaches, and so what it is told it reaches too.
TablesWithin ==
  \A n \in Node : /\ Within(nodes[n], n) /\ Within(round[n], n)
                  /\ boot[n] \subseteq Reach(n)
                  /\ Within(joinAnswer[n].nodes, n)
                  /\ Within(syncAnswer[n].nodes, n)
CallsWithin ==
  \A q \in Publisher :
    /\ Within(got[q].nodes, Home[q])
    /\ pc[q] \in {"sync", "request"} => Within(peer[q], Home[q]) /\ Within(ask[q], Home[q])

\* What a reachable broker answers is within reach.
LEMMA AnswerWithin ==
  ASSUME TablesWithin, NEW n \in Node, NEW m \in Reach(n)
  PROVE  Within(get_mesh_topology(m).nodes, n)
  BY ReachIsClosed, Zenon DEF TablesWithin, Within, get_mesh_topology

LEMMA LearnWithin ==
  ASSUME RoutingTypeOK, TablesWithin, NEW n \in Node, NEW t \in Answer, Within(t.nodes, n),
         Learn(n, t) \/ LearnAtStart(n, t)
  PROVE  \A m \in Node : Within(nodes'[m], m)
<1>1. nodes' = [nodes EXCEPT ![n] = nodes[n] \cup t.nodes]
  BY LearnTyped, Zenon DEF RoutingTypeOK
<1> QED
  BY <1>1, Zenon DEF RoutingTypeOK, MeshTypeOK, TablesWithin, Within

LEMMA MeshStepWithin ==
  ASSUME RoutingTypeOK, TablesWithin, NEW n \in Node,
         \/ start(n) \/ serve(n) \/ Tick(n) \/ request_cluster_state(n) \/ Sync(n)
         \/ RemoveStale(n) \/ Crash(n)
         \/ \E m \in Node : BootAnswered(n, m) \/ BootFails(n, m)
         \/ \E i \in round[n] : SyncAnswered(n, i) \/ SyncFails(n, i)
         \/ \E i \in nodes[n] : Elapse(n, i)
  PROVE  TablesWithin'
<1>0. /\ nodes \in [Node -> SUBSET NodeId] /\ round \in [Node -> SUBSET NodeId]
      /\ boot \in [Node -> SUBSET Node]
      /\ joinAnswer \in [Node -> Answer] /\ syncAnswer \in [Node -> Answer]
  BY Zenon DEF RoutingTypeOK, MeshTypeOK
<1>n. \A m \in Node : Within(NoAnswer.nodes, m) /\ Within({}, m)
  BY Zenon DEF Within, NoAnswer
<1>1. CASE start(n)
  <2>1. Within({InfoId(n, starts'[n])}, n)
    <3>1. n \in Reach(n)
      BY ReachIsClosed, Zenon
    <3>2. InfoId(n, starts'[n]).of = n
      BY Zenon DEF InfoId
    <3> QED
      BY <3>1, <3>2, Zenon DEF Within
  <2>2. \A m \in Node : Within(nodes'[m], m)
    BY <1>0, <1>1, <2>1, Zenon DEF start, TablesWithin
  <2>3. \A m \in Node : boot'[m] \subseteq Reach(m)
    BY <1>0, <1>1, ReachIsClosed, Zenon DEF start, TablesWithin
  <2> QED
    BY <1>1, <2>2, <2>3, Zenon DEF start, TablesWithin
<1>2. CASE serve(n)
  BY <1>2, Zenon DEF serve, topologies, asking, TablesWithin
<1>3. CASE Tick(n)
  <2>1. PICK i, j \in nodes[n] : round' = [round EXCEPT ![n] = {i, j}]
    BY <1>3, Zenon DEF Tick
  <2>2. Within({i, j}, n)
    BY Zenon DEF TablesWithin, Within
  <2>3. \A m \in Node : Within(round[m], m)
    BY Zenon DEF TablesWithin
  <2>4. \A m \in Node : Within(round'[m], m)
    BY <1>0, <2>1, <2>2, <2>3, Zenon
  <2> QED
    BY <1>3, <2>4, Zenon DEF Tick, topologies, TablesWithin
<1>4. CASE request_cluster_state(n)
  <2>1. \A m \in Node : Within(nodes'[m], m)
    BY <1>0, <1>4, LearnWithin, Zenon DEF request_cluster_state, TablesWithin
  <2> QED
    BY <1>0, <1>n, <1>4, <2>1, Zenon DEF request_cluster_state, TablesWithin
<1>5. CASE Sync(n)
  <2>1. \A m \in Node : Within(nodes'[m], m)
    BY <1>0, <1>5, LearnWithin, Zenon DEF Sync, TablesWithin
  <2> QED
    BY <1>0, <1>n, <1>5, <2>1, Zenon DEF Sync, TablesWithin
<1>6. CASE RemoveStale(n)
  <2>1. \A m \in Node : nodes'[m] \subseteq nodes[m]
    BY <1>6, RemoveTyped, Zenon DEF RemoveStale, RoutingTypeOK
  <2>2. \A m \in Node : Within(nodes'[m], m)
    BY <2>1, Zenon DEF TablesWithin, Within
  <2> QED
    BY <1>6, <2>2, Zenon DEF RemoveStale, asking, TablesWithin
<1>7. CASE Crash(n)
  BY <1>0, <1>n, <1>7, Zenon DEF Crash, TablesWithin
<1>8. ASSUME NEW m \in Node, BootAnswered(n, m) PROVE TablesWithin'
  <2>1. Within(get_mesh_topology(m).nodes, n)
    BY <1>8, AnswerWithin, Zenon DEF BootAnswered, TablesWithin
  <2> QED
    BY <1>0, <1>8, <2>1, Zenon DEF BootAnswered, topologies, TablesWithin
<1>9. ASSUME NEW i \in round[n], SyncAnswered(n, i) PROVE TablesWithin'
  <2>1. Within(get_mesh_topology(i.of).nodes, n)
    BY <1>9, AnswerWithin, Zenon DEF TablesWithin, Within
  <2>2. \A m \in Node : Within(round'[m], m)
    BY <1>0, <1>9, Zenon DEF SyncAnswered, TablesWithin, Within
  <2> QED
    BY <1>0, <1>9, <2>1, <2>2, Zenon DEF SyncAnswered, topologies, TablesWithin
<1>10. ASSUME NEW m, BootFails(n, m) PROVE TablesWithin'
  BY <1>0, <1>10, Zenon DEF BootFails, topologies, TablesWithin
<1>11. ASSUME NEW i, SyncFails(n, i) PROVE TablesWithin'
  <2>1. \A m \in Node : Within(round'[m], m)
    BY <1>0, <1>11, Zenon DEF SyncFails, TablesWithin, Within
  <2> QED
    BY <1>11, <2>1, Zenon DEF SyncFails, topologies, TablesWithin
<1>12. ASSUME NEW i, Elapse(n, i) PROVE TablesWithin'
  BY <1>12, Zenon DEF Elapse, asking, TablesWithin
<1> QED
  BY <1>1, <1>2, <1>3, <1>4, <1>5, <1>6, <1>7, <1>8, <1>9, <1>10, <1>11, <1>12, Zenon

LEMMA CallStepWithin ==
  ASSUME RoutingTypeOK, TablesWithin, CallsWithin, NEW q \in Publisher, Call(q)
  PROVE  TablesWithin' /\ CallsWithin'
<1>0. /\ Home[q] \in Node /\ got \in [Publisher -> Answer] /\ pc \in [Publisher -> Place]
      /\ peer \in [Publisher -> SUBSET NodeId] /\ ask \in [Publisher -> SUBSET NodeId]
  BY RoutingAssumption, Zenon DEF RoutingTypeOK
<1>1. UNCHANGED mesh => TablesWithin'
  BY Zenon DEF mesh, topologies, asking, TablesWithin
<1>2. Within(NoAnswer.nodes, Home[q]) /\ Within(nodes[Home[q]], Home[q])
  BY <1>0, Zenon DEF Within, NoAnswer, TablesWithin
<1>3. ASSUME NEW p \in Node, publish(q, p) PROVE TablesWithin' /\ CallsWithin'
  BY <1>0, <1>1, <1>3, Zenon DEF publish, Goto, CallsWithin
<1>4. CASE Lookup(q) \/ Retry(q)
  <2>1. /\ pc'[q] \notin {"sync", "request"}
        /\ \A r \in Publisher : r # q => pc'[r] = pc[r] /\ peer'[r] = peer[r]
        /\ UNCHANGED <<mesh, ask, got>>
    BY <1>0, <1>4, Zenon DEF Lookup, Retry, SetPeer, Goto
  <2> QED
    BY <1>1, <2>1, Zenon DEF CallsWithin
<1>5. CASE StartSync(q) \/ StartDiscover(q)
  <2>1. /\ peer'[q] \subseteq nodes[Home[q]] /\ ask'[q] \subseteq nodes[Home[q]]
        /\ \A r \in Publisher : r # q => /\ pc'[r] = pc[r] /\ peer'[r] = peer[r]
                                         /\ ask'[r] = ask[r]
        /\ UNCHANGED <<mesh, got>>
    BY <1>0, <1>5 DEF StartSync, StartDiscover, CallNext, SetPeer, Goto
  <2>2. Within(peer'[q], Home[q]) /\ Within(ask'[q], Home[q])
    BY <1>2, <2>1, Zenon DEF Within
  <2> QED
    BY <1>1, <2>1, <2>2, Zenon DEF CallsWithin
<1>6. ASSUME NEW i \in peer[q], SyncGets(q, i) PROVE TablesWithin' /\ CallsWithin'
  <2>1. i.of \in Reach(Home[q])
    BY <1>6, Zenon DEF SyncGets, CallsWithin, Within
  <2>2. Within(get_mesh_topology(i.of).nodes, Home[q])
    BY <1>0, <2>1, AnswerWithin, Zenon
  <2>3. /\ pc'[q] = "write" /\ got'[q] = get_mesh_topology(i.of)
        /\ \A r \in Publisher : r # q => /\ pc'[r] = pc[r] /\ peer'[r] = peer[r]
                                         /\ ask'[r] = ask[r] /\ got'[r] = got[r]
        /\ UNCHANGED mesh
    BY <1>0, <1>6, Zenon DEF SyncGets, CallNext, SetPeer, Goto
  <2> QED
    BY <1>1, <2>2, <2>3, Zenon DEF CallsWithin
<1>7. CASE SyncWrites(q)
  <2>1. \A m \in Node : Within(nodes'[m], m)
    BY <1>0, <1>7, LearnWithin, Zenon DEF SyncWrites, CallsWithin
  <2>2. TablesWithin'
    BY <1>7, <2>1, Zenon DEF SyncWrites, asking, TablesWithin
  <2> QED
    BY <1>0, <1>2, <1>7, <2>2, Zenon DEF SyncWrites, Goto, CallsWithin
<1>8. CASE SyncEnds(q)
  BY <1>0, <1>1, <1>8, Zenon DEF SyncEnds, Goto, CallsWithin
<1>9. CASE Forward(q) \/ RequestEnds(q)
  BY <1>0, <1>1, <1>2, <1>9, ZenonT(30) DEF Forward, RequestEnds, End, CallsWithin
<1>10. ASSUME NEW i \in peer[q], RequestGets(q, i) PROVE TablesWithin' /\ CallsWithin'
  BY <1>0, <1>1, <1>10, Zenon DEF RequestGets, Goto, CallsWithin
<1>11. ASSUME NEW i \in peer[q], AskFails(q, i) PROVE TablesWithin' /\ CallsWithin'
  <2>1. /\ peer'[q] \subseteq ask[q] /\ ask'[q] \subseteq ask[q]
        /\ \A r \in Publisher : r # q => peer'[r] = peer[r] /\ ask'[r] = ask[r]
        /\ UNCHANGED <<mesh, pc, got>>
    BY <1>0, <1>11 DEF AskFails, CallNext, SetPeer
  <2>2. Within(peer'[q], Home[q]) /\ Within(ask'[q], Home[q])
    BY <1>11, <2>1, Zenon DEF AskFails, CallsWithin, Within
  <2> QED
    BY <1>1, <2>1, <2>2, Zenon DEF CallsWithin
<1> QED
  BY <1>3, <1>4, <1>5, <1>6, <1>7, <1>8, <1>9, <1>10, <1>11, Zenon DEF Call

\* Syncs, restarts and publish calls never tell a broker of one that its own
\* bootstrap list, and those of the brokers on it, do not lead to.
THEOREM DiscoveryFollowsBootstrap == RSpec => []DiscoveryIsOneWay
<1>1. RInit => TablesWithin /\ CallsWithin
  <2> SUFFICES ASSUME RInit PROVE TablesWithin /\ CallsWithin
    BY Zenon
  <2>1. NoAnswer.nodes = {} /\ \A n \in Node : Within({}, n)
    BY Zenon DEF NoAnswer, Within
  <2>2. TablesWithin
    BY <2>1, Zenon DEF RInit, MeshInit, TablesWithin
  <2>3. CallsWithin
    BY <2>1, RoutingAssumption, Zenon DEF RInit, CallsWithin
  <2> QED
    BY <2>2, <2>3, Zenon
<1>2. RoutingTypeOK /\ TablesWithin /\ CallsWithin /\ [RNext]_rvars
        => TablesWithin' /\ CallsWithin'
  <2> SUFFICES ASSUME RoutingTypeOK, TablesWithin, CallsWithin, [RNext]_rvars
               PROVE  TablesWithin' /\ CallsWithin'
    BY Zenon
  <2>1. CASE UNCHANGED rvars
    BY <2>1, Zenon DEF rvars, mesh, topologies, asking, calls, TablesWithin, CallsWithin
  <2>2. UNCHANGED calls => CallsWithin'
    BY Zenon DEF calls, CallsWithin
  <2>3. ASSUME NEW n \in Node, Stop(n) PROVE TablesWithin' /\ CallsWithin'
    <3>1. TablesWithin'
      BY <2>3, MeshStepWithin, Zenon DEF Stop
    <3>2. CallsWithin'
      BY <2>3, Zenon DEF Stop, CallsWithin, Within, NoAnswer
    <3> QED
      BY <3>1, <3>2, Zenon
  <2> QED
    BY <2>1, <2>2, <2>3, StepCases, MeshStepWithin, CallStepWithin, Zenon
<1>3. TablesWithin => DiscoveryIsOneWay
  BY Zenon DEF TablesWithin, Within, DiscoveryIsOneWay
<1> QED
  BY <1>1, <1>2, <1>3, RoutingTyped, PTL DEF RSpec
-----------------------------------------------------------------------------
(* Discovered nodes are routable *)

\* The bootstrap brokers are asked only while a broker joins: their answers,
\* whose owners are written last, never reach the tables of one that serves.
AskedWhileJoining ==
  \A n \in Node : phase[n] # "joining" => boot[n] = {} /\ ~joinAnswer[n].given

LEMMA InitAsked == RInit => AskedWhileJoining
<1>1. NoAnswer.given = FALSE
  BY Zenon DEF NoAnswer
<1> QED
  BY <1>1, ZenonT(30) DEF RInit, MeshInit, AskedWhileJoining

LEMMA NextAsked ==
  ASSUME RoutingTypeOK, AskedWhileJoining, [RNext]_rvars
  PROVE  AskedWhileJoining'
<1>0. /\ phase \in [Node -> {"off", "joining", "up"}] /\ boot \in [Node -> SUBSET Node]
      /\ joinAnswer \in [Node -> Answer]
  BY Zenon DEF RoutingTypeOK, MeshTypeOK
<1>1. ASSUME UNCHANGED <<phase, boot, joinAnswer>> PROVE AskedWhileJoining'
  BY <1>1, Zenon DEF AskedWhileJoining
<1>2. ASSUME NEW n \in Node, start(n) PROVE AskedWhileJoining'
  BY <1>0, <1>2, Zenon DEF start, AskedWhileJoining
<1>3. ASSUME NEW n \in Node, serve(n) PROVE AskedWhileJoining'
  BY <1>0, <1>3, Zenon DEF serve, asking, AskedWhileJoining
<1>4. ASSUME NEW n \in Node, Stop(n) PROVE AskedWhileJoining'
  BY <1>0, <1>4, Zenon DEF Stop, Crash, NoAnswer, AskedWhileJoining
<1>5. ASSUME NEW n \in Node, NEW m \in Node, BootAnswered(n, m) \/ BootFails(n, m)
      PROVE  AskedWhileJoining'
  <2>1. phase[n] = "joining"
    BY <1>5, Zenon DEF BootAnswered, BootFails, AskedWhileJoining
  <2> QED
    BY <1>0, <1>5, <2>1, Zenon DEF BootAnswered, BootFails, AskedWhileJoining
<1>6. ASSUME NEW n \in Node, request_cluster_state(n) PROVE AskedWhileJoining'
  BY <1>0, <1>6, Zenon DEF request_cluster_state, NoAnswer, AskedWhileJoining
<1>7. ASSUME NEW n \in Node, Tick(n) \/ Sync(n) \/ RemoveStale(n) PROVE AskedWhileJoining'
  BY <1>1, <1>7, Zenon DEF Tick, Sync, RemoveStale, asking
<1>8. ASSUME NEW n \in Node, NEW i, SyncAnswered(n, i) \/ SyncFails(n, i) \/ Elapse(n, i)
      PROVE  AskedWhileJoining'
  BY <1>1, <1>8, Zenon DEF SyncAnswered, SyncFails, Elapse, asking
<1>9. ASSUME NEW q \in Publisher, Call(q) PROVE AskedWhileJoining'
  <2>1. UNCHANGED mesh \/ SyncWrites(q)
    BY <1>9, Zenon DEF Call, publish, Lookup, StartSync, SyncEnds, Retry, Forward, StartDiscover,
                       RequestEnds, SyncGets, RequestGets, AskFails
  <2>2. UNCHANGED <<phase, boot, joinAnswer>>
    BY <2>1, Zenon DEF SyncWrites, mesh, asking
  <2> QED
    BY <1>1, <2>2, Zenon
<1>10. CASE UNCHANGED rvars
  BY <1>1, <1>10, Zenon DEF rvars, mesh, asking
<1> QED
  BY <1>2, <1>3, <1>4, <1>5, <1>6, <1>7, <1>8, <1>9, <1>10, StepCases, Zenon

\* The nodes that are new in the table of n have a known owner of their partition.
Routable(n) ==
  \A i \in nodes'[n] \ nodes[n] :
    i.of \in DOMAIN partitions'[n] /\ partitions'[n][i.of] \in nodes'[n]

LEMMA LearnRoutes ==
  ASSUME RoutingTypeOK, NEW n \in Node, NEW t \in Answer, Learn(n, t)
  PROVE  \A m \in Node : Routable(m)
<1> DEFINE new == t.nodes \ nodes[n]
<1>1. nodes \in [Node -> SUBSET NodeId] /\ partitions \in [Node -> Owners]
  BY Zenon DEF RoutingTypeOK, MeshTypeOK
<1>2. /\ nodes' = [nodes EXCEPT ![n] = nodes[n] \cup new]
      /\ \E own \in AddedOwners(new) :
           partitions' = [partitions EXCEPT ![n] = InsertAll(InsertAll(partitions[n], t.partitions), own)]
  BY Zenon DEF Learn
<1> HIDE DEF new
<1>3. PICK own \in AddedOwners(new) :
        partitions' = [partitions EXCEPT ![n] = InsertAll(InsertAll(partitions[n], t.partitions), own)]
  BY <1>2, Zenon
<1>4. own \in [{i.of : i \in new} -> new]
  BY <1>3, Zenon DEF AddedOwners
<1>5. nodes'[n] = nodes[n] \cup new /\ \A m \in Node : m # n => nodes'[m] = nodes[m]
  BY <1>1, <1>2, Zenon
<1>6. partitions'[n] = InsertAll(InsertAll(partitions[n], t.partitions), own)
  BY <1>1, <1>3, Zenon
<1>7. \A p \in DOMAIN own : p \in DOMAIN partitions'[n] /\ partitions'[n][p] = own[p]
  BY <1>6, Zenon DEF InsertAll
<1>8. \A i \in new : i.of \in DOMAIN own /\ own[i.of] \in new
  BY <1>4, Zenon
<1>9. Routable(n)
  BY <1>5, <1>7, <1>8, Zenon DEF Routable
<1> QED
  BY <1>5, <1>9, Zenon DEF Routable

\* Whichever answers the gossip task and the manual syncs of publish calls
\* apply, in whatever order: a node that appears in the table of a serving
\* broker comes with a known owner of its partition.
THEOREM DiscoveredNodesRoutable == RSpec => DiscoveredIsRoutable
<1> DEFINE Added == \A n \in Node : phase[n] = "up" /\ phase'[n] = "up" =>
                      \A i \in nodes'[n] \ nodes[n] :
                        i.of \in DOMAIN partitions'[n] /\ partitions'[n][i.of] \in nodes'[n]
<1>1. ASSUME RoutingTypeOK, AskedWhileJoining, [RNext]_rvars PROVE [Added]_mesh
  <2>0. phase \in [Node -> {"off", "joining", "up"}] /\ nodes \in [Node -> SUBSET NodeId]
    BY <1>1, Zenon DEF RoutingTypeOK, MeshTypeOK
  <2>1. ASSUME \A m \in Node : phase[m] = "up" /\ phase'[m] = "up" => Routable(m) PROVE Added
    BY <2>1, Zenon DEF Routable
  <2>2. ASSUME NEW m \in Node, nodes'[m] \subseteq nodes[m] PROVE Routable(m)
    BY <2>2, Zenon DEF Routable
  <2> HIDE DEF Added
  <2>3. ASSUME UNCHANGED nodes PROVE Added
    BY <2>1, <2>2, <2>3, Zenon
  <2>4. ASSUME NEW n \in Node, start(n) PROVE Added
    <3>1. phase'[n] # "up" /\ \A m \in Node : m # n => nodes'[m] = nodes[m]
      BY <2>0, <2>4, Zenon DEF start
    <3> QED
      BY <2>1, <2>2, <3>1, Zenon
  <2>5. ASSUME NEW n \in Node, request_cluster_state(n) PROVE Added
    <3>1. phase[n] # "up"
      BY <1>1, <2>5, Zenon DEF request_cluster_state, AskedWhileJoining
    <3>2. \A m \in Node : m # n => nodes'[m] = nodes[m]
      BY <2>0, <2>5, Zenon DEF request_cluster_state, LearnAtStart
    <3> QED
      BY <2>1, <2>2, <3>1, <3>2, Zenon
  <2>6. ASSUME NEW n \in Node, Sync(n) PROVE Added
    <3>1. syncAnswer[n] \in Answer
      BY <1>1, Zenon DEF RoutingTypeOK, MeshTypeOK
    <3> QED
      BY <1>1, <2>1, <2>6, <3>1, LearnRoutes, Zenon DEF Sync
  <2>7. ASSUME NEW n \in Node, RemoveStale(n) \/ Stop(n) PROVE Added
    <3>1. \A m \in Node : nodes'[m] \subseteq nodes[m]
      BY <2>0, <2>7, Zenon DEF RemoveStale, remove_nodes, Stop, Crash
    <3> QED
      BY <2>1, <2>2, <3>1, Zenon
  <2>8. ASSUME NEW n \in Node, serve(n) \/ Tick(n) PROVE Added
    BY <2>3, <2>8, Zenon DEF serve, Tick, topologies
  <2>9. ASSUME NEW n \in Node, NEW i,
               \/ BootAnswered(n, i) \/ BootFails(n, i) \/ SyncAnswered(n, i)
               \/ SyncFails(n, i) \/ Elapse(n, i)
        PROVE  Added
    BY <2>3, <2>9, Zenon DEF BootAnswered, BootFails, SyncAnswered, SyncFails, Elapse, topologies
  <2>10. ASSUME NEW q \in Publisher, Call(q) PROVE UNCHANGED mesh \/ Added
    <3>1. UNCHANGED mesh \/ SyncWrites(q)
      BY <2>10, Zenon DEF Call, publish, Lookup, StartSync, SyncEnds, Retry, Forward, StartDiscover,
                          RequestEnds, SyncGets, RequestGets, AskFails
    <3>2. Home[q] \in Node /\ got[q] \in Answer
      BY <1>1, RoutingAssumption, Zenon DEF RoutingTypeOK
    <3> QED
      BY <1>1, <2>1, <3>1, <3>2, LearnRoutes, Zenon DEF SyncWrites
  <2>11. ASSUME UNCHANGED rvars PROVE UNCHANGED mesh
    BY <2>11, Zenon DEF rvars
  <2> QED
    BY <1>1, <2>4, <2>5, <2>6, <2>7, <2>8, <2>9, <2>10, <2>11, StepCases, Zenon
<1> QED
  BY <1>1, InitAsked, NextAsked, RoutingTyped, PTL DEF RSpec, DiscoveredIsRoutable
-----------------------------------------------------------------------------
(* The transaction coordinator *)

(***************************************************************************)
(* The inductive invariant.  AllWritesOnce needs to know that an active    *)
(* transaction still holds every write it accepted and has handed out      *)
(* nothing; that is kept because an id that has left the map, or failed,   *)
(* was begun once and is not drawn again.                                  *)
(***************************************************************************)
ActiveIntact ==
  \A x \in TxnId :
    Active(x) => /\ transactions[x].writes = accepted[x]
                 /\ delivered[x] = <<>>
                 /\ x \notin failed

BegunOnce ==
  \A x \in TxnId :
    x \notin begun => /\ ~Present(x) /\ x \notin failed
                      /\ accepted[x] = <<>> /\ delivered[x] = <<>>

IssuedBelow ==
  \A p \in Producer :
    /\ producers[p] = NoProducer => issued[p] = {}
    /\ producers[p] # NoProducer => \A n \in issued[p] : n <= producers[p]

TxnInv ==
  /\ TypeOK
  /\ OneActivePerProducer /\ ActiveIntact /\ BegunOnce /\ AllWritesOnce /\ IssuedBelow

\* The facts about lists of writes that the steps need.
LEMMA WritesFacts ==
  /\ <<>> \in Writes /\ <<>> \in Seq(Writes)
  /\ \A ws \in Writes, w \in Write : Append(ws, w) \in Writes
  /\ \A ws \in Writes : <<ws>> \in Seq(Writes) /\ <<ws>> # <<>> /\ Append(<<>>, ws) = <<ws>>
  BY DEF Writes

LEMMA InitTxnInv == Init => TxnInv
  BY CoordinatorAssumption, WritesFacts
     DEF Init, TxnInv, TypeOK, OneActivePerProducer, ActiveIntact, BegunOnce,
         AllWritesOnce, IssuedBelow, Active, Present
\* A step that leaves transaction x with state st and writes ws, and nothing
\* else of the map changed.
Changed(x, st, ws) ==
  /\ transactions' \in [TxnId -> Txn \cup {NoTxn}]
  /\ transactions'[x] # NoTxn
  /\ transactions'[x].state = st /\ transactions'[x].writes = ws
  /\ transactions'[x].producer = transactions[x].producer
  /\ \A y \in TxnId \ {x} : transactions'[y] = transactions[y]

LEMMA StateChanged ==
  ASSUME TypeOK, NEW x \in TxnId, Present(x), NEW st \in States, SetState(x, st)
  PROVE  Changed(x, st, transactions[x].writes)
<1>1. transactions[x] \in Txn
  BY Zenon DEF TypeOK, Present
<1>2. [transactions[x] EXCEPT !.state = st] \in Txn
  BY <1>1, Zenon DEF Txn
<1> QED
  BY <1>1, <1>2, CoordinatorAssumption, Zenon DEF SetState, TypeOK, Txn, Changed

LEMMA AbortChanges ==
  ASSUME TxnInv, NEW x \in TxnId, abort_transaction(x)
  PROVE  Changed(x, "Aborted", <<>>)
<1>1. transactions[x] \in Txn
  BY Zenon DEF abort_transaction, TxnInv, TypeOK, Present
<1>2. [transactions[x] EXCEPT !.state = "Aborted", !.writes = <<>>] \in Txn
  BY <1>1, WritesFacts, Zenon DEF Txn, States
<1> QED
  BY <1>1, <1>2, CoordinatorAssumption, Zenon DEF abort_transaction, Changed, TxnInv, TypeOK, Txn

\* What add_write does when the transaction has not timed out.
WriteTaken(x, w) ==
  /\ Active(x) /\ transactions[x].state = "Preparing"
  /\ x \in begun /\ delivered[x] = <<>>
  /\ Changed(x, "Preparing", Append(accepted[x], w))
  /\ accepted' = [accepted EXCEPT ![x] = Append(accepted[x], w)]
  /\ Append(accepted[x], w) \in Writes
  /\ UNCHANGED <<producers, now, begun, delivered, failed, issued>>

LEMMA WriteAccepted ==
  ASSUME TxnInv, NEW x \in TxnId, NEW w \in Write, add_write(x, w), ~TimeOut(x)
  PROVE  WriteTaken(x, w)
<1> DEFINE new == [transactions[x] EXCEPT !.writes = Append(transactions[x].writes, w)]
<1>1. /\ Active(x) /\ transactions[x] \in Txn /\ transactions[x].state = "Preparing"
      /\ transactions' = [transactions EXCEPT ![x] = new]
      /\ accepted' = [accepted EXCEPT ![x] = Append(accepted[x], w)]
      /\ UNCHANGED <<producers, now, begun, delivered, failed, issued>>
  BY Zenon DEF add_write, TxnInv, TypeOK, Active, Present
<1>2. x \in begun /\ delivered[x] = <<>> /\ transactions[x].writes = accepted[x]
  BY <1>1, Zenon DEF TxnInv, BegunOnce, ActiveIntact, Active
<1>3. new \in Txn /\ Append(accepted[x], w) \in Writes
  BY <1>1, <1>2, WritesFacts, Zenon DEF Txn
<1>4. Changed(x, "Preparing", Append(accepted[x], w))
  BY <1>1, <1>2, <1>3, CoordinatorAssumption, Zenon DEF Changed, TxnInv, TypeOK, Txn
<1> QED
  BY <1>1, <1>2, <1>3, <1>4, Zenon DEF WriteTaken

\* Only begin_transaction can make a second active transaction of a producer,
\* and only add_write, commit_transaction and the failures touch what
\* ActiveIntact and AllWritesOnce speak of.
LEMMA NextTxnInv ==
  ASSUME TxnInv, [Next]_vars
  PROVE  TxnInv'
<1> USE CoordinatorAssumption DEF Present, Active
<1>1. ASSUME NEW x \in TxnId, NEW p \in Producer, begin_transaction(x, p)
      PROVE  TxnInv'
  <2> DEFINE new == [producer |-> p, state |-> "Preparing", writes |-> <<>>, started_at |-> now]
  <2>1. /\ new \in Txn
        /\ transactions' = [transactions EXCEPT ![x] = new]
        /\ ~Present(x) /\ x \notin failed /\ accepted[x] = <<>> /\ delivered[x] = <<>>
    BY <1>1, Zenon DEF begin_transaction, TxnInv, TypeOK, Txn, States, BegunOnce
  <2>2. TypeOK' /\ IssuedBelow'
    BY <1>1, <2>1, SMTT(30) DEF begin_transaction, Register, TxnInv, TypeOK, IssuedBelow
  <2>3. /\ transactions'[x].producer = p
        /\ \A y \in TxnId \ {x} : transactions'[y] = transactions[y]
    BY <2>1, Zenon DEF TxnInv, TypeOK
  <2>4. OneActivePerProducer'
    <3>1. \A y \in TxnId : Active(y) => transactions[y].producer # p
      BY <1>1, Zenon DEF begin_transaction, HasActive
    <3> QED
      BY <2>3, <3>1, ZenonT(30) DEF TxnInv, OneActivePerProducer
  <2>5. ActiveIntact'
    <3>1. transactions'[x].writes = <<>>
      BY <2>1, Zenon DEF TxnInv, TypeOK
    <3>2. UNCHANGED <<accepted, delivered, failed>>
      BY <1>1, Zenon DEF begin_transaction
    <3> QED
      BY <2>1, <2>3, <3>1, <3>2, Zenon DEF TxnInv, ActiveIntact
  <2>6. BegunOnce' /\ AllWritesOnce'
    BY <1>1, <2>1, Zenon DEF begin_transaction, TxnInv, TypeOK, BegunOnce, AllWritesOnce
  <2> QED
    BY <2>2, <2>4, <2>5, <2>6, Zenon DEF TxnInv
<1>2. ASSUME NEW x \in TxnId, TimeOut(x)
      PROVE  TxnInv'
  <2>1. Changed(x, "TimedOut", transactions[x].writes)
    BY <1>2, StateChanged, Zenon DEF TimeOut, TxnInv, States
  <2>2. TypeOK' /\ IssuedBelow'
    BY <1>2, <2>1, Zenon DEF TimeOut, Changed, TxnInv, TypeOK, IssuedBelow
  <2>3. OneActivePerProducer' /\ ActiveIntact'
    BY <1>2, <2>1, SMTT(30) DEF TimeOut, Changed, TxnInv, OneActivePerProducer, ActiveIntact
  <2>4. BegunOnce' /\ AllWritesOnce'
    BY <1>2, <2>1, Zenon DEF TimeOut, Changed, TxnInv, BegunOnce, AllWritesOnce
  <2> QED
    BY <2>2, <2>3, <2>4, Zenon DEF TxnInv
<1>3. ASSUME NEW x \in TxnId, NEW w \in Write, add_write(x, w)
      PROVE  TxnInv'
  <2>1. CASE ~TimeOut(x)
    <3>1. WriteTaken(x, w)
      BY <1>3, <2>1, WriteAccepted, Zenon
    <3>2. TypeOK' /\ IssuedBelow'
      BY <3>1, Zenon DEF WriteTaken, Changed, TxnInv, TypeOK, IssuedBelow
    <3>3. OneActivePerProducer'
      BY <3>1, SMTT(30) DEF WriteTaken, Changed, TxnInv, OneActivePerProducer
    <3>4. ActiveIntact'
      BY <3>1, Zenon DEF WriteTaken, Changed, TxnInv, TypeOK, ActiveIntact
    <3>5. BegunOnce' /\ AllWritesOnce'
      BY <3>1, Zenon DEF WriteTaken, Changed, TxnInv, TypeOK, BegunOnce, AllWritesOnce
    <3> QED
      BY <3>2, <3>3, <3>4, <3>5, Zenon DEF TxnInv
  <2> QED
    BY <1>2, <2>1, Zenon
<1>4. ASSUME NEW x \in TxnId, prepare_transaction(x)
      PROVE  TxnInv'
  <2>1. CASE ~TimeOut(x)
    <3>1. Changed(x, "Prepared", transactions[x].writes)
      BY <1>4, <2>1, StateChanged, Zenon DEF prepare_transaction, TxnInv, States
    <3>2. /\ Active(x) /\ UNCHANGED <<producers, now, history>>
      BY <1>4, <2>1, Zenon DEF prepare_transaction
    <3>3. TypeOK' /\ IssuedBelow'
      BY <3>1, <3>2, Zenon DEF history, Changed, TxnInv, TypeOK, IssuedBelow
    <3>4. OneActivePerProducer' /\ ActiveIntact'
      BY <3>1, <3>2 DEF history, Changed, TxnInv, OneActivePerProducer, ActiveIntact
    <3>5. BegunOnce' /\ AllWritesOnce'
      BY <3>1, <3>2, Zenon DEF history, Changed, TxnInv, BegunOnce, AllWritesOnce
    <3> QED
      BY <3>3, <3>4, <3>5, Zenon DEF TxnInv
  <2> QED
    BY <1>2, <1>4, <2>1, Zenon
<1>5. ASSUME NEW x \in TxnId, commit_transaction(x)
      PROVE  TxnInv'
  <2>1. /\ Active(x) /\ transactions[x] \in Txn /\ x \in begun
        /\ transactions[x].writes = accepted[x] /\ delivered[x] = <<>>
    BY <1>5, Zenon DEF commit_transaction, TxnInv, TypeOK, ActiveIntact, BegunOnce
  <2>2. /\ delivered' = [delivered EXCEPT ![x] = <<accepted[x]>>]
        /\ <<accepted[x]>> \in Seq(Writes)
    BY <1>5, <2>1, WritesFacts, Zenon DEF commit_transaction, TxnInv, TypeOK
  <2>3. Changed(x, "Committed", transactions[x].writes)
    BY <1>5, StateChanged, Zenon DEF commit_transaction, TxnInv, States
  <2>4. TypeOK' /\ IssuedBelow'
    BY <1>5, <2>2, <2>3 DEF commit_transaction, Changed, TxnInv, TypeOK, IssuedBelow
  <2>5. OneActivePerProducer' /\ ActiveIntact'
    <3>1. /\ UNCHANGED <<accepted, failed>>
          /\ \A y \in TxnId \ {x} : delivered'[y] = delivered[y]
      BY <1>5, <2>2, Zenon DEF commit_transaction, TxnInv, TypeOK
    <3> QED
      BY <2>3, <3>1 DEF Changed, TxnInv, OneActivePerProducer, ActiveIntact
  <2>6. BegunOnce' /\ AllWritesOnce'
    BY <1>5, <2>1, <2>2, <2>3
       DEF commit_transaction, Changed, TxnInv, TypeOK, BegunOnce, AllWritesOnce
  <2> QED
    BY <2>4, <2>5, <2>6, Zenon DEF TxnInv
<1>6. ASSUME NEW x \in TxnId, abort_transaction(x)
      PROVE  TxnInv'
  <2>1. Changed(x, "Aborted", <<>>)
    BY <1>6, AbortChanges, Zenon
  <2>2. TypeOK' /\ IssuedBelow'
    BY <1>6, <2>1, Zenon DEF abort_transaction, Changed, TxnInv, TypeOK, IssuedBelow
  <2>3. OneActivePerProducer' /\ ActiveIntact'
    BY <1>6, <2>1 DEF abort_transaction, Changed, TxnInv, OneActivePerProducer, ActiveIntact
  <2>4. BegunOnce' /\ AllWritesOnce'
    BY <1>6, <2>1 DEF abort_transaction, Changed, TxnInv, BegunOnce, AllWritesOnce
  <2> QED
    BY <2>2, <2>3, <2>4, Zenon DEF TxnInv
<1>7. ASSUME NEW p \in Producer, next_sequence(p)
      PROVE  TxnInv'
  <2>1. TypeOK' /\ IssuedBelow'
    BY <1>7 DEF next_sequence, TxnInv, TypeOK, IssuedBelow
  <2> QED
    BY <1>7, <2>1, Zenon DEF next_sequence, TxnInv, OneActivePerProducer, ActiveIntact,
                      BegunOnce, AllWritesOnce
<1>8. CASE cleanup_old_transactions
  <2>1. TypeOK' /\ IssuedBelow'
    BY <1>8, Zenon DEF cleanup_old_transactions, history, TxnInv, TypeOK, IssuedBelow
  <2>2. OneActivePerProducer' /\ ActiveIntact'
    BY <1>8, Zenon DEF cleanup_old_transactions, history, TxnInv, TypeOK,
                OneActivePerProducer, ActiveIntact
  <2>3. BegunOnce' /\ AllWritesOnce'
    BY <1>8, Zenon DEF cleanup_old_transactions, history, TxnInv, TypeOK, BegunOnce, AllWritesOnce
  <2> QED
    BY <2>1, <2>2, <2>3, Zenon DEF TxnInv
<1>9. CASE SetClock \/ UNCHANGED vars
  BY <1>9 DEF SetClock, vars, history, TxnInv, TypeOK, OneActivePerProducer, ActiveIntact,
              BegunOnce, AllWritesOnce, IssuedBelow
<1> QED
  BY <1>1, <1>3, <1>4, <1>5, <1>6, <1>7, <1>8, <1>9, Zenon DEF Next

LEMMA TxnInvariant == Spec => []TxnInv
  BY InitTxnInv, NextTxnInv, PTL DEF Spec

\* The coordinator's state keeps its types.
THEOREM CoordinatorTyped == Spec => []TypeOK
<1>1. TxnInv => TypeOK
  BY Zenon DEF TxnInv
<1> QED
  BY <1>1, TxnInvariant, PTL

\* begin_transaction never gives a producer a second transaction that can
\* still take writes or commit.
THEOREM ProducerHasOneActive == Spec => []OneActivePerProducer
<1>1. TxnInv => OneActivePerProducer
  BY Zenon DEF TxnInv
<1> QED
  BY <1>1, TxnInvariant, PTL

\* commit_transaction hands out all accepted writes of a transaction, in
\* order, and never a second time.
THEOREM WritesDeliveredOnce == Spec => []AllWritesOnce
<1>1. TxnInv => AllWritesOnce
  BY Zenon DEF TxnInv
<1> QED
  BY <1>1, TxnInvariant, PTL

\* validate_sequence refuses every number handed out before.
THEOREM DuplicatesRefused == Spec => []DuplicateRefused
<1>1. TxnInv => DuplicateRefused
  <2> SUFFICES ASSUME TxnInv, NEW p \in Producer, NEW n \in issued[p]
               PROVE  n # producers[p] + 1
    BY Zenon DEF DuplicateRefused, validate_sequence
  <2>1. producers[p] \in Nat /\ n \in Nat /\ n <= producers[p]
    BY Zenon DEF TxnInv, TypeOK, IssuedBelow
  <2> QED
    BY <2>1
<1> QED
  BY <1>1, TxnInvariant, PTL

\* A transaction reported as timed out or aborted takes no write and hands out
\* none afterwards: only active transactions do, and those have not failed.
THEOREM FailureIsFinal == Spec => FailedIsFinal
<1>1. ASSUME TxnInv, [Next]_vars
      PROVE  [\A x \in failed : delivered'[x] = delivered[x] /\ accepted'[x] = accepted[x]]_vars
  <2>1. ASSUME NEW x \in TxnId, NEW w \in Write, add_write(x, w)
        PROVE  \A y \in failed : delivered'[y] = delivered[y] /\ accepted'[y] = accepted[y]
    BY <1>1, <2>1, Zenon DEF add_write, TimeOut, TxnInv, TypeOK, ActiveIntact, Active
  <2>2. ASSUME NEW x \in TxnId, commit_transaction(x)
        PROVE  \A y \in failed : delivered'[y] = delivered[y] /\ accepted'[y] = accepted[y]
    BY <1>1, <2>2, Zenon DEF commit_transaction, TxnInv, TypeOK, ActiveIntact, Active
  <2> QED
    BY <1>1, <2>1, <2>2, Zenon DEF Next, begin_transaction, prepare_transaction, TimeOut, abort_transaction,
          next_sequence, cleanup_old_transactions, SetClock, history, vars
<1> QED
  BY <1>1, TxnInvariant, PTL DEF Spec, FailedIsFinal

(***************************************************************************)
(* Refinement.  The mapping depends on few facts of a transaction, so each *)
(* step is described by what it does to the phase of the transaction it is *)
(* called for, and leaves the phase of the others alone.                   *)
(***************************************************************************)
LEMMA PhaseMoves ==
  ASSUME NEW x \in TxnId, NEW s, Phase(x)' = s,
         \A y \in TxnId \ {x} : Phase(y)' = Phase(y)
  PROVE  [y \in TxnId |-> Phase(y)]' = [[y \in TxnId |-> Phase(y)] EXCEPT ![x] = s]
  BY Zenon

LEMMA OthersKeepPhase ==
  ASSUME NEW x \in TxnId,
         \A y \in TxnId \ {x} : /\ transactions'[y] = transactions[y]
                                /\ delivered'[y] = delivered[y]
                                /\ y \in begun' <=> y \in begun
  PROVE  \A y \in TxnId \ {x} : Phase(y)' = Phase(y)
  BY Zenon DEF Phase, Active, Present

\* A transaction that fails while active is dropped; a later failure of a
\* delivered or dropped one is invisible.
LEMMA FailureRefines ==
  ASSUME TxnInv, NEW x \in TxnId, Present(x), NEW st \in {"TimedOut", "Aborted"}, NEW ws,
         Changed(x, st, ws), UNCHANGED <<begun, accepted, delivered>>
  PROVE  Abstract!Drop(x) \/ UNCHANGED Abstract!avars
<1>1. \A y \in TxnId \ {x} : Phase(y)' = Phase(y)
  BY OthersKeepPhase, Zenon DEF Changed
<1>2. x \in begun
  BY Zenon DEF TxnInv, BegunOnce
<1>3. CASE delivered[x] # <<>>
  <2>1. Phase(x) = "delivered" /\ Phase(x)' = "delivered"
    BY <1>2, <1>3, Zenon DEF Phase
  <2> QED
    BY <1>1, <2>1, Zenon DEF Abstract!avars
<1>4. CASE delivered[x] = <<>> /\ ~Active(x)
  <2>1. Phase(x) = "dropped" /\ Phase(x)' = "dropped"
    BY <1>2, <1>4, Zenon DEF Phase, Active, Present, Changed
  <2> QED
    BY <1>1, <2>1, Zenon DEF Abstract!avars
<1>5. CASE delivered[x] = <<>> /\ Active(x)
  <2>1. Phase(x) \in {"open", "sealed"} /\ Phase(x)' = "dropped"
    BY <1>2, <1>5, Zenon DEF Phase, Active, Present, Changed
  <2>2. [y \in TxnId |-> Phase(y)]' = [[y \in TxnId |-> Phase(y)] EXCEPT ![x] = "dropped"]
    BY <1>1, <2>1, PhaseMoves, Zenon
  <2> QED
    BY <2>1, <2>2, Zenon DEF Abstract!Drop
<1> QED
  BY <1>3, <1>4, <1>5, Zenon

LEMMA StepRefines ==
  ASSUME TxnInv, [Next]_vars
  PROVE  [Abstract!ANext]_(Abstract!avars)
<1>1. ASSUME NEW x \in TxnId, NEW p \in Producer, begin_transaction(x, p)
      PROVE  Abstract!Open(x)
  <2>1. Phase(x) = "none" /\ Phase(x)' = "open"
    BY <1>1, CoordinatorAssumption
       DEF begin_transaction, Phase, Active, Present, TxnInv, TypeOK, Txn, States, BegunOnce
  <2>2. \A y \in TxnId \ {x} : Phase(y)' = Phase(y)
    BY <1>1, OthersKeepPhase, Zenon DEF begin_transaction, TxnInv, TypeOK
  <2>3. UNCHANGED <<accepted, delivered>>
    BY <1>1, Zenon DEF begin_transaction
  <2> QED
    BY <2>1, <2>2, <2>3, PhaseMoves, Zenon DEF Abstract!Open
<1>2. ASSUME NEW x \in TxnId, TimeOut(x)
      PROVE  Abstract!Drop(x) \/ UNCHANGED Abstract!avars
  <2>1. Changed(x, "TimedOut", transactions[x].writes)
    BY <1>2, StateChanged, Zenon DEF TimeOut, TxnInv, States
  <2> QED
    BY <1>2, <2>1, FailureRefines, Zenon DEF TimeOut
<1>3. ASSUME NEW x \in TxnId, NEW w \in Write, add_write(x, w), ~TimeOut(x)
      PROVE  Abstract!Accept(x, w)
  <2>1. WriteTaken(x, w)
    BY <1>3, WriteAccepted, Zenon
  <2>2. Phase(x) = "open" /\ Phase(x)' = "open"
    BY <2>1, Zenon DEF WriteTaken, Changed, Phase, Active, Present
  <2>3. \A y \in TxnId \ {x} : Phase(y)' = Phase(y)
    BY <2>1, OthersKeepPhase, Zenon DEF WriteTaken, Changed
  <2> QED
    BY <2>1, <2>2, <2>3, Zenon DEF WriteTaken, Abstract!Accept
<1>4. ASSUME NEW x \in TxnId, prepare_transaction(x), ~TimeOut(x)
      PROVE  Abstract!Seal(x)
  <2>1. /\ Changed(x, "Prepared", transactions[x].writes)
        /\ Active(x) /\ transactions[x].state = "Preparing"
        /\ UNCHANGED <<begun, accepted, delivered>>
    BY <1>4, StateChanged, Zenon DEF prepare_transaction, Active, history, TxnInv, States
  <2>2. x \in begun /\ delivered[x] = <<>>
    BY <2>1, Zenon DEF TxnInv, BegunOnce, ActiveIntact, Active
  <2>3. Phase(x) = "open" /\ Phase(x)' = "sealed"
    BY <2>1, <2>2, Zenon DEF Changed, Phase, Active, Present
  <2>4. \A y \in TxnId \ {x} : Phase(y)' = Phase(y)
    BY <2>1, OthersKeepPhase, Zenon DEF Changed
  <2> QED
    BY <2>1, <2>3, <2>4, PhaseMoves, Zenon DEF Abstract!Seal
<1>5. ASSUME NEW x \in TxnId, commit_transaction(x)
      PROVE  Abstract!Deliver(x)
  <2>1. /\ Changed(x, "Committed", transactions[x].writes)
        /\ Active(x) /\ transactions[x].state = "Prepared"
        /\ delivered' = [delivered EXCEPT ![x] = Append(@, transactions[x].writes)]
        /\ UNCHANGED <<begun, accepted>>
    BY <1>5, StateChanged, Zenon DEF commit_transaction, Active, TxnInv, States
  <2>2. x \in begun /\ delivered[x] = <<>> /\ transactions[x].writes = accepted[x]
    BY <2>1, Zenon DEF TxnInv, BegunOnce, ActiveIntact, Active
  <2>3. /\ delivered'[x] # <<>>
        /\ \A y \in TxnId \ {x} : delivered'[y] = delivered[y]
    BY <2>1, <2>2, WritesFacts, Zenon DEF TxnInv, TypeOK
  <2>4. Phase(x) = "sealed" /\ Phase(x)' = "delivered"
    BY <2>1, <2>2, <2>3, Zenon DEF Phase, Active, Present
  <2>5. \A y \in TxnId \ {x} : Phase(y)' = Phase(y)
    BY <2>1, <2>3, OthersKeepPhase, Zenon DEF Changed
  <2> QED
    BY <2>1, <2>2, <2>4, <2>5, PhaseMoves, Zenon DEF Abstract!Deliver
<1>6. ASSUME NEW x \in TxnId, abort_transaction(x)
      PROVE  Abstract!Drop(x) \/ UNCHANGED Abstract!avars
  BY <1>6, AbortChanges, FailureRefines, Zenon DEF abort_transaction
<1>7. CASE cleanup_old_transactions
  <2>1. \A y \in TxnId : Phase(y)' = Phase(y)
    BY <1>7, Zenon DEF cleanup_old_transactions, history, Retained, Phase, Active, Present
  <2> QED
    BY <1>7, <2>1, Zenon DEF cleanup_old_transactions, history, Abstract!avars
<1>8. CASE (\E p \in Producer : next_sequence(p)) \/ SetClock \/ UNCHANGED vars
  BY <1>8, Zenon DEF next_sequence, SetClock, vars, history, Phase, Active, Present, Abstract!avars
<1> QED
  BY <1>1, <1>2, <1>3, <1>4, <1>5, <1>6, <1>7, <1>8, Zenon
     DEF Next, add_write, prepare_transaction, Abstract!ANext

\* The coordinator implements AtomicCommit: all the writes of a transaction
\* are handed out once, or none ever is.
THEOREM CoordinatorImplementsAtomicCommit == Spec => ImplementsAtomicCommit
<1>1. Init => Abstract!AInit
  BY Zenon DEF Init, Phase, Abstract!AInit
<1> QED
  BY <1>1, StepRefines, TxnInvariant, PTL DEF Spec, ImplementsAtomicCommit, Abstract!ASpec
-----------------------------------------------------------------------------
(* The circuit breaker *)

Update == HealthStatus \cup {"reset"}

BreakerTyped ==
  /\ updating \in (Component \X HealthStatus) \cup {<<>>}
  /\ updates \in [Component -> Seq(Update)]
  /\ failure_counts \in [Component -> Nat]

\* The breaker's count is the number of failures.
CountsFailures(c) ==
  IsFiniteSet(Failures(updates[c])) /\ failure_counts[c] = Cardinality(Failures(updates[c]))

BreakerInv == BreakerTyped /\ \A c \in Component : CountsFailures(c)

\* What one more update does to the failures.
LEMMA FailuresOfAppend ==
  ASSUME NEW u \in Seq(Update), NEW s \in Update
  PROVE  /\ s = "Unhealthy" => Failures(Append(u, s)) = Failures(u) \cup {Len(u) + 1}
         /\ s \in {"Healthy", "reset"} => Failures(Append(u, s)) = {}
         /\ s \in {"Degraded", "Unknown"} => Failures(Append(u, s)) = Failures(u)
<1> DEFINE v == Append(u, s)
<1>1. /\ Len(u) \in Nat /\ Len(v) = Len(u) + 1 /\ v[Len(u) + 1] = s
      /\ \A i \in 1..Len(u) : v[i] = u[i]
  OBVIOUS
<1>2. /\ \A i \in 1..Len(v) : i \in 1..Len(u) \/ i = Len(u) + 1
      /\ \A i \in 1..Len(u) : i \in 1..Len(v) /\ Len(v) \in (i + 1)..Len(v)
      /\ Len(v) \in 1..Len(v) /\ (Len(v) + 1)..Len(v) = {}
      /\ \A i \in 1..Len(u) : \A j \in (i + 1)..Len(v) :
           (j \in (i + 1)..Len(u) /\ j \in 1..Len(u)) \/ j = Len(v)
      /\ \A i \in 1..Len(u) : \A j \in (i + 1)..Len(u) : j \in (i + 1)..Len(v) /\ j \in 1..Len(u)
  BY <1>1
<1> HIDE DEF v
<1>3. ASSUME s = "Unhealthy" PROVE Failures(v) = Failures(u) \cup {Len(u) + 1}
  BY <1>1, <1>2, <1>3, SMTT(20) DEF Failures
<1>4. ASSUME s \in {"Healthy", "reset"} PROVE Failures(v) = {}
  BY <1>1, <1>2, <1>4, Zenon DEF Failures
<1>5. ASSUME s \in {"Degraded", "Unknown"} PROVE Failures(v) = Failures(u)
  BY <1>1, <1>2, <1>5, Zenon DEF Failures
<1> QED
  BY <1>3, <1>4, <1>5, Zenon DEF v

\* The count after one more update of a component, a reset included.
CountAfter(s, n) == IF s = "reset" THEN 0 ELSE Counted(s, n)

LEMMA CountOfAppend ==
  ASSUME NEW u \in Seq(Update), NEW s \in Update, IsFiniteSet(Failures(u))
  PROVE  /\ IsFiniteSet(Failures(Append(u, s)))
         /\ Cardinality(Failures(Append(u, s))) = CountAfter(s, Cardinality(Failures(u)))
<1>1. Len(u) + 1 \notin Failures(u)
  BY DEF Failures
<1>2. CASE s = "Unhealthy"
  BY <1>1, <1>2, FailuresOfAppend, FS_AddElement DEF CountAfter, Counted
<1>3. CASE s \in {"Healthy", "reset"}
  BY <1>3, FailuresOfAppend, FS_EmptySet, Zenon DEF CountAfter, Counted
<1>4. CASE s \in {"Degraded", "Unknown"}
  BY <1>4, FailuresOfAppend, Zenon DEF CountAfter, Counted
<1> QED
  BY <1>2, <1>3, <1>4, Zenon DEF Update, HealthStatus

LEMMA UpdateKeepsCounts ==
  ASSUME BreakerInv, NEW c \in Component, NEW s \in Update,
         updates' = [updates EXCEPT ![c] = Append(@, s)],
         failure_counts' = [failure_counts EXCEPT ![c] = CountAfter(s, @)],
         updating' \in (Component \X HealthStatus) \cup {<<>>}
  PROVE  BreakerInv'
<1>1. /\ updates[c] \in Seq(Update) /\ Append(updates[c], s) \in Seq(Update)
      /\ failure_counts[c] \in Nat
  BY DEF BreakerInv, BreakerTyped
<1>2. CountAfter(s, failure_counts[c]) \in Nat
  BY <1>1 DEF CountAfter, Counted
<1>3. /\ updates'[c] = Append(updates[c], s) /\ failure_counts'[c] = CountAfter(s, failure_counts[c])
      /\ \A d \in Component \ {c} : updates'[d] = updates[d] /\ failure_counts'[d] = failure_counts[d]
  BY Zenon DEF BreakerInv, BreakerTyped
<1>4. BreakerTyped'
  BY <1>1, <1>2, Zenon DEF BreakerInv, BreakerTyped
<1>5. CountsFailures(c)'
  <2>1. IsFiniteSet(Failures(updates[c])) /\ failure_counts[c] = Cardinality(Failures(updates[c]))
    BY Zenon DEF BreakerInv, CountsFailures
  <2>2. /\ IsFiniteSet(Failures(Append(updates[c], s)))
        /\ Cardinality(Failures(Append(updates[c], s))) = CountAfter(s, Cardinality(Failures(updates[c])))
    BY <1>1, <2>1, CountOfAppend, Zenon
  <2> QED
    BY <1>3, <2>1, <2>2, Zenon DEF CountsFailures
<1>6. \A d \in Component \ {c} : CountsFailures(d)'
  BY <1>3, Zenon DEF BreakerInv, CountsFailures
<1> QED
  BY <1>4, <1>5, <1>6, Zenon DEF BreakerInv

LEMMA InitBreakerInv == HInit => BreakerInv
<1> SUFFICES ASSUME HInit PROVE BreakerInv
  BY Zenon
<1>1. BreakerTyped
  BY DEF HInit, BreakerTyped
<1>2. \A c \in Component : Failures(updates[c]) = {}
  BY DEF HInit, Failures
<1> QED
  BY <1>1, <1>2, FS_EmptySet, Zenon DEF HInit, BreakerInv, CountsFailures

LEMMA NextBreakerInv == BreakerInv /\ [HNext]_hvars => BreakerInv'
<1> SUFFICES ASSUME BreakerInv, [HNext]_hvars PROVE BreakerInv'
  BY Zenon
<1>1. ASSUME updating' \in (Component \X HealthStatus) \cup {<<>>},
             UNCHANGED <<updates, failure_counts>>
      PROVE  BreakerInv'
  BY <1>1, Zenon DEF BreakerInv, BreakerTyped, CountsFailures
<1>2. updating \in (Component \X HealthStatus) \cup {<<>>}
  BY Zenon DEF BreakerInv, BreakerTyped
<1>3. CASE UpdateCount
  <2>1. PICK c \in Component, s \in HealthStatus : updating = <<c, s>>
    BY <1>2, <1>3 DEF UpdateCount
  <2>2. /\ updates' = [updates EXCEPT ![c] = Append(@, s)] /\ updating' = <<>>
        /\ failure_counts' = [failure_counts EXCEPT ![c] = Counted(s, @)]
    BY <1>3, <2>1, Zenon DEF UpdateCount
  <2>3. s # "reset" /\ s \in Update
    BY Zenon DEF HealthStatus, Update
  <2>4. \A n : CountAfter(s, n) = Counted(s, n)
    BY <2>3, Zenon DEF CountAfter
  <2> QED
    BY <2>2, <2>3, <2>4, UpdateKeepsCounts, Zenon
<1>4. ASSUME NEW c \in Component, reset_failures(c) PROVE BreakerInv'
  BY <1>2, <1>4, UpdateKeepsCounts, Zenon DEF reset_failures, CountAfter, Update
<1>5. ASSUME NEW c \in Component, NEW s \in HealthStatus, register_check(c, s) \/ update_check(c, s)
      PROVE  BreakerInv'
  BY <1>1, <1>2, <1>5 DEF register_check, update_check
<1>6. ASSUME NEW new, Schedule(new) PROVE BreakerInv'
  BY <1>1, <1>2, <1>6, Zenon DEF Schedule
<1>7. CASE BeatNext \/ UNCHANGED hvars
  BY <1>1, <1>2, <1>7, Zenon DEF BeatNext, record_heartbeat, remove_broker, Checker, CheckHeartbeats,
     on_dead, SetSystemTime, hvars, monitor
<1> QED
  BY <1>3, <1>4, <1>5, <1>6, <1>7, Zenon DEF HNext, CheckNext

\* For any components, threshold and order in which update_check and
\* reset_failures get at the counts: the circuit is broken after Threshold
\* failures since the component was last healthy or reset.
THEOREM BreakerCountsFailures == HSpec => []BreakerMatchesHistory
<1>1. BreakerInv => BreakerMatchesHistory
  <2> SUFFICES ASSUME BreakerInv, NEW c \in Component
               PROVE  is_circuit_broken(c) <=>
                        /\ Failures(updates[c]) # {}
                        /\ Cardinality(Failures(updates[c])) >= Threshold
    BY Zenon DEF BreakerMatchesHistory
  <2>1. IsFiniteSet(Failures(updates[c])) /\ failure_counts[c] = Cardinality(Failures(updates[c]))
    BY Zenon DEF BreakerInv, CountsFailures
  <2>2. Cardinality(Failures(updates[c])) = 0 <=> Failures(updates[c]) = {}
    BY <2>1, FS_EmptySet, Zenon
  <2> QED
    BY <2>1, <2>2, Zenon DEF is_circuit_broken
<1> QED
  BY <1>1, InitBreakerInv, NextBreakerInv, PTL DEF HSpec
=============================================================================

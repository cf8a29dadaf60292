------------------------------ MODULE Batching ------------------------------
(***************************************************************************)
(* BatchedProcessor (crates/broker/src/batching.rs): publish calls add     *)
(* messages, publish calls and the background flusher take the batches     *)
(* that are ready.  Both methods hold the mutex from start to end, so each *)
(* is one action.                                                          *)
(***************************************************************************)
EXTENDS Integers, Sequences, Functions, Lists

CONSTANTS
  Message,   \* publish requests, each sent once
  BatchSize  \* BatchedProcessor.batch_size

ASSUME BatchingAssumption == BatchSize \in Nat \ {0}

VARIABLES
  batches, \* BatchedProcessor.batches; old: max_wait_time has passed
  added,   \* history: messages added, in order
  taken    \* history: messages in the batches handed out, in order

batching == <<batches, added, taken>>

Messages == Seq(Message)

MessageBatch == [messages : Messages, old : BOOLEAN]

BInit == batches = <<>> /\ added = <<>> /\ taken = <<>>

\* MessageBatch::add_message accepts another message.
HasRoom(b) == Len(b.messages) < BatchSize

\* Mutant of add_message: any batch with room takes the message.
AddAnywhere(m) ==
  /\ \/ \E i \in 1..Len(batches) :
          /\ HasRoom(batches[i])
          /\ batches' = [batches EXCEPT ![i].messages = <<m>> \o @]
     \/ /\ \A i \in 1..Len(batches) : ~HasRoom(batches[i])
        /\ batches' = Append(batches, [messages |-> <<m>>, old |-> FALSE])
  /\ added' = Append(added, m)
  /\ UNCHANGED taken

\* BatchedProcessor::add_message
add_message(m) ==
  LET n == Len(batches)
  IN  /\ batches' = IF n > 0 /\ HasRoom(batches[n])
                    THEN [batches EXCEPT ![n].messages = Append(@, m)]
                    ELSE Append(batches, [messages |-> <<m>>, old |-> FALSE])
      /\ added' = Append(added, m)
      /\ UNCHANGED taken

\* Mutant of is_ready: only a full batch is ready.
is_full(b) == Len(b.messages) >= BatchSize

\* MessageBatch::is_ready
is_ready(b) == Len(b.messages) >= BatchSize \/ b.old

\* The messages of the first k batches, in order.
FirstMessages(k) == Flatten([i \in 1..k |-> batches[i].messages])

Ready(k) ==
  /\ \A i \in 1..k : is_ready(batches[i])
  /\ k < Len(batches) => ~is_ready(batches[k + 1])

\* Mutant of get_ready_batches: the batches handed out stay in the queue.
get_ready_batchesKept(k) ==
  /\ Ready(k)
  /\ taken' = taken \o FirstMessages(k)
  /\ UNCHANGED <<batches, added>>

\* BatchedProcessor::get_ready_batches, handing out the first k batches.  None
\* of them is empty.
get_ready_batches(k) ==
  /\ Ready(k)
  /\ batches' = SubSeq(batches, k + 1, Len(batches))
  /\ taken' = taken \o FirstMessages(k)
  /\ UNCHANGED added

\* max_wait_time passes for the oldest batch it has not passed for.
Elapse ==
  /\ \E i \in 1..Len(batches) :
       /\ ~batches[i].old
       /\ \A j \in 1..(i - 1) : batches[j].old
       /\ batches' = [batches EXCEPT ![i].old = TRUE]
  /\ UNCHANGED <<added, taken>>

TakeSome == \E k \in 0..Len(batches) : get_ready_batches(k)

BNext ==
  \/ \E m \in Message : m \notin Range(added) /\ add_message(m)
  \/ TakeSome
  \/ Elapse

BSpec == BInit /\ [][BNext]_batching

\* The flusher polls for ever, and time passes.
BFairSpec == BSpec /\ WF_batching(TakeSome) /\ WF_batching(Elapse)
-----------------------------------------------------------------------------
\* No batch is empty or too large, and all but the newest are full: the one at
\* which get_ready_batches stops is never a partial one in front of others.
FilledInOrder ==
  /\ \A i \in 1..Len(batches) : Len(batches[i].messages) \in 1..BatchSize
  /\ \A i \in 1..(Len(batches) - 1) : Len(batches[i].messages) = BatchSize

\* The batcher hands out every message once, in the order of the add_message
\* calls, whoever takes the batches.
FifoHandOut ==
  added = taken \o FirstMessages(Len(batches))

\* Every message added is handed out, also when no other message follows it.
EveryMessageTaken ==
  \A m \in Message : m \in Range(added) ~> m \in Range(taken)
=============================================================================

---------------------------- MODULE PublishProofs ----------------------------
(***************************************************************************)
(* For any publishers, forwarders, consumers and messages, and for every   *)
(* batch size: the broker uses the batcher as Batching has it, so batches  *)
(* are filled in order and handed out first in, first out; no message is   *)
(* stored twice or delivered twice; what a consumer is sent is in the log  *)
(* under the offset it is sent with; and no task takes the channel away    *)
(* from those who receive from it.                                         *)
(***************************************************************************)
EXTENDS Publish, Loops

BatchInv == batches \in Seq(MessageBatch) /\ FilledInOrder

\* A message added to a batch with room, or to a new one.
LEMMA AddKeepsFilled ==
  ASSUME BatchInv, NEW m \in Message, add_message(m)
  PROVE  BatchInv'
<1> USE BatchingAssumption
<1> DEFINE n == Len(batches)
<1>0. n \in Nat /\ \A i \in 1..n : batches[i] \in MessageBatch
  BY DEF BatchInv
<1>1. \A i \in 1..n : batches[i] \in MessageBatch /\ batches[i].messages \in Messages
  BY <1>0, Zenon DEF MessageBatch
<1>2. CASE n > 0 /\ HasRoom(batches[n])
  <2> DEFINE ms == Append(batches[n].messages, m)
             b == [batches[n] EXCEPT !.messages = ms]
  <2>1. ms \in Messages /\ Len(ms) = Len(batches[n].messages) + 1
    BY <1>1, <1>2 DEF Messages
  <2>2. b \in MessageBatch /\ b.messages = ms
    <3>1. batches[n] \in [messages : Messages, old : BOOLEAN]
      BY <1>0, <1>2 DEF MessageBatch
    <3> QED
      BY <2>1, <3>1, Zenon DEF MessageBatch
  <2> HIDE DEF ms
  <2>3. batches' = [batches EXCEPT ![n] = b]
    BY <1>2, Zenon DEF add_message, ms
  <2> HIDE DEF b
  <2>4. /\ batches' \in Seq(MessageBatch) /\ Len(batches') = n
        /\ batches'[n] = b /\ \A i \in 1..(n - 1) : batches'[i] = batches[i]
    BY <1>0, <1>2, <2>2, <2>3 DEF BatchInv
  <2>5. Len(batches[n].messages) \in Nat /\ Len(b.messages) \in 1..BatchSize
    BY <1>0, <1>1, <1>2, <2>1, <2>2 DEF HasRoom, Messages
  <2>6. \A i \in 1..n : Len(batches[i].messages) \in 1..BatchSize
    BY Zenon DEF BatchInv, FilledInOrder
  <2>7. \A i \in 1..n : Len(batches'[i].messages) \in 1..BatchSize
    <3>1. Len(batches'[n].messages) \in 1..BatchSize
      BY <2>4, <2>5, Zenon
    <3>2. \A i \in 1..(n - 1) : Len(batches'[i].messages) \in 1..BatchSize
      BY <2>4, <2>6
    <3> HIDE DEF n
    <3>3. \A i \in 1..n : i \in 1..(n - 1) \/ i = n
      BY <1>0
    <3> QED
      BY <3>1, <3>2, <3>3, Zenon
  <2>8. \A i \in 1..(n - 1) : Len(batches'[i].messages) = BatchSize
    BY <2>4, Zenon DEF BatchInv, FilledInOrder
  <2> QED
    BY <2>4, <2>7, <2>8, Zenon DEF BatchInv, FilledInOrder
<1>3. CASE ~(n > 0 /\ HasRoom(batches[n]))
  <2> DEFINE ms == <<m>>
             b == [messages |-> ms, old |-> FALSE]
  <2>1. ms \in Messages /\ Len(ms) = 1
    BY DEF Messages
  <2> HIDE DEF ms
  <2>2. b \in MessageBatch /\ b.messages = ms
    BY <2>1, Zenon DEF MessageBatch
  <2> HIDE DEF b
  <2>3. batches' = Append(batches, b)
    BY <1>3, Zenon DEF add_message, b, ms
  <2>4. /\ batches' \in Seq(MessageBatch) /\ Len(batches') = n + 1
        /\ batches'[n + 1] = b /\ \A i \in 1..n : batches'[i] = batches[i]
    BY <1>0, <2>2, <2>3 DEF BatchInv
  <2>5. \A i \in 1..n : Len(batches[i].messages) \in 1..BatchSize
    BY Zenon DEF BatchInv, FilledInOrder
  <2>6. n > 0 => Len(batches[n].messages) = BatchSize
    BY <1>0, <1>3, <2>5 DEF HasRoom
  <2>7. \A i \in 1..n : Len(batches[i].messages) = BatchSize
    BY <1>0, <2>6 DEF BatchInv, FilledInOrder
  <2>8. \A i \in 1..(n + 1) : Len(batches'[i].messages) \in 1..BatchSize
    <3>1. Len(batches'[n + 1].messages) \in 1..BatchSize
      <4>1. batches'[n + 1].messages = ms /\ Len(ms) = 1
        BY <2>1, <2>2, <2>4, Zenon
      <4>2. 1 \in 1..BatchSize
        OBVIOUS
      <4> QED
        BY <4>1, <4>2, Zenon
    <3>2. \A i \in 1..n : Len(batches'[i].messages) \in 1..BatchSize
      BY <2>4, <2>5, Zenon
    <3> HIDE DEF n
    <3>3. \A i \in 1..(n + 1) : i \in 1..n \/ i = n + 1
      BY <1>0
    <3> QED
      BY <3>1, <3>2, <3>3, Zenon
  <2>9. \A i \in 1..n : Len(batches'[i].messages) = BatchSize
    BY <2>4, <2>7, Zenon
  <2>10. 1..Len(batches') = 1..(n + 1) /\ 1..(Len(batches') - 1) = 1..n
    BY <1>0, <2>4
  <2> QED
    BY <2>4, <2>8, <2>9, <2>10, Zenon DEF BatchInv, FilledInOrder
<1> QED
  BY <1>2, <1>3, Zenon

\* Taking batches from the front leaves the rest as it was.
LEMMA TakeKeepsFilled ==
  ASSUME BatchInv, NEW k \in 0..Len(batches), get_ready_batches(k)
  PROVE  BatchInv'
<1>1. Len(batches) \in Nat /\ batches' = SubSeq(batches, k + 1, Len(batches))
  BY DEF BatchInv, get_ready_batches
<1>2. /\ batches' \in Seq(MessageBatch) /\ Len(batches') = Len(batches) - k
      /\ \A i \in 1..(Len(batches) - k) : batches'[i] = batches[i + k]
  BY <1>1 DEF BatchInv
<1> QED
  BY <1>1, <1>2 DEF BatchInv, FilledInOrder

\* The passing of time changes no batch's messages.
LEMMA ElapseKeepsMessages ==
  ASSUME BatchInv, Elapse
  PROVE  /\ batches' \in Seq(MessageBatch) /\ Len(batches') = Len(batches)
         /\ \A j \in 1..Len(batches) : batches'[j].messages = batches[j].messages
<1>1. PICK i \in 1..Len(batches) : batches' = [batches EXCEPT ![i].old = TRUE]
  BY Zenon DEF Elapse
<1>2. Len(batches) \in Nat /\ \A j \in 1..Len(batches) : batches[j] \in MessageBatch
  BY DEF BatchInv
<1> DEFINE b == [batches[i] EXCEPT !.old = TRUE]
<1>3. b \in MessageBatch /\ b.messages = batches[i].messages
  BY <1>2, Zenon DEF MessageBatch
<1>4. batches' = [batches EXCEPT ![i] = b]
  BY <1>1, Zenon
<1> HIDE DEF b
<1> QED
  BY <1>2, <1>3, <1>4 DEF BatchInv

LEMMA ElapseKeepsFilled ==
  ASSUME BatchInv, Elapse
  PROVE  BatchInv'
<1>1. Len(batches) \in Nat /\ \A i \in 1..(Len(batches) - 1) : i \in 1..Len(batches)
  BY DEF BatchInv
<1> QED
  BY <1>1, ElapseKeepsMessages, Zenon DEF BatchInv, FilledInOrder

LEMMA BatcherInit == BInit => BatchInv
  BY DEF BInit, BatchInv, FilledInOrder

LEMMA BatcherNext == BatchInv /\ [BNext]_batching => BatchInv'
<1> SUFFICES ASSUME BatchInv, [BNext]_batching PROVE BatchInv'
  BY Zenon
<1>1. CASE UNCHANGED batching
  BY <1>1, Zenon DEF batching, BatchInv, FilledInOrder
<1> QED
  BY <1>1, AddKeepsFilled, TakeKeepsFilled, ElapseKeepsFilled, Zenon DEF BNext, TakeSome

\* Every step of the broker is one of the batcher or leaves it alone.
LEMMA StepOfBatcher == [PNext]_pvars => [BNext]_batching
<1> SUFFICES ASSUME PNext PROVE [BNext]_batching
  BY Zenon DEF pvars, batching
<1>1. ASSUME NEW t \in Task, Run(t) PROVE [BNext]_batching
  <2>1. CASE TakeReady(t)
    BY <2>1, Zenon DEF TakeReady, BNext, TakeSome
  <2> QED
    BY <1>1, <2>1, Zenon DEF Run, StartBatch, SkipBatch, Append1, ForwardChannel, Send
<1>2. ASSUME NEW p \in Publisher, NEW m \in Message, publish(p, m) PROVE [BNext]_batching
  BY <1>2, Zenon DEF publish, BNext, Fresh, Known
<1>3. CASE WaitPasses
  BY <1>3, Zenon DEF WaitPasses, BNext
<1> QED
  BY <1>1, <1>2, <1>3, Zenon DEF PNext, Answer, forward_message, consume, Subscribe, Leave, Close

\* The broker's tasks, whatever their number, use the batcher as Batching
\* specifies it: publish adds each request once, publish and the flusher take
\* what is ready.
THEOREM BrokerImplementsBatching == PSpec => BSpec
<1>1. PInit => BInit
  BY Zenon DEF PInit
<1> QED
  BY <1>1, StepOfBatcher, PTL DEF PSpec, BSpec

\* However add_message, get_ready_batches and time alternate, no batch is empty
\* or too large, and all but the newest are full.
THEOREM BatchesFilledInOrder == PSpec => []FilledInOrder
<1>1. BatchInv => FilledInOrder
  BY Zenon DEF BatchInv
<1> QED
  BY <1>1, BatcherInit, BatcherNext, BrokerImplementsBatching, PTL DEF BSpec
-----------------------------------------------------------------------------
(* The order in which messages are handed out *)

Lists == [i \in 1..Len(batches) |-> batches[i].messages]

FifoInv == BatchInv /\ added \in Messages /\ taken \in Messages /\ FifoHandOut

LEMMA ListsTyped ==
  ASSUME BatchInv
  PROVE  /\ Len(batches) \in Nat /\ Lists \in Seq(Messages) /\ Len(Lists) = Len(batches)
         /\ \A i \in 1..Len(batches) : Lists[i] = batches[i].messages
         /\ FirstMessages(Len(batches)) = Flatten(Lists)
<1>1. Len(batches) \in Nat /\ \A i \in 1..Len(batches) : batches[i] \in MessageBatch
  BY DEF BatchInv
<1>2. \A i \in 1..Len(batches) : batches[i].messages \in Messages
  BY <1>1, Zenon DEF MessageBatch
<1>3. Lists \in Seq(Messages) /\ Len(Lists) = Len(batches)
  BY <1>1, <1>2 DEF Lists
<1> QED
  BY <1>1, <1>3, Zenon DEF Lists, FirstMessages

\* The last list grows by a message.
LEMMA FlattenGrows ==
  ASSUME NEW lists \in Seq(Messages), NEW m \in Message, lists # <<>>
  PROVE  LET n == Len(lists) IN
         Flatten([lists EXCEPT ![n] = Append(lists[n], m)]) = Append(Flatten(lists), m)
<1> DEFINE n == Len(lists)
           last == lists[n]
           front == SubSeq(lists, 1, n - 1)
           ms == Append(last, m)
<1>1. last \in Messages
  OBVIOUS
<1>2. ms \in Messages
  BY <1>1 DEF Messages
<1> HIDE DEF ms
<1>3. front \in Seq(Messages) /\ lists = Append(front, last) /\ [lists EXCEPT ![n] = ms] = Append(front, ms)
  BY <1>2, LastReplaced
<1> HIDE DEF n, last, front
<1>4. ms \in Seq(Message) /\ last \in Seq(Message) /\ front \in Seq(Seq(Message))
  BY <1>1, <1>2, <1>3, Zenon DEF Messages
<1>5. Flatten(front) \in Seq(Message)
  BY <1>4, FlattenIsSeq, Zenon
<1>6. Flatten(lists) = Flatten(front) \o last
  BY <1>3, <1>4, FlattenAppend, Zenon
<1>7. Flatten(Append(front, ms)) = Flatten(front) \o ms
  BY <1>4, FlattenAppend, Zenon
<1>8. Flatten(front) \o ms = Append(Flatten(front) \o last, m)
  BY <1>4, <1>5, ConcatAppend, SMTT(30) DEF ms
<1> QED
  BY <1>3, <1>6, <1>7, <1>8, Zenon DEF n, last, ms

\* add_message puts the message last, in the newest batch or in a new one.
LEMMA AddKeepsOrder ==
  ASSUME FifoInv, NEW m \in Message, add_message(m)
  PROVE  FifoInv'
<1> DEFINE n == Len(batches)
<1>1. BatchInv /\ BatchInv'
  BY AddKeepsFilled, Zenon DEF FifoInv
<1>2. /\ n \in Nat /\ Lists \in Seq(Messages) /\ Len(Lists) = n
      /\ \A i \in 1..n : Lists[i] = batches[i].messages
      /\ \A i \in 1..n : batches[i] \in MessageBatch
      /\ FirstMessages(n) = Flatten(Lists)
  <2>1. \A i \in 1..n : batches[i] \in MessageBatch
    BY <1>1 DEF BatchInv
  <2> QED
    BY <1>1, <2>1, ListsTyped, Zenon
<1>4. Flatten(Lists) \in Seq(Message) /\ Flatten(Lists') = Append(Flatten(Lists), m)
  <2>1. Flatten(Lists) \in Seq(Message)
    BY <1>2, FlattenIsSeq, Zenon DEF Messages
  <2>2. CASE n > 0 /\ HasRoom(batches[n])
    <3> DEFINE ms == Append(batches[n].messages, m)
               b == [batches[n] EXCEPT !.messages = ms]
    <3>1. n \in 1..n
      BY <1>2, <2>2
    <3>2. batches' = [batches EXCEPT ![n] = b]
      BY <2>2, Zenon DEF add_message
    <3>3. b.messages = ms
      BY <1>2, <3>1, Zenon DEF MessageBatch
    <3> HIDE DEF b, ms
    <3>4. Len(batches') = n /\ \A i \in 1..n : batches'[i] = IF i = n THEN b ELSE batches[i]
      BY <1>1, <3>1, <3>2 DEF BatchInv
    <3>5. Lists' = [i \in 1..n |-> batches'[i].messages]
      BY <3>4, Zenon DEF Lists
    <3>6. Lists' = [Lists EXCEPT ![n] = ms]
      <4>1. Lists = [i \in 1..n |-> batches[i].messages]
        BY Zenon DEF Lists
      <4>2. Lists' = [i \in 1..n |-> IF i = n THEN ms ELSE batches[i].messages]
        BY <3>3, <3>4, <3>5, Zenon
      <4> QED
        BY <4>1, <4>2, Zenon
    <3>7. ms = Append(Lists[n], m) /\ Lists # <<>>
      <4>1. ms = Append(Lists[n], m)
        BY <1>2, <3>1, Zenon DEF ms
      <4>2. Len(Lists) # 0
        BY <1>2, <2>2
      <4> QED
        BY <4>1, <4>2
    <3>8. Lists' = [Lists EXCEPT ![Len(Lists)] = Append(Lists[Len(Lists)], m)]
      BY <1>2, <3>6, <3>7, Zenon
    <3> QED
      BY <1>2, <2>1, <3>7, <3>8, FlattenGrows, Zenon
  <2>3. CASE ~(n > 0 /\ HasRoom(batches[n]))
    <3> DEFINE ms == <<m>>
               b == [messages |-> ms, old |-> FALSE]
    <3>1. batches' = Append(batches, b) /\ b.messages = ms
      BY <2>3, Zenon DEF add_message
    <3>2. ms \in Seq(Message)
      OBVIOUS
    <3> HIDE DEF b
    <3>3. /\ Len(batches') = n + 1 /\ batches'[n + 1] = b
          /\ \A i \in 1..n : batches'[i] = batches[i]
      BY <1>1, <1>2, <3>1 DEF BatchInv
    <3>4. Lists' = [i \in 1..(n + 1) |-> batches'[i].messages]
      BY <3>3, Zenon DEF Lists
    <3>5. Lists' = Append(Lists, ms)
      <4> HIDE DEF n, ms
      <4> DEFINE more == Append(Lists, ms)
      <4>1. /\ more \in [1..(n + 1) -> Seq(Message)] /\ more[n + 1] = ms
            /\ \A i \in 1..n : more[i] = Lists[i]
        <5>1. ms \in Messages
          BY <3>2, Zenon DEF Messages
        <5>2. /\ more \in [1..(n + 1) -> Messages] /\ more[n + 1] = ms
              /\ \A i \in 1..n : more[i] = Lists[i]
          BY <1>2, <5>1, Appended
        <5> QED
          BY <5>2, Zenon DEF Messages
      <4> HIDE DEF more
      <4>2. \A i \in 1..(n + 1) : batches'[i].messages = more[i]
        BY <1>2, <3>1, <3>3, <4>1
      <4>3. Lists' = more
        BY <3>4, <4>1, <4>2, Zenon
      <4> QED
        BY <4>3, Zenon DEF more
    <3>6. Flatten(Lists') = Flatten(Lists) \o ms
      <4> HIDE DEF ms
      <4>1. Lists \in Seq(Seq(Message))
        BY <1>2, Zenon DEF Messages
      <4> QED
        BY <3>2, <3>5, <4>1, FlattenAppend, Zenon
    <3> QED
      BY <2>1, <3>6
  <2> QED
    BY <2>2, <2>3, Zenon
<1>5. added' = Append(added, m) /\ taken' = taken
  BY Zenon DEF add_message
<1>6. added' \in Messages /\ taken' \in Messages
  BY <1>5 DEF FifoInv, Messages
<1>7. taken \o Append(Flatten(Lists), m) = Append(taken \o Flatten(Lists), m)
  BY <1>4, ConcatAppend, SMTT(30) DEF FifoInv, Messages
<1>8. added = taken \o Flatten(Lists)
  BY <1>2, Zenon DEF FifoInv, FifoHandOut
<1>9. added' = taken' \o Flatten(Lists')
  BY <1>4, <1>5, <1>7, <1>8, Zenon
<1>10. FirstMessages(Len(batches))' = Flatten(Lists')
  BY Zenon DEF FirstMessages, Lists
<1> QED
  BY <1>1, <1>6, <1>9, <1>10, Zenon DEF FifoInv, FifoHandOut
\* get_ready_batches hands out the oldest batches.
LEMMA TakeKeepsOrder ==
  ASSUME FifoInv, NEW k \in 0..Len(batches), get_ready_batches(k)
  PROVE  FifoInv'
<1> DEFINE n == Len(batches)
           front == SubSeq(Lists, 1, k)
           rest == SubSeq(Lists, k + 1, n)
<1>1. BatchInv /\ BatchInv' /\ added \in Seq(Message) /\ taken \in Seq(Message)
  BY TakeKeepsFilled, Zenon DEF FifoInv, Messages
<1>2. /\ n \in Nat /\ Lists \in Seq(Seq(Message)) /\ Len(Lists) = n
      /\ \A i \in 1..n : Lists[i] = batches[i].messages
      /\ FirstMessages(n) = Flatten(Lists)
  BY <1>1, ListsTyped, Zenon DEF Messages
<1>3. k \in Nat /\ k <= n /\ k \in 0..Len(Lists)
  BY <1>2
<1>4. /\ batches' = SubSeq(batches, k + 1, n) /\ taken' = taken \o FirstMessages(k)
      /\ added' = added
  BY Zenon DEF get_ready_batches
<1>5. front = [i \in 1..k |-> Lists[i]] /\ rest = [i \in 1..(n - k) |-> Lists[i + k]]
  <2> HIDE DEF n
  <2> QED
    BY <1>2, <1>3, Parts
<1>6. front = [i \in 1..k |-> batches[i].messages]
  <2>1. \A i \in 1..k : Lists[i] = batches[i].messages
    BY <1>2, <1>3
  <2> QED
    BY <1>5, <2>1, Zenon
<1>7. Lists' = rest
  <2>1. batches' = [i \in 1..(n - k) |-> batches[i + k]]
    BY <1>1, <1>3, <1>4, Parts DEF BatchInv
  <2>2. Len(batches') = n - k
    BY <1>2, <1>3, <2>1
  <2>3. Lists' = [i \in 1..(n - k) |-> batches'[i].messages]
    BY <2>2, Zenon DEF Lists
  <2>4. \A i \in 1..(n - k) : batches'[i].messages = Lists[i + k]
    BY <1>2, <1>3, <2>1
  <2> QED
    BY <1>5, <2>3, <2>4, Zenon
<1>8. front \in Seq(Seq(Message)) /\ rest \in Seq(Seq(Message))
  BY <1>2, <1>3
<1>9. Flatten(Lists) = Flatten(front) \o Flatten(rest)
  BY <1>2, <1>3, FlattenSplit, Zenon
<1> HIDE DEF n, front, rest
<1>10. Flatten(front) \in Seq(Message) /\ Flatten(rest) \in Seq(Message)
  BY <1>8, FlattenIsSeq, Zenon
<1>11. taken' = taken \o Flatten(front) /\ taken' \in Seq(Message)
  BY <1>1, <1>4, <1>6, <1>10 DEF FirstMessages
<1>12. (taken \o Flatten(front)) \o Flatten(rest) = taken \o (Flatten(front) \o Flatten(rest))
  <2>1. Associative(Seq(Message))
    BY ListsAssociative, Zenon
  <2> QED
    BY <1>1, <1>10, <2>1, Zenon DEF Associative
<1>13. FirstMessages(Len(batches))' = Flatten(Lists')
  BY Zenon DEF FirstMessages, Lists
<1>14. added = taken \o Flatten(Lists)
  BY <1>2, Zenon DEF FifoInv, FifoHandOut, n
<1>15. added' = taken' \o Flatten(Lists')
  BY <1>4, <1>7, <1>9, <1>11, <1>12, <1>14, Zenon
<1> QED
  BY <1>1, <1>4, <1>11, <1>13, <1>15, Zenon DEF FifoInv, FifoHandOut, Messages

LEMMA ElapseKeepsOrder ==
  ASSUME FifoInv, Elapse
  PROVE  FifoInv'
<1>1. BatchInv /\ BatchInv' /\ UNCHANGED <<added, taken>>
  BY ElapseKeepsFilled, Zenon DEF FifoInv, Elapse
<1>2. Lists' = Lists
  BY <1>1, ElapseKeepsMessages, Zenon DEF Lists
<1>3. /\ FirstMessages(Len(batches))' = Flatten(Lists')
      /\ FirstMessages(Len(batches)) = Flatten(Lists)
  BY Zenon DEF FirstMessages, Lists
<1> QED
  BY <1>1, <1>2, <1>3, Zenon DEF FifoInv, FifoHandOut

LEMMA OrderInit == BInit => FifoInv
<1> SUFFICES ASSUME BInit PROVE FifoInv
  BY Zenon
<1>1. batches = <<>> /\ added = <<>> /\ taken = <<>> /\ BatchInv
  BY BatcherInit, Zenon DEF BInit
<1>2. Lists = <<>>
  BY <1>1 DEF Lists
<1>3. Flatten(<<>>) = <<>>
  BY FlattenNothing, Zenon
<1>4. FirstMessages(Len(batches)) = <<>>
  BY <1>2, <1>3, Zenon DEF FirstMessages, Lists
<1> QED
  BY <1>1, <1>4 DEF FifoInv, FifoHandOut, Messages

LEMMA OrderNext == FifoInv /\ [BNext]_batching => FifoInv'
<1> SUFFICES ASSUME FifoInv, [BNext]_batching PROVE FifoInv'
  BY Zenon
<1>1. CASE UNCHANGED batching
  <2>1. FirstMessages(Len(batches))' = FirstMessages(Len(batches))
    BY <1>1, Zenon DEF FirstMessages, batching
  <2> QED
    BY <1>1, <2>1, Zenon DEF FifoInv, FifoHandOut, batching, BatchInv, FilledInOrder
<1> QED
  BY <1>1, AddKeepsOrder, TakeKeepsOrder, ElapseKeepsOrder, Zenon DEF BNext, TakeSome

\* Whoever takes the batches, and however full they are when their time is up:
\* get_ready_batches hands out every message once, in the order of the
\* add_message calls.
THEOREM HandOutIsFifo == PSpec => []FifoHandOut
<1>1. FifoInv => FifoHandOut
  BY Zenon DEF FifoInv
<1> QED
  BY <1>1, OrderInit, OrderNext, BrokerImplementsBatching, PTL DEF BSpec
-----------------------------------------------------------------------------
Filled == {b \in Messages : Len(b) > 0}

Place ==
  {"idle", "take", "batch", "append", "channel", "send", "answer", "subscribe", "stream"}

Response == [message : Message, offset : Nat]

PublishTyped ==
  /\ pc \in [Task \cup Consumer -> Place]
  /\ work \in [Task -> Seq(Filled)]
  /\ offset \in [Task -> Nat \cup {NoOffset}]
  /\ log \in Seq(Message)
  /\ inbox \in [Consumer -> Seq(Response)]

Busy == {"batch", "append", "channel", "send"}

HasWork == \A t \in Task : pc[t] \in Busy => work[t] # <<>>

At(l, o, m) == o \in Nat /\ o < Len(l) /\ l[o + 1] = m

\* The strengthening: what a task is about to send is in the log already.
AboutToSend ==
  \A t \in Task : pc[t] \in {"channel", "send"} => At(log, offset[t], work[t][1][1])

PubInv == PublishTyped /\ HasWork /\ AboutToSend /\ DeliveredIsLogged

LEMMA FirstMessage ==
  ASSUME PubInv, NEW t \in Task, work[t] # <<>>
  PROVE  work[t][1] \in Filled /\ work[t][1][1] \in Message
<1>1. work[t] \in Seq(Filled) /\ Len(work[t]) \in Nat /\ Len(work[t]) # 0
  BY DEF PubInv, PublishTyped
<1>2. work[t][1] \in Filled
  BY <1>1
<1>3. work[t][1] \in Seq(Message) /\ Len(work[t][1]) \in Nat /\ Len(work[t][1]) > 0
  BY <1>2 DEF Filled, Messages
<1> QED
  BY <1>2, <1>3

LEMMA DeliveredAt ==
  ASSUME PubInv, NEW c \in Consumer, NEW i \in 1..Len(inbox[c])
  PROVE  At(log, inbox[c][i].offset, inbox[c][i].message)
<1>1. inbox[c] \in Seq(Response)
  BY Zenon DEF PubInv, PublishTyped
<1>2. inbox[c][i] \in Response
  BY <1>1
<1>3. inbox[c][i].offset \in Nat
  BY <1>2, Zenon DEF Response
<1> QED
  BY <1>3, Zenon DEF PubInv, DeliveredIsLogged, At

\* What a log holds stays when it grows.
LEMMA AppendKeepsLogged ==
  ASSUME NEW l \in Seq(Message), NEW m \in Message
  PROVE  /\ Append(l, m) \in Seq(Message) /\ At(Append(l, m), Len(l), m)
         /\ \A x, o : At(l, o, x) => At(Append(l, m), o, x)
<1> DEFINE g == Append(l, m)
<1>1. /\ g \in Seq(Message) /\ Len(l) \in Nat /\ Len(g) = Len(l) + 1
      /\ g[Len(l) + 1] = m /\ \A i \in 1..Len(l) : g[i] = l[i]
  OBVIOUS
<1> HIDE DEF g
<1>2. ASSUME NEW x, NEW o, At(l, o, x) PROVE At(g, o, x)
  <2>1. o + 1 \in 1..Len(l)
    BY <1>1, <1>2 DEF At
  <2> QED
    BY <1>1, <1>2, <2>1 DEF At
<1>3. At(g, Len(l), m)
  BY <1>1 DEF At
<1> QED
  BY <1>1, <1>2, <1>3, Zenon DEF g

\* Steps that leave the log and the work of the tasks alone.
LEMMA MovesKeep ==
  ASSUME PubInv, NEW x \in Task \cup Consumer, NEW l \in Place, Goto(x, l),
         UNCHANGED <<work, offset, log, inbox>>,
         x \in Task /\ l \in Busy => pc[x] \in Busy,
         x \in Task /\ l \in {"channel", "send"} => pc[x] \in {"channel", "send"}
  PROVE  PubInv'
<1>1. pc' \in [Task \cup Consumer -> Place]
  BY Zenon DEF PubInv, PublishTyped, Goto
<1>2. \A y \in Task \cup Consumer : pc'[y] = IF y = x THEN l ELSE pc[y]
  BY Zenon DEF PubInv, PublishTyped, Goto
<1>3. PublishTyped'
  BY <1>1, Zenon DEF PubInv, PublishTyped
<1>4. HasWork'
  BY <1>2, Zenon DEF PubInv, HasWork
<1>5. AboutToSend'
  BY <1>2, Zenon DEF PubInv, AboutToSend
<1> QED
  BY <1>3, <1>4, <1>5, Zenon DEF PubInv, DeliveredIsLogged
\* The batch a task is done with goes; it has nothing left to send.
LEMMA FinishKeeps ==
  ASSUME PubInv, NEW t \in Task, work[t] # <<>>, Finish(t)
  PROVE  /\ pc' \in [Task \cup Consumer -> Place] /\ work' \in [Task -> Seq(Filled)]
         /\ HasWork' /\ pc'[t] \notin {"channel", "send"}
         /\ \A u \in Task : u # t => pc'[u] = pc[u] /\ work'[u] = work[u]
<1>1. /\ work[t] \in Seq(Filled) /\ Len(work[t]) \in Nat /\ Len(work[t]) > 0
      /\ Tail(work[t]) \in Seq(Filled) /\ Len(Tail(work[t])) = Len(work[t]) - 1
  BY DEF PubInv, PublishTyped
<1> DEFINE l == IF Len(work[t]) > 1 THEN "batch" ELSE IF t \in Publisher THEN "answer" ELSE "idle"
<1>2. pc' = [pc EXCEPT ![t] = l] /\ work' = [work EXCEPT ![t] = Tail(work[t])]
  BY Zenon DEF Finish, Goto
<1>a. (l = "batch" /\ Len(work[t]) > 1) \/ l = "answer" \/ l = "idle"
  BY Zenon
<1> HIDE DEF l
<1>3. l \in Place /\ l \notin {"append", "channel", "send"} /\ (l = "batch" => Len(work[t]) > 1)
  BY <1>a, Zenon DEF Place
<1>4. pc' \in [Task \cup Consumer -> Place] /\ work' \in [Task -> Seq(Filled)]
  BY <1>1, <1>2, <1>3, Zenon DEF PubInv, PublishTyped
<1>5. /\ pc'[t] = l /\ work'[t] = Tail(work[t])
      /\ \A u \in Task : u # t => pc'[u] = pc[u] /\ work'[u] = work[u]
  BY <1>2, Zenon DEF PubInv, PublishTyped
<1>6. l = "batch" => work'[t] # <<>>
  <2>1. l = "batch" => Len(work'[t]) > 0
    BY <1>1, <1>3, <1>5
  <2>2. work'[t] = <<>> => Len(work'[t]) = 0
    OBVIOUS
  <2> QED
    BY <2>1, <2>2
<1>7. HasWork'
  BY <1>3, <1>5, <1>6, Zenon DEF PubInv, HasWork, Busy
<1> QED
  BY <1>3, <1>4, <1>5, <1>7, Zenon

\* A message is stored, and its offset kept for the send.
LEMMA StoreKeeps ==
  ASSUME PubInv, NEW t \in Task, NEW w \in Seq(Filled), w # <<>>, w[1][1] \in Message,
         NEW l \in {"channel", "send"}, Goto(t, l),
         log' = Append(log, w[1][1]), work' = [work EXCEPT ![t] = w],
         offset' = [offset EXCEPT ![t] = Len(log)], UNCHANGED inbox
  PROVE  PubInv'
<1>1. pc' = [pc EXCEPT ![t] = l]
  BY Zenon DEF Goto
<1>2. /\ log' \in Seq(Message) /\ Len(log) \in Nat /\ At(log', Len(log), w[1][1])
      /\ \A x, o : At(log, o, x) => At(log', o, x)
  BY AppendKeepsLogged DEF PubInv, PublishTyped
<1>3. PublishTyped'
  <2>1. offset' \in [Task -> Nat \cup {NoOffset}]
    BY <1>2, Zenon DEF PubInv, PublishTyped
  <2>2. pc' \in [Task \cup Consumer -> Place]
    BY <1>1, Zenon DEF PubInv, PublishTyped, Place
  <2> QED
    BY <1>2, <2>1, <2>2, Zenon DEF PubInv, PublishTyped
<1>4. HasWork'
  BY <1>1, Zenon DEF PubInv, HasWork, PublishTyped, Busy
<1>5. AboutToSend'
  <2> SUFFICES ASSUME NEW u \in Task, pc'[u] \in {"channel", "send"}
               PROVE  At(log', offset'[u], work'[u][1][1])
    BY Zenon DEF AboutToSend
  <2>1. CASE u = t
    BY <1>2, <2>1, Zenon DEF PubInv, PublishTyped
  <2>2. CASE u # t
    BY <1>1, <1>2, <2>2, Zenon DEF PubInv, PublishTyped, AboutToSend
  <2> QED
    BY <2>1, <2>2, Zenon
<1>6. DeliveredIsLogged'
  BY <1>2, DeliveredAt, ZenonT(30) DEF DeliveredIsLogged, At
<1> QED
  BY <1>3, <1>4, <1>5, <1>6, Zenon DEF PubInv

\* The first message of the batch.
LEMMA AppendKeeps ==
  ASSUME PubInv, NEW t \in Task, Append1(t)
  PROVE  PubInv'
<1>1. work[t] # <<>> /\ work[t] \in Seq(Filled) /\ work' = [work EXCEPT ![t] = work[t]]
  BY Zenon DEF PubInv, PublishTyped, HasWork, Busy, Append1
<1>2. work[t][1][1] \in Message
  BY <1>1, FirstMessage, Zenon
<1> QED
  BY <1>1, <1>2, StoreKeeps, Zenon DEF Append1

\* The consumers of the channel are sent the message and its offset.
LEMMA SendKeeps ==
  ASSUME PubInv, NEW t \in Task, Send(t)
  PROVE  PubInv'
<1> DEFINE r == [message |-> work[t][1][1], offset |-> offset[t]]
<1>1. /\ pc[t] = "send" /\ work[t] # <<>> /\ Finish(t) /\ UNCHANGED <<offset, log>>
      /\ inbox' = [c \in Consumer |-> IF chan[c] = sender[t] THEN Append(inbox[c], r) ELSE inbox[c]]
  BY Zenon DEF Send, PubInv, HasWork, Busy
<1>2. r \in Response /\ At(log, r.offset, r.message)
  <2>1. At(log, offset[t], work[t][1][1]) /\ work[t][1][1] \in Message
    BY <1>1, FirstMessage, Zenon DEF PubInv, AboutToSend
  <2> QED
    BY <2>1, Zenon DEF At, Response
<1> HIDE DEF r
<1>3. ASSUME NEW c \in Consumer
      PROVE  /\ inbox'[c] \in Seq(Response)
             /\ \A i \in 1..Len(inbox'[c]) : At(log, inbox'[c][i].offset, inbox'[c][i].message)
  <2>1. inbox[c] \in Seq(Response) /\ Len(inbox[c]) \in Nat
    BY DEF PubInv, PublishTyped
  <2>2. \A i \in 1..Len(inbox[c]) : At(log, inbox[c][i].offset, inbox[c][i].message)
    BY DeliveredAt, Zenon
  <2>3. CASE inbox'[c] = inbox[c]
    BY <2>1, <2>2, <2>3, Zenon
  <2>4. CASE inbox'[c] = Append(inbox[c], r)
    <3>1. /\ inbox'[c] \in Seq(Response) /\ Len(inbox'[c]) = Len(inbox[c]) + 1
          /\ inbox'[c][Len(inbox[c]) + 1] = r
          /\ \A i \in 1..Len(inbox[c]) : inbox'[c][i] = inbox[c][i]
      BY <1>2, <2>1, <2>4
    <3> SUFFICES ASSUME NEW i \in 1..Len(inbox'[c])
                 PROVE  At(log, inbox'[c][i].offset, inbox'[c][i].message)
      BY <3>1, Zenon
    <3>2. i = Len(inbox[c]) + 1 \/ i \in 1..Len(inbox[c])
      BY <2>1, <3>1
    <3> QED
      BY <1>2, <2>2, <3>1, <3>2, Zenon
  <2> QED
    BY <1>1, <2>3, <2>4, Zenon
<1>4. DeliveredIsLogged'
  BY <1>1, <1>3, Zenon DEF DeliveredIsLogged, At
<1>5. inbox' \in [Consumer -> Seq(Response)]
  BY <1>1, <1>3, Zenon
<1>6. PublishTyped' /\ HasWork'
  BY <1>1, <1>5, FinishKeeps, Zenon DEF PubInv, PublishTyped
<1>7. AboutToSend'
  BY <1>1, FinishKeeps, Zenon DEF PubInv, AboutToSend
<1> QED
  BY <1>4, <1>6, <1>7, Zenon DEF PubInv

\* The loop over no items.
LEMMA SkipKeeps ==
  ASSUME PubInv, NEW t \in Task, SkipBatch(t)
  PROVE  PubInv'
<1>1. work[t] # <<>> /\ Finish(t) /\ UNCHANGED <<offset, log, inbox>>
  BY Zenon DEF SkipBatch, PubInv, HasWork, Busy
<1>2. PublishTyped' /\ HasWork'
  BY <1>1, FinishKeeps, Zenon DEF PubInv, PublishTyped
<1>3. AboutToSend'
  BY <1>1, FinishKeeps, Zenon DEF PubInv, AboutToSend
<1> QED
  BY <1>1, <1>2, <1>3, Zenon DEF PubInv, DeliveredIsLogged
\* The batches taken are not empty.
LEMMA TakeKeeps ==
  ASSUME PubInv, BatchInv, NEW t \in Task, TakeReady(t)
  PROVE  PubInv'
<1>1. PICK k \in 0..Len(batches) :
        /\ work' = [work EXCEPT ![t] = [i \in 1..k |-> batches[i].messages]]
        /\ Goto(t, IF k > 0 THEN "batch" ELSE IF t \in Publisher THEN "answer" ELSE "idle")
  BY Zenon DEF TakeReady
<1> DEFINE w == [i \in 1..k |-> batches[i].messages]
           l == IF k > 0 THEN "batch" ELSE IF t \in Publisher THEN "answer" ELSE "idle"
<1>2. Len(batches) \in Nat /\ k \in Nat /\ k <= Len(batches)
  BY DEF BatchInv
<1>3. \A i \in 1..k : batches[i].messages \in Filled
  <2> SUFFICES ASSUME NEW i \in 1..k PROVE batches[i].messages \in Filled
    BY Zenon
  <2>1. batches[i] \in MessageBatch /\ Len(batches[i].messages) \in 1..BatchSize
    BY <1>2 DEF BatchInv, FilledInOrder
  <2>2. batches[i].messages \in Messages
    BY <2>1, Zenon DEF MessageBatch
  <2> QED
    BY <2>1, <2>2, BatchingAssumption DEF Filled
<1>4. w \in Seq(Filled) /\ Len(w) = k
  BY <1>2, <1>3
<1>5. l \in Place /\ l \notin {"append", "channel", "send"} /\ (l = "batch" => k > 0)
  BY Zenon DEF Place
<1>6. work' = [work EXCEPT ![t] = w] /\ pc' = [pc EXCEPT ![t] = l]
  BY <1>1, Zenon DEF Goto
<1> HIDE DEF w, l
<1>7. w = <<>> => k = 0
  BY <1>4, Zenon
<1>8. UNCHANGED <<offset, log, inbox>>
  BY Zenon DEF TakeReady
<1>9. PublishTyped'
  BY <1>4, <1>5, <1>6, <1>8, Zenon DEF PubInv, PublishTyped
<1>10. HasWork'
  BY <1>2, <1>5, <1>6, <1>7 DEF PubInv, PublishTyped, HasWork, Busy
<1>11. AboutToSend'
  BY <1>5, <1>6, <1>8, Zenon DEF PubInv, PublishTyped, AboutToSend
<1> QED
  BY <1>8, <1>9, <1>10, <1>11, Zenon DEF PubInv, DeliveredIsLogged

\* A forwarded message, stored before its channel is looked up.
LEMMA ForwardKeeps ==
  ASSUME PubInv, NEW f \in Forwarder, NEW m \in Message, forward_message(f, m)
  PROVE  PubInv'
<1> DEFINE w == << <<m>> >>
<1>1. f \in Task
  BY Zenon DEF Task
<1>2. w \in Seq(Filled) /\ w # <<>> /\ w[1][1] = m
  <2>1. <<m>> \in Messages /\ Len(<<m>>) = 1
    BY DEF Messages
  <2> QED
    BY <2>1 DEF Filled
<1>3. work' = [work EXCEPT ![f] = w]
  BY Zenon DEF forward_message
<1> HIDE DEF w
<1> QED
  BY <1>1, <1>2, <1>3, StoreKeeps, Zenon DEF forward_message

LEMMA InitPubInv == PInit => PubInv
<1> SUFFICES ASSUME PInit PROVE PubInv
  BY Zenon
<1>1. pc = [x \in Task \cup Consumer |-> "idle"] /\ log = <<>>
  BY Zenon DEF PInit
<1>2. PublishTyped
  BY <1>1 DEF PInit, PublishTyped, Place
<1>3. DeliveredIsLogged
  BY DEF PInit, DeliveredIsLogged
<1> QED
  BY <1>1, <1>2, <1>3, Zenon DEF PubInv, HasWork, AboutToSend, Busy

LEMMA NextPubInv == PubInv /\ BatchInv /\ [PNext]_pvars => PubInv'
<1> SUFFICES ASSUME PubInv, BatchInv, [PNext]_pvars PROVE PubInv'
  BY Zenon
<1>1. ASSUME NEW t \in Task, Run(t) PROVE PubInv'
  <2>1. CASE StartBatch(t)
    BY <2>1, MovesKeep, Zenon DEF StartBatch, Place, Busy
  <2>2. CASE ForwardChannel(t)
    BY <2>2, MovesKeep, Zenon DEF ForwardChannel, Place, Busy
  <2> QED
    BY <1>1, <2>1, <2>2, TakeKeeps, SkipKeeps, AppendKeeps, SendKeeps, Zenon DEF Run
<1>2. ASSUME NEW p \in Publisher, Answer(p) PROVE PubInv'
  BY <1>2, MovesKeep, Zenon DEF Answer, Place, Busy, Task
<1>3. ASSUME NEW p \in Publisher, NEW m \in Message, publish(p, m) PROVE PubInv'
  BY <1>3, MovesKeep, Zenon DEF publish, Place, Busy, Task
<1>4. ASSUME NEW c \in Consumer, consume(c) \/ Subscribe(c) \/ Leave(c) \/ Close(c) PROVE PubInv'
  <2>1. c \notin Task
    BY PublishAssumption, Zenon
  <2> QED
    BY <1>4, <2>1, MovesKeep, Zenon DEF consume, Subscribe, Leave, Close, Place
<1>5. CASE WaitPasses \/ UNCHANGED pvars
  <2>1. UNCHANGED <<pc, work, offset, log, inbox>>
    BY <1>5, Zenon DEF WaitPasses, pvars
  <2> QED
    BY <2>1, Zenon DEF PubInv, PublishTyped, HasWork, AboutToSend, DeliveredIsLogged
<1> QED
  BY <1>1, <1>2, <1>3, <1>4, <1>5, ForwardKeeps, Zenon DEF PNext

\* However publish calls, the flusher and forwarded messages overtake one
\* another between their append and their send, a consumer is only ever sent
\* what the log holds, under the offset the log gave it.
THEOREM DeliveriesAreLogged == PSpec => []DeliveredIsLogged
<1>1. PSpec => []BatchInv
  BY BatcherInit, BatcherNext, BrokerImplementsBatching, PTL DEF BSpec
<1>2. PubInv => DeliveredIsLogged
  BY Zenon DEF PubInv
<1> QED
  BY <1>1, <1>2, InitPubInv, NextPubInv, PTL DEF PSpec

-----------------------------------------------------------------------------
(* Nothing is stored or delivered twice *)

\* What is stored of a batch is its first message.
BHeads == [i \in 1..Len(batches) |-> batches[i].messages[1]]

WHeads == [t \in Task |-> [i \in 1..Len(work[t]) |-> work[t][i][1]]]

Senders == {t \in Task : pc[t] \in {"channel", "send"}}

Added == Range(added)

Stored == Range(log)

Received == [c \in Consumer |-> {inbox[c][i].message : i \in 1..Len(inbox[c])}]

(***************************************************************************)
(* The strengthening: the first messages of the batches, of those that     *)
(* wait (bh) and of those the tasks work on (wh), are all different; a     *)
(* task's is in the log (l) only while it is being sent (by s), and then   *)
(* no consumer has it yet (g).                                             *)
(***************************************************************************)
Once(bh, wh, s, a, l, g) ==
  /\ \A i, j \in DOMAIN bh : bh[i] = bh[j] => i = j
  /\ \A t, u \in Task : \A i \in DOMAIN wh[t], j \in DOMAIN wh[u] :
       wh[t][i] = wh[u][j] => t = u /\ i = j
  /\ \A t \in Task : \A i \in DOMAIN wh[t], j \in DOMAIN bh : wh[t][i] # bh[j]
  /\ \A i \in DOMAIN bh : bh[i] \in a /\ bh[i] \notin l
  /\ \A t \in Task : \A i \in DOMAIN wh[t] :
       (wh[t][i] \in a \/ wh[t][i] \in l) /\ (wh[t][i] \in l => i = 1 /\ t \in s)
  /\ \A t \in s, c \in Consumer : wh[t][1] \notin g[c]

OnceInv == Once(BHeads, WHeads, Senders, Added, Stored, Received) /\ NothingTwice

\* A message joins the newest batch, or a batch of its own.
LEMMA OnceJoins ==
  ASSUME NEW bh, NEW wh, NEW s, NEW a, NEW l, NEW g, Once(bh, wh, s, a, l, g), NEW m
  PROVE  Once(bh, wh, s, a \cup {m}, l, g)
  BY Zenon DEF Once

LEMMA OnceOpens ==
  ASSUME NEW bh, NEW wh, NEW s, NEW a, NEW l, NEW g, Once(bh, wh, s, a, l, g),
         NEW m, m \notin a, m \notin l, NEW new, NEW n,
         \A i \in DOMAIN new : (i = n /\ new[i] = m) \/ (i \in DOMAIN bh /\ new[i] = bh[i])
  PROVE  Once(new, wh, s, a \cup {m}, l, g)
<1>1. \A i \in DOMAIN bh : bh[i] # m
  BY DEF Once
<1>2. \A i, j \in DOMAIN new : new[i] = new[j] => i = j
  BY <1>1, Zenon DEF Once
<1>3. \A t \in Task : \A i \in DOMAIN wh[t], j \in DOMAIN new : wh[t][i] # new[j]
  BY DEF Once
<1>4. \A i \in DOMAIN new : new[i] \in a \cup {m} /\ new[i] \notin l
  BY Zenon DEF Once
<1> QED
  BY <1>2, <1>3, <1>4, Zenon DEF Once

\* Task t gets the first k batches.
Split(bh, wh, t, k, new, w) ==
  /\ \A i \in DOMAIN new : i + k \in DOMAIN bh /\ i + k \notin DOMAIN w[t] /\ new[i] = bh[i + k]
  /\ \A i, j \in DOMAIN new : i + k = j + k => i = j
  /\ \A i \in DOMAIN w[t] : i \in DOMAIN bh /\ w[t][i] = bh[i]
  /\ \A u \in Task : u # t => w[u] = wh[u]

LEMMA OnceTaken ==
  ASSUME NEW bh, NEW wh, NEW s, NEW a, NEW l, NEW g, Once(bh, wh, s, a, l, g),
         NEW t \in Task, t \notin s, s \subseteq Task, NEW k, NEW new, NEW w,
         Split(bh, wh, t, k, new, w)
  PROVE  Once(new, w, s, a, l, g)
<1> USE DEF Split
<1>1. \A i, j \in DOMAIN new : new[i] = new[j] => i = j
  BY DEF Once
<1>2. \A u \in Task : \A i \in DOMAIN w[u], j \in DOMAIN new : w[u][i] # new[j]
  <2>1. \A i \in DOMAIN w[t], j \in DOMAIN new : w[t][i] # new[j]
    BY DEF Once
  <2>2. \A u \in Task : u # t => \A i \in DOMAIN w[u], j \in DOMAIN new : w[u][i] # new[j]
    BY DEF Once
  <2> QED
    BY <2>1, <2>2
<1>3. \A u, v \in Task : \A i \in DOMAIN w[u], j \in DOMAIN w[v] :
        w[u][i] = w[v][j] => u = v /\ i = j
  <2>1. \A i, j \in DOMAIN w[t] : w[t][i] = w[t][j] => i = j
    BY DEF Once
  <2>2. \A u \in Task : u # t => \A i \in DOMAIN w[u], j \in DOMAIN w[t] : w[u][i] # w[t][j]
    BY DEF Once
  <2>3. \A u, v \in Task : u # t /\ v # t => \A i \in DOMAIN w[u], j \in DOMAIN w[v] :
          w[u][i] = w[v][j] => u = v /\ i = j
    BY DEF Once
  <2> QED
    BY <2>1, <2>2, <2>3
<1>4. \A i \in DOMAIN new : new[i] \in a /\ new[i] \notin l
  BY DEF Once
<1>5. \A u \in Task : \A i \in DOMAIN w[u] :
        (w[u][i] \in a \/ w[u][i] \in l) /\ (w[u][i] \in l => i = 1 /\ u \in s)
  <2>1. \A i \in DOMAIN w[t] : w[t][i] \in a /\ w[t][i] \notin l
    BY Zenon DEF Once
  <2>2. \A u \in Task : u # t => \A i \in DOMAIN w[u] :
          (w[u][i] \in a \/ w[u][i] \in l) /\ (w[u][i] \in l => i = 1 /\ u \in s)
    BY Zenon DEF Once
  <2> QED
    BY <2>1, <2>2, Zenon
<1>6. \A u \in s, c \in Consumer : w[u][1] \notin g[c]
  BY Zenon DEF Once
<1> QED
  BY <1>1, <1>2, <1>3, <1>4, <1>5, <1>6, Zenon DEF Once

\* The heads of task t without the first.
Shifted(wh, t, w) ==
  /\ \A i \in DOMAIN w[t] : i + 1 \in DOMAIN wh[t] /\ i + 1 # 1 /\ w[t][i] = wh[t][i + 1]
  /\ \A i, j \in DOMAIN w[t] : i + 1 = j + 1 => i = j
  /\ \A u \in Task : u # t => w[u] = wh[u]

AllBusy(s, wh) == \A u \in s : 1 \in DOMAIN wh[u]

\* Task t is done with its batch.
LEMMA OnceFinished ==
  ASSUME NEW bh, NEW wh, NEW s, NEW a, NEW l, NEW g, Once(bh, wh, s, a, l, g),
         NEW t \in Task, s \subseteq Task, AllBusy(s \cup {t}, wh),
         NEW w, Shifted(wh, t, w)
  PROVE  Once(bh, w, s \ {t}, a, l, g) /\ \A u \in s \ {t} : w[u][1] # wh[t][1]
<1> USE DEF Shifted, AllBusy
<1>1. \A u, v \in Task : \A i \in DOMAIN w[u], j \in DOMAIN w[v] :
        w[u][i] = w[v][j] => u = v /\ i = j
  <2>1. \A i, j \in DOMAIN w[t] : w[t][i] = w[t][j] => i = j
    BY DEF Once
  <2>2. \A u \in Task : u # t => \A i \in DOMAIN w[u], j \in DOMAIN w[t] : w[u][i] # w[t][j]
    BY DEF Once
  <2>3. \A u, v \in Task : u # t /\ v # t => \A i \in DOMAIN w[u], j \in DOMAIN w[v] :
          w[u][i] = w[v][j] => u = v /\ i = j
    BY DEF Once
  <2> QED
    BY <2>1, <2>2, <2>3
<1>2. \A u \in Task : \A i \in DOMAIN w[u], j \in DOMAIN bh : w[u][i] # bh[j]
  BY DEF Once
<1>3. \A u \in Task : \A i \in DOMAIN w[u] :
        (w[u][i] \in a \/ w[u][i] \in l) /\ (w[u][i] \in l => i = 1 /\ u \in s \ {t})
  <2>1. \A i \in DOMAIN w[t] : (w[t][i] \in a \/ w[t][i] \in l) /\ w[t][i] \notin l
    BY DEF Once
  <2>2. \A u \in Task : u # t => \A i \in DOMAIN w[u] :
          (w[u][i] \in a \/ w[u][i] \in l) /\ (w[u][i] \in l => i = 1 /\ u \in s)
    BY Zenon DEF Once
  <2> QED
    BY <2>1, <2>2, Zenon
<1>4. \A u \in s \ {t}, c \in Consumer : w[u][1] \notin g[c]
  BY Zenon DEF Once
<1>5. \A u \in s \ {t} : w[u][1] # wh[t][1]
  BY DEF Once
<1> QED
  BY <1>1, <1>2, <1>3, <1>4, <1>5, Zenon DEF Once

\* Some receive a message nobody is about to send.
LEMMA OnceSent ==
  ASSUME NEW bh, NEW wh, NEW s, NEW a, NEW l, NEW g, Once(bh, wh, s, a, l, g),
         NEW m, \A u \in s : wh[u][1] # m,
         NEW h, \A c \in Consumer : h[c] = g[c] \/ h[c] = g[c] \cup {m}
  PROVE  Once(bh, wh, s, a, l, h)
<1>1. \A u \in s, c \in Consumer : wh[u][1] \notin h[c]
  <2> SUFFICES ASSUME NEW u \in s, NEW c \in Consumer PROVE wh[u][1] \notin h[c]
    BY Zenon
  <2>1. wh[u][1] # m /\ wh[u][1] \notin g[c]
    BY Zenon DEF Once
  <2>2. CASE h[c] = g[c]
    BY <2>1, <2>2, Zenon
  <2>3. CASE h[c] = g[c] \cup {m}
    BY <2>1, <2>3, Zenon
  <2> QED
    BY <2>2, <2>3, Zenon
<1> QED
  BY <1>1, Zenon DEF Once

\* Task t stores the first message of its batch.
LEMMA OnceStored ==
  ASSUME NEW bh, NEW wh, NEW s, NEW a, NEW l, NEW g, Once(bh, wh, s, a, l, g),
         NEW t \in Task, t \notin s, 1 \in DOMAIN wh[t], \A c \in Consumer : g[c] \subseteq l
  PROVE  wh[t][1] \notin l /\ Once(bh, wh, s \cup {t}, a, l \cup {wh[t][1]}, g)
<1> DEFINE m == wh[t][1]
<1>1. m \notin l
  BY Zenon DEF Once
<1>2. \A i \in DOMAIN bh : bh[i] # m
  BY Zenon DEF Once
<1>3. \A u \in Task : \A i \in DOMAIN wh[u] : wh[u][i] = m => u = t /\ i = 1
  BY DEF Once
<1> HIDE DEF m
<1>4. Once(bh, wh, s \cup {t}, a, l \cup {m}, g)
  <2>1. \A i \in DOMAIN bh : bh[i] \in a /\ bh[i] \notin l \cup {m}
    BY <1>2, Zenon DEF Once
  <2>2. \A u \in Task : \A i \in DOMAIN wh[u] :
          /\ wh[u][i] \in a \/ wh[u][i] \in l \cup {m}
          /\ wh[u][i] \in l \cup {m} => i = 1 /\ u \in s \cup {t}
    BY <1>3, Zenon DEF Once
  <2>3. \A u \in s \cup {t}, c \in Consumer : wh[u][1] \notin g[c]
    BY <1>1, Zenon DEF Once, m
  <2> QED
    BY <2>1, <2>2, <2>3, Zenon DEF Once
<1> QED
  BY <1>1, <1>4, Zenon DEF m

\* Task t stores a new message and has it to send.
LEMMA OnceForwarded ==
  ASSUME NEW bh, NEW wh, NEW s, NEW a, NEW l, NEW g, Once(bh, wh, s, a, l, g),
         NEW t \in Task, s \subseteq Task, \A c \in Consumer : g[c] \subseteq l,
         NEW m, m \notin a, m \notin l,
         NEW w, w[t][1] = m, \A i \in DOMAIN w[t] : i = 1,
         \A u \in Task : u # t => w[u] = wh[u]
  PROVE  Once(bh, w, s \cup {t}, a, l \cup {m}, g)
<1>1. \A u \in Task : u # t => \A i \in DOMAIN w[u] : w[u][i] # m
  BY DEF Once
<1>2. \A i \in DOMAIN bh : bh[i] # m
  BY Zenon DEF Once
<1>3. \A u, v \in Task : \A i \in DOMAIN w[u], j \in DOMAIN w[v] :
        w[u][i] = w[v][j] => u = v /\ i = j
  <2>1. \A u, v \in Task : u # t /\ v # t => \A i \in DOMAIN w[u], j \in DOMAIN w[v] :
          w[u][i] = w[v][j] => u = v /\ i = j
    BY DEF Once
  <2>2. \A i \in DOMAIN w[t] : w[t][i] = m
    BY Zenon
  <2>3. \A i, j \in DOMAIN w[t] : i = j
    BY Zenon
  <2> QED
    BY <1>1, <2>1, <2>2, <2>3
<1>4. \A u \in Task : \A i \in DOMAIN w[u], j \in DOMAIN bh : w[u][i] # bh[j]
  BY <1>2 DEF Once
<1>5. \A i \in DOMAIN bh : bh[i] \in a /\ bh[i] \notin l \cup {m}
  BY <1>2, Zenon DEF Once
<1>6. \A u \in Task : \A i \in DOMAIN w[u] :
        /\ w[u][i] \in a \/ w[u][i] \in l \cup {m}
        /\ w[u][i] \in l \cup {m} => i = 1 /\ u \in s \cup {t}
  <2>1. \A i \in DOMAIN w[t] : i = 1 /\ w[t][i] = m
    BY Zenon
  <2>2. \A u \in Task : u # t => \A i \in DOMAIN w[u] :
          (w[u][i] \in a \/ w[u][i] \in l) /\ (w[u][i] \in l => i = 1 /\ u \in s)
    BY Zenon DEF Once
  <2> QED
    BY <1>1, <2>1, <2>2, Zenon
<1>7. \A u \in s \cup {t}, c \in Consumer : w[u][1] \notin g[c]
  <2>1. \A c \in Consumer : w[t][1] \notin g[c]
    BY Zenon
  <2>2. \A u \in s, c \in Consumer : u # t => w[u][1] \notin g[c]
    BY Zenon DEF Once
  <2> QED
    BY <2>1, <2>2, Zenon
<1> QED
  BY <1>3, <1>4, <1>5, <1>6, <1>7, Zenon DEF Once

\* A consumer has only received what is stored.
LEMMA ReceivedIsStored ==
  ASSUME PubInv, NEW c \in Consumer
  PROVE  Received[c] \subseteq Stored
<1> SUFFICES ASSUME NEW i \in 1..Len(inbox[c]) PROVE inbox[c][i].message \in Stored
  BY Zenon DEF Received
<1>1. At(log, inbox[c][i].offset, inbox[c][i].message)
  BY DeliveredAt, Zenon
<1> DEFINE o == inbox[c][i].offset
<1>2. log \in Seq(Message)
  BY Zenon DEF PubInv, PublishTyped
<1>3. o + 1 \in DOMAIN log /\ log[o + 1] = inbox[c][i].message
  <2> HIDE DEF o
  <2> QED
    BY <1>1, <1>2 DEF At, o
<1> QED
  BY <1>3, Zenon DEF Stored, Range

LEMMA RangeGrows ==
  ASSUME NEW x \in Seq(Message), NEW m \in Message
  PROVE  Range(Append(x, m)) = Range(x) \cup {m}
<1> DEFINE n == Len(x)
           y == Append(x, m)
<1>1. n \in Nat /\ Len(y) = n + 1 /\ y[n + 1] = m /\ \A i \in 1..n : y[i] = x[i]
  OBVIOUS
<1>2. DOMAIN x = 1..n /\ DOMAIN y = 1..(n + 1)
  OBVIOUS
<1> HIDE DEF n, y
<1>3. /\ n + 1 \in 1..(n + 1) /\ \A i \in 1..(n + 1) : i = n + 1 \/ i \in 1..n
      /\ \A i \in 1..n : i \in 1..(n + 1)
  BY <1>1
<1>4. Range(y) = Range(x) \cup {m}
  BY <1>1, <1>2, <1>3, Zenon DEF Range
<1> QED
  BY <1>4, Zenon DEF y

\* Another message at the end of the log.
LEMMA StoredGrows ==
  ASSUME PubInv, NEW m \in Message, log' = Append(log, m)
  PROVE  /\ Stored' = Stored \cup {m}
         /\ m \notin Stored /\ NothingTwice => \A i, j \in 1..Len(log') : log'[i] = log'[j] => i = j
<1> DEFINE n == Len(log)
<1>1. log \in Seq(Message)
  BY Zenon DEF PubInv, PublishTyped
<1>2. /\ n \in Nat /\ log' \in Seq(Message) /\ Len(log') = n + 1 /\ log'[n + 1] = m
      /\ \A i \in 1..n : log'[i] = log[i]
  BY <1>1
<1> HIDE DEF n
<1>3. /\ DOMAIN log = 1..n /\ DOMAIN log' = 1..(n + 1) /\ n + 1 \in 1..(n + 1)
      /\ \A i \in 1..(n + 1) : i = n + 1 \/ i \in 1..n
      /\ \A i \in 1..n : i \in 1..(n + 1)
  BY <1>1, <1>2 DEF n
<1>4. Stored' = Stored \cup {m}
  BY <1>1, RangeGrows, Zenon DEF Stored
<1>5. ASSUME m \notin Stored, NothingTwice, NEW i \in 1..(n + 1), NEW j \in 1..(n + 1),
             log'[i] = log'[j]
      PROVE  i = j
  <2>1. \A l \in 1..n : log[l] # m
    BY <1>3, <1>5, Zenon DEF Stored, Range
  <2>2. \A l, k \in 1..n : log[l] = log[k] => l = k
    BY <1>5, Zenon DEF NothingTwice, n
  <2> QED
    BY <1>2, <1>3, <1>5, <2>1, <2>2, Zenon
<1> QED
  BY <1>2, <1>4, <1>5, Zenon

\* The heads, in a state of the right type.
LEMMA HeadsTyped ==
  ASSUME PubInv, BatchInv
  PROVE  /\ Len(batches) \in Nat /\ DOMAIN BHeads = 1..Len(batches)
         /\ \A t \in Task : /\ work[t] \in Seq(Filled) /\ Len(work[t]) \in Nat
                            /\ DOMAIN WHeads[t] = 1..Len(work[t])
                            /\ \A i \in 1..Len(work[t]) : WHeads[t][i] = work[t][i][1]
                            /\ work[t] # <<>> => 1 \in DOMAIN WHeads[t]
         /\ Senders \subseteq Task
         /\ \A t \in Senders : 1 \in DOMAIN WHeads[t]
         /\ \A c \in Consumer : Received[c] \subseteq Stored
<1>1. Len(batches) \in Nat /\ DOMAIN BHeads = 1..Len(batches)
  BY DEF BatchInv, BHeads
<1>2. ASSUME NEW t \in Task
      PROVE  /\ work[t] \in Seq(Filled) /\ Len(work[t]) \in Nat
             /\ DOMAIN WHeads[t] = 1..Len(work[t])
             /\ \A i \in 1..Len(work[t]) : WHeads[t][i] = work[t][i][1]
             /\ work[t] # <<>> => 1 \in DOMAIN WHeads[t]
  <2>1. WHeads[t] = [i \in 1..Len(work[t]) |-> work[t][i][1]]
    BY Zenon DEF WHeads
  <2>2. work[t] \in Seq(Filled)
    BY Zenon DEF PubInv, PublishTyped
  <2>3. Len(work[t]) \in Nat /\ (work[t] # <<>> => 1 \in 1..Len(work[t]))
    BY <2>2
  <2> QED
    BY <2>1, <2>2, <2>3, Zenon
<1>3. Senders \subseteq Task /\ \A t \in Senders : work[t] # <<>>
  BY Zenon DEF Senders, PubInv, HasWork, Busy
<1> QED
  BY <1>1, <1>2, <1>3, ReceivedIsStored, Zenon

\* Steps that leave messages where they are.
LEMMA MovesOnce ==
  ASSUME OnceInv, BHeads' = BHeads, Added' = Added, UNCHANGED <<work, log, inbox>>,
         Senders' = Senders
  PROVE  OnceInv'
<1>1. WHeads' = WHeads /\ Stored' = Stored /\ Received' = Received
  BY Zenon DEF WHeads, Stored, Received
<1> QED
  BY <1>1, Zenon DEF OnceInv, NothingTwice

\* The tasks that send, after a task or consumer moved.
LEMMA SendersMove ==
  ASSUME PubInv, NEW x \in Task \cup Consumer, NEW l, Goto(x, l)
  PROVE  /\ x \in Task /\ l \in {"channel", "send"} => Senders' = Senders \cup {x}
         /\ l \notin {"channel", "send"} => Senders' = Senders \ {x}
         /\ x \notin Task => Senders' = Senders
<1>1. \A y \in Task : pc'[y] = IF y = x THEN l ELSE pc[y]
  BY Zenon DEF PubInv, PublishTyped, Goto
<1> QED
  BY <1>1, Zenon DEF Senders

\* publish puts a message nobody has into a batch.
LEMMA PublishOnce ==
  ASSUME PubInv, BatchInv, OnceInv, added \in Messages,
         NEW p \in Publisher, NEW m \in Message, publish(p, m)
  PROVE  OnceInv'
<1> DEFINE n == Len(batches)
<1>1. m \notin Added /\ m \notin Stored /\ add_message(m) /\ UNCHANGED <<work, log, inbox>>
  <2>1. Fresh(m) /\ add_message(m) /\ UNCHANGED <<work, log, inbox>>
    BY Zenon DEF publish
  <2>2. m \notin Range(added) \cup Range(log)
    BY <2>1, Zenon DEF Fresh, Known
  <2> QED
    BY <2>1, <2>2, Zenon DEF Added, Stored
<1>2. WHeads' = WHeads /\ Stored' = Stored /\ Received' = Received
  BY <1>1, Zenon DEF WHeads, Stored, Received
<1>3. Senders' = Senders
  <2>1. p \in Task /\ Goto(p, "take") /\ p \notin Senders
    BY Zenon DEF publish, Task, Senders
  <2>2. "take" \notin {"channel", "send"}
    BY Zenon
  <2>3. Senders' = Senders \ {p}
    BY <2>1, <2>2, SendersMove, Zenon
  <2> QED
    BY <2>1, <2>3, Zenon
<1>4. Added' = Added \cup {m}
  <2>1. added' = Append(added, m) /\ added \in Seq(Message)
    BY <1>1, Zenon DEF add_message, Messages
  <2> QED
    BY <2>1, RangeGrows, Zenon DEF Added
<1>5. n \in Nat /\ \A i \in 1..n : batches[i] \in MessageBatch
  BY DEF BatchInv
<1>6. Once(BHeads', WHeads, Senders, Added \cup {m}, Stored, Received)
  <2>1. CASE n > 0 /\ HasRoom(batches[n])
    <3> DEFINE ms == Append(batches[n].messages, m)
               b == [batches[n] EXCEPT !.messages = ms]
    <3>1. n \in 1..n
      BY <1>5, <2>1
    <3>2. batches' = [batches EXCEPT ![n] = b] /\ b.messages = ms
      BY <1>1, <1>5, <2>1, <3>1, Zenon DEF add_message, MessageBatch
    <3>3. ms[1] = batches[n].messages[1]
      <4>1. batches[n].messages \in Messages /\ Len(batches[n].messages) \in 1..BatchSize
        BY <1>5, <3>1, Zenon DEF BatchInv, MessageBatch, FilledInOrder
      <4> QED
        BY <4>1, BatchingAssumption DEF Messages
    <3> HIDE DEF b, ms
    <3>4. Len(batches') = n /\ \A i \in 1..n : batches'[i] = IF i = n THEN b ELSE batches[i]
      BY <3>1, <3>2 DEF BatchInv
    <3>5. \A i \in 1..n : batches'[i].messages[1] = batches[i].messages[1]
      BY <3>2, <3>3, <3>4, Zenon
    <3>6. BHeads' = BHeads
      BY <3>4, <3>5, Zenon DEF BHeads
    <3> QED
      BY <3>6, OnceJoins, Zenon DEF OnceInv
  <2>2. CASE ~(n > 0 /\ HasRoom(batches[n]))
    <3> DEFINE b == [messages |-> <<m>>, old |-> FALSE]
    <3>1. batches' = Append(batches, b) /\ b.messages[1] = m
      BY <1>1, <2>2, Zenon DEF add_message
    <3> HIDE DEF b
    <3>2. /\ Len(batches') = n + 1 /\ batches'[n + 1] = b
          /\ \A i \in 1..n : batches'[i] = batches[i]
      BY <1>5, <3>1 DEF BatchInv
    <3>3. BHeads' = [i \in 1..(n + 1) |-> batches'[i].messages[1]]
      BY <3>2, Zenon DEF BHeads
    <3>4. \A i \in 1..(n + 1) : i = n + 1 \/ i \in 1..n
      BY <1>5
    <3>5. \A i \in DOMAIN BHeads' :
            (i = n + 1 /\ BHeads'[i] = m) \/ (i \in DOMAIN BHeads /\ BHeads'[i] = BHeads[i])
      BY <3>1, <3>2, <3>3, <3>4, Zenon DEF BHeads
    <3> QED
      BY <1>1, <3>5, OnceOpens, Zenon DEF OnceInv
  <2> QED
    BY <2>1, <2>2, Zenon
<1>7. NothingTwice'
  BY <1>1, Zenon DEF OnceInv, NothingTwice
<1> QED
  BY <1>2, <1>3, <1>4, <1>6, <1>7, Zenon DEF OnceInv

\* A task takes the first batches.
LEMMA TakeOnce ==
  ASSUME PubInv, BatchInv, OnceInv, NEW t \in Task, TakeReady(t)
  PROVE  OnceInv'
<1> DEFINE n == Len(batches)
<1>1. PICK k \in 0..n :
        /\ batches' = SubSeq(batches, k + 1, n)
        /\ work' = [work EXCEPT ![t] = [i \in 1..k |-> batches[i].messages]]
        /\ Goto(t, IF k > 0 THEN "batch" ELSE IF t \in Publisher THEN "answer" ELSE "idle")
        /\ UNCHANGED added
  BY Zenon DEF TakeReady, get_ready_batches
<1>2. Added' = Added /\ Stored' = Stored /\ Received' = Received /\ UNCHANGED <<log, inbox>>
  <2>1. UNCHANGED <<log, inbox>>
    BY Zenon DEF TakeReady
  <2> QED
    BY <1>1, <2>1, Zenon DEF Added, Stored, Received
<1>3. Senders' = Senders /\ t \notin Senders
  <2>1. t \notin Senders
    BY Zenon DEF TakeReady, Senders
  <2> DEFINE l == IF k > 0 THEN "batch" ELSE IF t \in Publisher THEN "answer" ELSE "idle"
  <2>2. l \notin {"channel", "send"}
    BY Zenon
  <2> HIDE DEF l
  <2>3. Goto(t, l)
    BY <1>1, Zenon DEF l
  <2>4. Senders' = Senders \ {t}
    BY <2>2, <2>3, SendersMove, Zenon
  <2> QED
    BY <2>1, <2>4, Zenon
<1>4. n \in Nat /\ k \in Nat /\ k <= n /\ batches \in Seq(MessageBatch)
  BY DEF BatchInv
<1>5. BHeads' = [i \in 1..(n - k) |-> batches[i + k].messages[1]]
  <2>1. batches' = [i \in 1..(n - k) |-> batches[i + k]] /\ n - k \in Nat
    BY <1>1, <1>4, Parts
  <2>2. Len(batches') = n - k
    BY <2>1
  <2>3. BHeads' = [i \in 1..(n - k) |-> batches'[i].messages[1]]
    BY <2>2, Zenon DEF BHeads
  <2> QED
    BY <2>1, <2>3, Zenon
<1>6. \A u \in Task : u # t => WHeads'[u] = WHeads[u]
  <2>1. \A u \in Task : u # t => work'[u] = work[u]
    BY <1>1, Zenon DEF PubInv, PublishTyped
  <2> QED
    BY <2>1, Zenon DEF WHeads
<1>7. WHeads'[t] = [i \in 1..k |-> batches[i].messages[1]]
  <2> DEFINE w == [i \in 1..k |-> batches[i].messages]
  <2>1. work'[t] = w
    BY <1>1, Zenon DEF PubInv, PublishTyped
  <2>2. Len(w) = k
    BY <1>4
  <2>3. WHeads'[t] = [i \in 1..k |-> w[i][1]]
    <3> HIDE DEF w
    <3> QED
      BY <2>1, <2>2, Zenon DEF WHeads
  <2> QED
    BY <2>3, Zenon
<1>8. BHeads = [i \in 1..n |-> batches[i].messages[1]]
  BY Zenon DEF BHeads
<1>9. /\ \A i \in 1..(n - k) : i + k \in 1..n /\ i + k \notin 1..k
      /\ \A i, j \in 1..(n - k) : i + k = j + k => i = j
      /\ \A i \in 1..k : i \in 1..n
  BY <1>4
<1> HIDE DEF n
<1>10. /\ \A i \in DOMAIN BHeads' : /\ i + k \in DOMAIN BHeads /\ i + k \notin DOMAIN WHeads'[t]
                                    /\ BHeads'[i] = BHeads[i + k]
       /\ \A i, j \in DOMAIN BHeads' : i + k = j + k => i = j
       /\ \A i \in DOMAIN WHeads'[t] : i \in DOMAIN BHeads /\ WHeads'[t][i] = BHeads[i]
  BY <1>5, <1>7, <1>8, <1>9, Zenon
<1>11. Senders \subseteq Task
  BY Zenon DEF Senders
<1>12. Once(BHeads', WHeads', Senders, Added, Stored, Received)
  <2>1. Once(BHeads, WHeads, Senders, Added, Stored, Received)
    BY Zenon DEF OnceInv
  <2>2. Split(BHeads, WHeads, t, k, BHeads', WHeads')
    BY <1>6, <1>10, Zenon DEF Split
  <2> QED
    BY <1>3, <1>11, <2>1, <2>2, OnceTaken, Zenon
<1> QED
  BY <1>2, <1>3, <1>12, Zenon DEF OnceInv, NothingTwice

\* The batch a task is done with goes.
LEMMA FinishHeads ==
  ASSUME PubInv, BatchInv, NEW t \in Task, work[t] # <<>>, Finish(t)
  PROVE  Shifted(WHeads, t, WHeads') /\ Senders' = Senders \ {t}
<1> DEFINE w == work[t]
           n == Len(w)
<1>1. work' = [work EXCEPT ![t] = Tail(w)]
  BY Zenon DEF Finish
<1>2. work'[t] = Tail(w) /\ \A u \in Task : u # t => work'[u] = work[u]
  BY <1>1, Zenon DEF PubInv, PublishTyped
<1>3. w \in Seq(Filled)
  BY Zenon DEF PubInv, PublishTyped
<1>4. /\ n \in Nat /\ n > 0 /\ Len(Tail(w)) = n - 1
      /\ \A i \in 1..(n - 1) : Tail(w)[i] = w[i + 1]
  BY <1>3
<1>5. \A u \in Task : u # t => WHeads'[u] = WHeads[u]
  BY <1>2, Zenon DEF WHeads
<1>6. WHeads[t] = [i \in 1..n |-> w[i][1]] /\ WHeads'[t] = [i \in 1..(n - 1) |-> Tail(w)[i][1]]
  BY <1>2, <1>4, Zenon DEF WHeads
<1>7. /\ \A i \in 1..(n - 1) : i + 1 \in 1..n /\ i + 1 # 1
      /\ \A i, j \in 1..(n - 1) : i + 1 = j + 1 => i = j
  BY <1>4
<1> HIDE DEF w, n
<1>8. /\ \A i \in DOMAIN WHeads'[t] : /\ i + 1 \in DOMAIN WHeads[t] /\ i + 1 # 1
                                      /\ WHeads'[t][i] = WHeads[t][i + 1]
      /\ \A i, j \in DOMAIN WHeads'[t] : i + 1 = j + 1 => i = j
  <2>1. \A i \in 1..(n - 1) : i + 1 \in 1..n /\ Tail(w)[i][1] = w[i + 1][1]
    BY <1>4, <1>7, Zenon
  <2>2. \A i \in 1..(n - 1) : WHeads'[t][i] = WHeads[t][i + 1]
    BY <1>6, <2>1, Zenon
  <2>3. DOMAIN WHeads[t] = 1..n /\ DOMAIN WHeads'[t] = 1..(n - 1)
    BY <1>6, Zenon
  <2> QED
    BY <1>7, <2>2, <2>3, Zenon
<1>9. Senders' = Senders \ {t}
  <2> DEFINE l == IF Len(work[t]) > 1 THEN "batch" ELSE IF t \in Publisher THEN "answer" ELSE "idle"
  <2>1. l \notin {"channel", "send"}
    BY Zenon
  <2>2. Goto(t, l)
    BY Zenon DEF Finish
  <2> HIDE DEF l
  <2> QED
    BY <2>1, <2>2, SendersMove, Zenon
<1> QED
  BY <1>5, <1>8, <1>9, Zenon DEF Shifted

LEMMA FinishOnce ==
  ASSUME PubInv, BatchInv, OnceInv, NEW t \in Task, work[t] # <<>>, Finish(t)
  PROVE  /\ Once(BHeads, WHeads', Senders', Added, Stored, Received)
         /\ \A u \in Senders' : WHeads'[u][1] # WHeads[t][1]
<1>1. Once(BHeads, WHeads, Senders, Added, Stored, Received)
  BY Zenon DEF OnceInv
<1>2. Senders \subseteq Task /\ AllBusy(Senders \cup {t}, WHeads)
  BY HeadsTyped, Zenon DEF AllBusy
<1>3. Shifted(WHeads, t, WHeads') /\ Senders' = Senders \ {t}
  BY FinishHeads, Zenon
<1>4. /\ Once(BHeads, WHeads', Senders \ {t}, Added, Stored, Received)
      /\ \A u \in Senders \ {t} : WHeads'[u][1] # WHeads[t][1]
  BY <1>1, <1>2, <1>3, OnceFinished, ZenonT(30)
<1> QED
  BY <1>3, <1>4, Zenon

LEMMA SkipOnce ==
  ASSUME PubInv, BatchInv, OnceInv, NEW t \in Task, SkipBatch(t)
  PROVE  OnceInv'
<1>1. Finish(t) /\ work[t] # <<>> /\ UNCHANGED <<batches, added, log, inbox>>
  BY Zenon DEF SkipBatch, batching, PubInv, HasWork, Busy
<1>2. BHeads' = BHeads /\ Added' = Added /\ Stored' = Stored /\ Received' = Received
  BY <1>1, Zenon DEF BHeads, Added, Stored, Received
<1>3. Once(BHeads, WHeads', Senders', Added, Stored, Received)
  BY <1>1, FinishOnce, Zenon
<1> QED
  BY <1>1, <1>2, <1>3, Zenon DEF OnceInv, NothingTwice

\* What is sent is new to those who receive it.
LEMMA SendOnce ==
  ASSUME PubInv, BatchInv, OnceInv, NEW t \in Task, Send(t)
  PROVE  OnceInv'
<1> DEFINE m == WHeads[t][1]
           r == [message |-> work[t][1][1], offset |-> offset[t]]
<1>1. /\ Finish(t) /\ work[t] # <<>> /\ UNCHANGED <<batches, added, log>>
      /\ inbox' = [c \in Consumer |-> IF chan[c] = sender[t] THEN Append(inbox[c], r) ELSE inbox[c]]
  BY Zenon DEF Send, batching, PubInv, HasWork, Busy
<1>2. BHeads' = BHeads /\ Added' = Added /\ Stored' = Stored
  BY <1>1, Zenon DEF BHeads, Added, Stored
<1>3. t \in Senders
  BY Zenon DEF Send, Senders
<1>4. r.message = m
  <2>1. 1 \in 1..Len(work[t]) /\ \A i \in 1..Len(work[t]) : WHeads[t][i] = work[t][i][1]
    BY <1>1, HeadsTyped, Zenon
  <2> QED
    BY <2>1, Zenon
<1>5. r \in Response
  <2>1. At(log, offset[t], work[t][1][1]) /\ work[t][1][1] \in Message
    BY <1>1, FirstMessage, Zenon DEF Send, PubInv, AboutToSend
  <2> QED
    BY <2>1, Zenon DEF At, Response
<1> HIDE DEF r, m
<1>6. ASSUME NEW c \in Consumer
      PROVE  /\ Received'[c] = Received[c] \/ Received'[c] = Received[c] \cup {m}
             /\ \A i, j \in 1..Len(inbox'[c]) : inbox'[c][i].message = inbox'[c][j].message => i = j
  <2> DEFINE n == Len(inbox[c])
  <2>1. inbox[c] \in Seq(Response) /\ n \in Nat
    BY DEF PubInv, PublishTyped
  <2>2. /\ Received[c] = {inbox[c][i].message : i \in 1..n}
        /\ Received'[c] = {inbox'[c][i].message : i \in 1..Len(inbox'[c])}
    BY Zenon DEF Received
  <2>3. \A i, j \in 1..n : inbox[c][i].message = inbox[c][j].message => i = j
    BY Zenon DEF OnceInv, NothingTwice
  <2>4. m \notin Received[c]
    BY <1>3, Zenon DEF OnceInv, Once, m
  <2>5. CASE inbox'[c] = inbox[c]
    <3>1. Received'[c] = Received[c]
      BY <2>5, Zenon DEF Received
    <3> QED
      BY <2>3, <2>5, <3>1, Zenon
  <2>6. CASE inbox'[c] = Append(inbox[c], r)
    <3>1. /\ Len(inbox'[c]) = n + 1 /\ inbox'[c][n + 1] = r
          /\ \A i \in 1..n : inbox'[c][i] = inbox[c][i]
      BY <1>5, <2>1, <2>6
    <3> HIDE DEF n
    <3>2. /\ n + 1 \in 1..(n + 1) /\ \A i \in 1..(n + 1) : i = n + 1 \/ i \in 1..n
          /\ \A i \in 1..n : i \in 1..(n + 1)
      BY <2>1
    <3>3. inbox'[c][n + 1].message = m /\ \A i \in 1..n : inbox'[c][i].message = inbox[c][i].message
      BY <1>4, <3>1, Zenon
    <3>4. Received'[c] = {inbox'[c][i].message : i \in 1..(n + 1)}
      BY <2>2, <3>1, Zenon
    <3>5. Received'[c] = Received[c] \cup {m}
      BY <2>2, <3>2, <3>3, <3>4, ZenonT(30)
    <3>6. \A i \in 1..n : inbox[c][i].message # m
      BY <2>2, <2>4, Zenon
    <3>7. \A i, j \in 1..(n + 1) : inbox'[c][i].message = inbox'[c][j].message => i = j
      BY <2>3, <3>2, <3>3, <3>6, Zenon
    <3> QED
      BY <3>1, <3>5, <3>7, Zenon
  <2> QED
    BY <1>1, <2>5, <2>6, Zenon
<1>7. Once(BHeads, WHeads', Senders', Added, Stored, Received')
  <2>1. /\ Once(BHeads, WHeads', Senders', Added, Stored, Received)
        /\ \A u \in Senders' : WHeads'[u][1] # m
    BY <1>1, FinishOnce, Zenon DEF m
  <2>2. \A c \in Consumer : Received'[c] = Received[c] \/ Received'[c] = Received[c] \cup {m}
    BY <1>6, Zenon
  <2> QED
    BY <2>1, <2>2, OnceSent, Zenon
<1>8. NothingTwice'
  <2>1. NothingTwice
    BY Zenon DEF OnceInv
  <2>2. \A i, j \in 1..Len(log') : log'[i] = log'[j] => i = j
    BY <1>1, <2>1, Zenon DEF NothingTwice
  <2> QED
    BY <1>6, <2>2, Zenon DEF NothingTwice
<1> QED
  BY <1>2, <1>7, <1>8, Zenon DEF OnceInv

\* What a task stores is not stored yet.
LEMMA AppendOnce ==
  ASSUME PubInv, BatchInv, OnceInv, NEW t \in Task, Append1(t)
  PROVE  OnceInv'
<1> DEFINE m == WHeads[t][1]
<1>1. /\ work[t] # <<>> /\ log' = Append(log, work[t][1][1]) /\ Goto(t, "send")
      /\ t \notin Senders /\ UNCHANGED <<batches, added, work, inbox>>
  BY Zenon DEF Append1, batching, PubInv, HasWork, Busy, Senders
<1>2. m = work[t][1][1] /\ 1 \in DOMAIN WHeads[t] /\ m \in Message
  <2>1. 1 \in 1..Len(work[t]) /\ 1 \in DOMAIN WHeads[t]
        /\ \A i \in 1..Len(work[t]) : WHeads[t][i] = work[t][i][1]
    BY <1>1, HeadsTyped, Zenon
  <2> QED
    BY <1>1, <2>1, FirstMessage, Zenon
<1>3. BHeads' = BHeads /\ WHeads' = WHeads /\ Added' = Added /\ Received' = Received
  BY <1>1, Zenon DEF BHeads, WHeads, Added, Received
<1>4. Senders' = Senders \cup {t}
  BY <1>1, SendersMove, Zenon
<1>5. m \notin Stored /\ Once(BHeads, WHeads, Senders \cup {t}, Added, Stored \cup {m}, Received)
  <2>1. Once(BHeads, WHeads, Senders, Added, Stored, Received)
    BY Zenon DEF OnceInv
  <2>2. \A c \in Consumer : Received[c] \subseteq Stored
    BY HeadsTyped, Zenon
  <2> QED
    BY <1>1, <1>2, <2>1, <2>2, OnceStored, Zenon
<1> HIDE DEF m
<1>6. Stored' = Stored \cup {m} /\ \A i, j \in 1..Len(log') : log'[i] = log'[j] => i = j
  BY <1>1, <1>2, <1>5, StoredGrows, Zenon DEF OnceInv
<1>7. NothingTwice'
  BY <1>1, <1>6, Zenon DEF OnceInv, NothingTwice
<1> QED
  BY <1>3, <1>4, <1>5, <1>6, <1>7, Zenon DEF OnceInv

\* A message forwarded to this broker is new to it.
LEMMA ForwardOnce ==
  ASSUME PubInv, BatchInv, OnceInv, NEW f \in Forwarder, NEW m \in Message, forward_message(f, m)
  PROVE  OnceInv'
<1>1. /\ f \in Task /\ log' = Append(log, m) /\ Goto(f, "channel") /\ Fresh(m)
      /\ UNCHANGED <<batches, added, inbox>> /\ work' = [work EXCEPT ![f] = << <<m>> >>]
  BY Zenon DEF forward_message, batching, Task
<1>2. m \notin Added /\ m \notin Stored
  <2>1. m \notin Range(added) \cup Range(log)
    BY <1>1, Zenon DEF Fresh, Known
  <2> QED
    BY <2>1, Zenon DEF Added, Stored
<1>3. BHeads' = BHeads /\ Added' = Added /\ Received' = Received
  BY <1>1, Zenon DEF BHeads, Added, Received
<1>4. Senders' = Senders \cup {f}
  BY <1>1, SendersMove, Zenon
<1>5. \A u \in Task : u # f => WHeads'[u] = WHeads[u]
  <2>1. \A u \in Task : u # f => work'[u] = work[u]
    BY <1>1, Zenon DEF PubInv, PublishTyped
  <2> QED
    BY <2>1, Zenon DEF WHeads
<1>6. WHeads'[f][1] = m /\ \A i \in DOMAIN WHeads'[f] : i = 1
  <2> DEFINE w == << <<m>> >>
  <2>1. work'[f] = w
    BY <1>1, Zenon DEF PubInv, PublishTyped
  <2>2. Len(w) = 1 /\ w[1][1] = m /\ 1 \in 1..1 /\ \A i \in 1..1 : i = 1
    OBVIOUS
  <2> HIDE DEF w
  <2>3. WHeads'[f] = [i \in 1..1 |-> w[i][1]]
    BY <1>1, <2>1, <2>2, Zenon DEF WHeads
  <2> QED
    BY <2>2, <2>3, Zenon
<1>7. Once(BHeads, WHeads', Senders \cup {f}, Added, Stored \cup {m}, Received)
  <2>1. Once(BHeads, WHeads, Senders, Added, Stored, Received)
    BY Zenon DEF OnceInv
  <2>2. Senders \subseteq Task /\ \A c \in Consumer : Received[c] \subseteq Stored
    BY HeadsTyped, Zenon
  <2> QED
    BY <1>1, <1>2, <1>5, <1>6, <2>1, <2>2, OnceForwarded
<1>8. Stored' = Stored \cup {m} /\ \A i, j \in 1..Len(log') : log'[i] = log'[j] => i = j
  BY <1>1, <1>2, StoredGrows, Zenon DEF OnceInv
<1>9. NothingTwice'
  BY <1>1, <1>8, Zenon DEF OnceInv, NothingTwice
<1> QED
  BY <1>3, <1>4, <1>7, <1>8, <1>9, Zenon DEF OnceInv

LEMMA InitOnce == PInit => OnceInv
<1> SUFFICES ASSUME PInit PROVE OnceInv
  BY Zenon
<1>1. /\ batches = <<>> /\ log = <<>> /\ work = [t \in Task |-> <<>>]
      /\ inbox = [c \in Consumer |-> <<>>] /\ pc = [x \in Task \cup Consumer |-> "idle"]
  BY Zenon DEF PInit, BInit
<1>2. DOMAIN BHeads = {}
  BY <1>1 DEF BHeads
<1>3. \A t \in Task : DOMAIN WHeads[t] = {}
  BY <1>1 DEF WHeads
<1>4. Senders = {}
  BY <1>1, Zenon DEF Senders
<1>5. NothingTwice
  BY <1>1 DEF NothingTwice
<1> QED
  BY <1>2, <1>3, <1>4, <1>5, Zenon DEF OnceInv, Once

LEMMA NextOnce ==
  PubInv /\ FifoInv /\ OnceInv /\ [PNext]_pvars => OnceInv'
<1> SUFFICES ASSUME PubInv, FifoInv, OnceInv, [PNext]_pvars PROVE OnceInv'
  BY Zenon
<1>1. BatchInv /\ added \in Messages
  BY Zenon DEF FifoInv
<1>2. ASSUME UNCHANGED <<batching, work, log, inbox>>, Senders' = Senders PROVE OnceInv'
  <2>1. BHeads' = BHeads /\ Added' = Added /\ UNCHANGED <<work, log, inbox>>
    BY <1>2, Zenon DEF batching, BHeads, Added
  <2> QED
    BY <1>2, <2>1, MovesOnce, Zenon
<1>3. ASSUME NEW x \in Task \cup Consumer, NEW l, Goto(x, l), l \notin {"channel", "send"},
             x \notin Senders
      PROVE  Senders' = Senders
  <2>1. Senders' = Senders \ {x}
    BY <1>3, SendersMove, Zenon
  <2> QED
    BY <1>3, <2>1, Zenon
<1>4. ASSUME NEW t \in Task, Run(t) PROVE OnceInv'
  <2>1. CASE StartBatch(t)
    <3>1. Goto(t, "append") /\ t \notin Senders /\ UNCHANGED <<batching, work, log, inbox>>
      BY <2>1, Zenon DEF StartBatch, Senders
    <3>2. Senders' = Senders
      BY <1>3, <3>1, Zenon
    <3> QED
      BY <1>2, <3>1, <3>2, Zenon
  <2>2. CASE ForwardChannel(t)
    <3>1. Goto(t, "send") /\ t \in Senders /\ UNCHANGED <<batching, work, log, inbox>>
      BY <2>2, Zenon DEF ForwardChannel, Senders
    <3>2. Senders' = Senders \cup {t}
      BY <3>1, SendersMove, Zenon
    <3> QED
      BY <1>2, <3>1, <3>2, Zenon
  <2> QED
    BY <1>1, <1>4, <2>1, <2>2, TakeOnce, SkipOnce, AppendOnce, SendOnce, Zenon DEF Run
<1>5. ASSUME NEW p \in Publisher, Answer(p) PROVE OnceInv'
  <2>1. /\ p \in Task /\ Goto(p, "idle") /\ p \notin Senders
        /\ UNCHANGED <<batching, work, log, inbox>>
    BY <1>5, Zenon DEF Answer, Senders, Task
  <2>2. Senders' = Senders
    BY <1>3, <2>1, Zenon
  <2> QED
    BY <1>2, <2>1, <2>2, Zenon
<1>6. ASSUME NEW c \in Consumer, consume(c) \/ Subscribe(c) \/ Leave(c) \/ Close(c) PROVE OnceInv'
  <2>1. c \notin Task
    BY PublishAssumption, Zenon
  <2>2. (\E l : Goto(c, l)) /\ UNCHANGED <<batching, work, log, inbox>>
    BY <1>6, Zenon DEF consume, Subscribe, Leave, Close
  <2>3. Senders' = Senders
    BY <2>1, <2>2, SendersMove, Zenon
  <2> QED
    BY <1>2, <2>2, <2>3, Zenon
<1>7. CASE WaitPasses
  <2>1. Elapse /\ UNCHANGED <<pc, work, log, inbox>>
    BY <1>7, Zenon DEF WaitPasses
  <2>2. BHeads' = BHeads
    <3>1. /\ Len(batches') = Len(batches)
          /\ \A j \in 1..Len(batches) : batches'[j].messages = batches[j].messages
      BY <1>1, <2>1, ElapseKeepsMessages, Zenon
    <3> QED
      BY <3>1, Zenon DEF BHeads
  <2>3. Added' = Added /\ Senders' = Senders
    BY <2>1, Zenon DEF Elapse, Added, Senders
  <2> QED
    BY <2>1, <2>2, <2>3, MovesOnce, Zenon
<1>8. CASE UNCHANGED pvars
  <2>1. UNCHANGED <<batching, work, log, inbox>> /\ Senders' = Senders
    BY <1>8, Zenon DEF pvars, Senders
  <2> QED
    BY <1>2, <2>1, Zenon
<1> QED
  BY <1>1, <1>4, <1>5, <1>6, <1>7, <1>8, PublishOnce, ForwardOnce, Zenon DEF PNext

\* However publish calls, the flusher and forwarded messages share the batcher
\* and the channel, and however often a consumer comes back: no message is
\* stored twice, and none reaches the same consumer twice.
THEOREM NothingStoredTwice == PSpec => []NothingTwice
<1>1. PSpec => [](BatchInv /\ FifoInv)
  BY BatcherInit, BatcherNext, OrderInit, OrderNext, BrokerImplementsBatching, PTL DEF BSpec
<1>2. OnceInv => NothingTwice
  BY Zenon DEF OnceInv
<1> QED
  BY <1>1, <1>2, InitPubInv, NextPubInv, InitOnce, NextOnce, PTL DEF PSpec
-----------------------------------------------------------------------------
(* Channels *)

\* A lookup of the channel by publish, the flusher, forward_message or consume
\* replaces it only when nobody receives from it.
THEOREM ReceiversKeepTheirChannel == PSpec => ReceiverKeepsChannel
<1>1. PNext => (channel # 0 /\ Receivers(channel) # {} => channel' = channel)
  <2> SUFFICES ASSUME PNext, channel # 0, Receivers(channel) # {} PROVE channel' = channel
    BY Zenon
  <2>1. ASSUME NEW x, ensure_channel(x) \/ FlusherChannel PROVE channel' = channel
    BY <2>1, Zenon DEF ensure_channel, FlusherChannel, HoldChannel
  <2>2. ASSUME NEW t \in Task, Run(t) PROVE channel' = channel
    BY <2>1, <2>2, Zenon
       DEF Run, TakeReady, StartBatch, SkipBatch, Append1, ForwardChannel, Send, routing
  <2> QED
    BY <2>1, <2>2, Zenon DEF PNext, Answer, publish, forward_message, consume, Subscribe, Leave,
                      Close, WaitPasses, routing
<1> QED
  BY <1>1, PTL DEF PSpec, ReceiverKeepsChannel
=============================================================================

---------------------------- MODULE ConsumeProofs ----------------------------
(***************************************************************************)
(* For any consumers, capacities and topics: a stream hands on what was    *)
(* sent without a gap, offsets on record were handed on before, and the    *)
(* windows of an aggregator divide its input.                              *)
(***************************************************************************)
EXTENDS Consume, Loops, SequenceTheorems

\* What is sent to the channel.
Sent == [topic : Topic, offset : Nat]

-----------------------------------------------------------------------------
(* Sequences *)

\* More at the end does not change a part.
LEMMA SubSeqKept ==
  ASSUME NEW s \in Seq(Sent), NEW r \in Sent,
         NEW a \in Nat \ {0}, NEW b \in Nat, b <= Len(s)
  PROVE  SubSeq(Append(s, r), a, b) = SubSeq(s, a, b)
<1> DEFINE t == Append(s, r)
           u == SubSeq(t, a, b)
           v == SubSeq(s, a, b)
<1>1. Len(s) \in Nat /\ \A i \in a..b : i \in 1..Len(s) /\ t[i] = s[i] /\ s[i] \in Sent
  BY AppendProperties
<1> HIDE DEF t
<1>2. /\ u \in Seq(Sent) /\ Len(u) = (IF a <= b THEN b - a + 1 ELSE 0)
      /\ \A i \in 1..(b - a + 1) : u[i] = t[a + i - 1]
  BY <1>1, SubSeqProperties
<1>3. /\ v \in Seq(Sent) /\ Len(v) = (IF a <= b THEN b - a + 1 ELSE 0)
      /\ \A i \in 1..(b - a + 1) : v[i] = s[a + i - 1]
  BY <1>1, SubSeqProperties
<1> HIDE DEF u, v
<1>4. \A i \in 1..Len(u) : u[i] = v[i]
  BY <1>1, <1>2, <1>3
<1>5. u = v
  BY <1>2, <1>3, <1>4, SeqEqual, Zenon
<1> QED
  BY <1>5, Zenon DEF t, u, v

\* A part holds what lies between its ends.
LEMMA SubSeqHas ==
  ASSUME NEW s \in Seq(Sent), NEW a \in Nat \ {0}, NEW b \in Nat, a <= b, b <= Len(s),
         NEW k \in a..b
  PROVE  \E i \in 1..Len(SubSeq(s, a, b)) : SubSeq(s, a, b)[i] = s[k]
<1>1. Len(s) \in Nat /\ \A i \in a..b : s[i] \in Sent
  OBVIOUS
<1>2. /\ Len(SubSeq(s, a, b)) = b - a + 1
      /\ \A i \in 1..(b - a + 1) : SubSeq(s, a, b)[i] = s[a + i - 1]
  BY <1>1, SubSeqProperties
<1>3. k - a + 1 \in 1..(b - a + 1) /\ a + (k - a + 1) - 1 = k
  OBVIOUS
<1> QED
  BY <1>2, <1>3, Zenon

\* A part one longer.
LEMMA SubSeqExtended ==
  ASSUME NEW s \in Seq(Sent), NEW a \in Nat \ {0}, NEW b \in Nat, a <= b, b <= Len(s)
  PROVE  SubSeq(s, a, b) = Append(SubSeq(s, a, b - 1), s[b]) /\ s[b] \in Sent
<1>1. Len(s) \in Nat /\ a \in 1..Len(s) /\ b \in a..Len(s) /\ b \in 1..Len(s) /\ b - 1 \in Int
  OBVIOUS
<1>2. s[b] \in Sent /\ \A i \in a..(b - 1) : s[i] \in Sent
  BY <1>1
<1>3. SubSeq(s, a, b - 1) \in Seq(Sent)
  BY <1>1, <1>2, SubSeqProperties
<1>4. SubSeq(s, a, b) = SubSeq(s, a, b - 1) \o <<s[b]>>
  BY <1>1, SubSeqRecursiveSecond, Zenon
<1> QED
  BY <1>2, <1>3, <1>4, AppendIsConcat, Zenon

\* Adding to the queue adds to what was handed on.
LEMMA AppendToQueue ==
  ASSUME NEW h \in Seq(Sent), NEW q \in Seq(Sent), NEW x \in Sent
  PROVE  h \o Append(q, x) = Append(h \o q, x) /\ h \o q \in Seq(Sent)
<1>1. <<x>> \in Seq(Sent) /\ h \o q \in Seq(Sent)
  BY ConcatProperties
<1> QED
  BY <1>1, AppendIsConcat, ConcatAssociative, SMTT(30)

\* Taking from the queue leaves what was handed on.
LEMMA TakeFromQueue ==
  ASSUME NEW h \in Seq(Sent), NEW q \in Seq(Sent), q # <<>>
  PROVE  /\ Append(h, Head(q)) \o Tail(q) = h \o q
         /\ Append(h, Head(q)) \in Seq(Sent) /\ Tail(q) \in Seq(Sent)
<1>1. Head(q) \in Sent /\ Tail(q) \in Seq(Sent) /\ <<Head(q)>> \in Seq(Sent)
  BY HeadTailProperties
<1>2. q = <<Head(q)>> \o Tail(q)
  OBVIOUS
<1>3. (h \o <<Head(q)>>) \o Tail(q) = h \o (<<Head(q)>> \o Tail(q))
  BY <1>1, ConcatAssociative, SMTT(30)
<1>4. Append(h, Head(q)) = h \o <<Head(q)>> /\ Append(h, Head(q)) \in Seq(Sent)
  BY <1>1, AppendIsConcat, AppendProperties, Zenon
<1> QED
  BY <1>1, <1>2, <1>3, <1>4, Zenon

-----------------------------------------------------------------------------
(* The streams *)

ConsumeTyped ==
  /\ stored \in [Topic -> Nat] /\ unsent \subseteq Sent /\ sent \in Seq(Sent)
  /\ pc \in [Consumer -> {"idle", "recv", "push", "offset", "ended"}]
  /\ start \in [Consumer -> Nat \ {0}] /\ next \in [Consumer -> Nat \ {0}]
  /\ queue \in [Consumer -> Seq(Sent)] /\ handled \in [Consumer -> Seq(Sent)]
  /\ gone \in [Consumer -> BOOLEAN]
  /\ consumer_offsets \in [Consumer -> Nat \cup {NoOffset}]

\* Where a stream is in what was sent.
InPlace(c) ==
  /\ start[c] <= next[c] /\ next[c] <= Len(sent) + 1
  /\ pc[c] = "idle" => start[c] = next[c] /\ consumer_offsets[c] = NoOffset
  /\ pc[c] \in {"push", "offset"} => start[c] < next[c]

\* The last message whose offset may be on record.
Handed(c) == next[c] - 1 - (IF pc[c] = "push" THEN 1 ELSE 0)

OffsetGiven(c) ==
  consumer_offsets[c] # NoOffset =>
    \E k \in start[c]..Handed(c) : sent[k].offset = consumer_offsets[c]

NoGap(c) == ~gone[c] => handled[c] \o queue[c] = SubSeq(sent, start[c], Handed(c))

StreamInv ==
  ConsumeTyped /\ \A c \in Consumer : InPlace(c) /\ NoGap(c) /\ OffsetGiven(c)

LEMMA InitStreamInv == CInit => StreamInv
<1> SUFFICES ASSUME CInit PROVE StreamInv
  BY Zenon
<1>1. sent = <<>> /\ Len(sent) = 0 /\ <<>> \in Seq(Sent)
  BY DEF CInit
<1>2. ConsumeTyped
  BY <1>1 DEF CInit, ConsumeTyped
<1>3. ASSUME NEW c \in Consumer PROVE InPlace(c) /\ NoGap(c) /\ OffsetGiven(c)
  <2>1. /\ start[c] = 1 /\ next[c] = 1 /\ pc[c] = "idle" /\ consumer_offsets[c] = NoOffset
        /\ handled[c] = <<>> /\ queue[c] = <<>>
    BY Zenon DEF CInit
  <2>2. Handed(c) = 0
    BY <2>1 DEF Handed
  <2>3. SubSeq(sent, 1, 0) = <<>> /\ <<>> \o <<>> = <<>>
    BY <1>1, SubSeqEmpty
  <2> QED
    BY <1>1, <2>1, <2>2, <2>3 DEF InPlace, NoGap, OffsetGiven
<1> QED
  BY <1>2, <1>3, Zenon DEF StreamInv

\* What another consumer's step, or the broker's store, leaves alone.
LEMMA OthersKeep ==
  ASSUME NEW c \in Consumer, InPlace(c), NoGap(c), OffsetGiven(c),
         UNCHANGED <<sent, pc[c], start[c], next[c], gone[c], queue[c], handled[c], consumer_offsets[c]>>
  PROVE  (InPlace(c) /\ NoGap(c) /\ OffsetGiven(c))'
  BY Zenon DEF InPlace, NoGap, OffsetGiven, Handed

LEMMA HandedInRange ==
  ASSUME StreamInv, NEW c \in Consumer
  PROVE  /\ Handed(c) \in Nat /\ Handed(c) <= Len(sent) /\ start[c] - 1 <= Handed(c)
         /\ start[c] \in Nat \ {0} /\ next[c] \in Nat \ {0} /\ Len(sent) \in Nat
<1>1. InPlace(c) /\ start[c] \in Nat \ {0} /\ next[c] \in Nat \ {0} /\ Len(sent) \in Nat
  BY DEF StreamInv, ConsumeTyped
<1>2. CASE pc[c] = "push"
  BY <1>1, <1>2 DEF InPlace, Handed
<1>3. CASE pc[c] # "push"
  BY <1>1, <1>3 DEF InPlace, Handed
<1> QED
  BY <1>2, <1>3, Zenon

LEMMA SendKeepsStreams ==
  ASSUME StreamInv, Send
  PROVE  StreamInv'
<1>1. PICK r \in unsent : sent' = Append(sent, r) /\ unsent' = unsent \ {r}
  BY Zenon DEF Send
<1>2. /\ r \in Sent /\ sent' \in Seq(Sent) /\ Len(sent) \in Nat /\ Len(sent') = Len(sent) + 1
      /\ \A i \in 1..Len(sent) : sent'[i] = sent[i]
  BY <1>1, AppendProperties DEF StreamInv, ConsumeTyped
<1>3. UNCHANGED <<stored, consumer_offsets, pc, start, next, queue, gone, handled>>
  BY Zenon DEF Send, client, stream
<1>4. ConsumeTyped'
  BY <1>1, <1>2, <1>3, Zenon DEF StreamInv, ConsumeTyped
<1>5. ASSUME NEW c \in Consumer PROVE (InPlace(c) /\ NoGap(c) /\ OffsetGiven(c))'
  <2>1. /\ InPlace(c) /\ NoGap(c) /\ OffsetGiven(c)
        /\ start[c] \in Nat \ {0} /\ next[c] \in Nat \ {0}
    BY Zenon DEF StreamInv, ConsumeTyped
  <2>2. InPlace(c)'
    BY <1>2, <1>3, <2>1 DEF InPlace
  <2>3. Handed(c) \in Nat /\ Handed(c) <= Len(sent) /\ Handed(c)' = Handed(c)
    BY <1>3, HandedInRange, Zenon DEF Handed
  <2>4. SubSeq(sent', start[c], Handed(c)) = SubSeq(sent, start[c], Handed(c))
    <3>1. sent \in Seq(Sent) /\ Handed(c) \in Nat /\ start[c] \in Nat \ {0}
      BY <2>1, <2>3, Zenon DEF StreamInv, ConsumeTyped
    <3>2. SubSeq(Append(sent, r), start[c], Handed(c)) = SubSeq(sent, start[c], Handed(c))
      BY <1>2, <2>3, <3>1, SubSeqKept, Zenon
    <3> QED
      BY <1>1, <3>2, Zenon
  <2>5. NoGap(c)'
    BY <1>3, <2>1, <2>3, <2>4, Zenon DEF NoGap
  <2>6. OffsetGiven(c)'
    BY <1>2, <1>3, <2>1, <2>3 DEF OffsetGiven
  <2> QED
    BY <2>2, <2>5, <2>6, Zenon
<1> QED
  BY <1>4, <1>5, Zenon DEF StreamInv

\* The client's task works on the message after those handed on.
LEMMA CurrentIsNext ==
  ASSUME StreamInv, NEW c \in Consumer, pc[c] = "push"
  PROVE  /\ Current(c) = sent[Handed(c) + 1] /\ Current(c) \in Sent
         /\ SubSeq(sent, start[c], Handed(c) + 1)
              = Append(SubSeq(sent, start[c], Handed(c)), Current(c))
<1>1. /\ Handed(c) = next[c] - 2 /\ Handed(c) \in Nat /\ start[c] \in Nat \ {0}
      /\ start[c] <= Handed(c) + 1 /\ Handed(c) + 1 <= Len(sent) /\ sent \in Seq(Sent)
      /\ next[c] \in Nat
  BY HandedInRange, SMTT(20) DEF StreamInv, ConsumeTyped, InPlace, Handed
<1>2. Current(c) = sent[Handed(c) + 1]
  BY <1>1 DEF Current
<1> DEFINE b == Handed(c) + 1
<1>4. b \in Nat /\ start[c] <= b /\ b <= Len(sent) /\ b - 1 = Handed(c)
  BY <1>1
<1> HIDE DEF b
<1>5. SubSeq(sent, start[c], b) = Append(SubSeq(sent, start[c], b - 1), sent[b]) /\ sent[b] \in Sent
  BY <1>1, <1>4, SubSeqExtended, Zenon
<1> QED
  BY <1>2, <1>4, <1>5, Zenon DEF b

\* Steps of the client's task and of the application of one consumer.
LEMMA OneConsumer ==
  ASSUME StreamInv, NEW c \in Consumer, ConsumeTyped', UNCHANGED sent,
         \A d \in Consumer \ {c} :
           UNCHANGED <<pc[d], start[d], next[d], gone[d], queue[d], handled[d], consumer_offsets[d]>>,
         (InPlace(c) /\ NoGap(c) /\ OffsetGiven(c))'
  PROVE  StreamInv'
  BY OthersKeep, Zenon DEF StreamInv

LEMMA ConsumeKeeps ==
  ASSUME StreamInv, NEW c \in Consumer, consume(c)
  PROVE  StreamInv'
<1>1. /\ Len(sent) \in Nat /\ pc[c] = "idle" /\ pc' = [pc EXCEPT ![c] = "recv"]
      /\ start' = [start EXCEPT ![c] = Len(sent) + 1] /\ next' = [next EXCEPT ![c] = Len(sent) + 1]
      /\ UNCHANGED <<stored, unsent, sent, consumer_offsets, queue, gone, handled>>
  BY DEF consume, Goto, broker, stream, StreamInv, ConsumeTyped
<1>2. ConsumeTyped'
  BY <1>1 DEF StreamInv, ConsumeTyped
<1>3. pc'[c] = "recv" /\ start'[c] = Len(sent) + 1 /\ next'[c] = Len(sent) + 1
  BY <1>1, Zenon DEF StreamInv, ConsumeTyped
<1>4. start[c] = next[c] /\ consumer_offsets[c] = NoOffset /\ Handed(c) = start[c] - 1
  BY <1>1, HandedInRange DEF StreamInv, InPlace, Handed
<1>5. ~gone[c] => handled[c] \o queue[c] = <<>>
  <2>1. NoGap(c) /\ start[c] \in Int /\ Handed(c) \in Int /\ Handed(c) < start[c]
    BY <1>4, HandedInRange DEF StreamInv
  <2>2. SubSeq(sent, start[c], Handed(c)) = <<>>
    BY <2>1, SubSeqEmpty, Zenon
  <2> QED
    BY <2>1, <2>2, Zenon DEF NoGap
<1>6. Handed(c)' = Len(sent)
  BY <1>1, <1>3 DEF Handed
<1>7. SubSeq(sent, Len(sent) + 1, Len(sent)) = <<>>
  BY <1>1, SubSeqEmpty
<1>8. InPlace(c)'
  BY <1>1, <1>3 DEF InPlace
<1>9. NoGap(c)'
  BY <1>1, <1>3, <1>5, <1>6, <1>7, Zenon DEF NoGap
<1>10. OffsetGiven(c)'
  BY <1>1, <1>4, Zenon DEF OffsetGiven
<1> QED
  BY <1>1, <1>2, <1>8, <1>9, <1>10, OneConsumer, Zenon DEF StreamInv, ConsumeTyped

LEMMA ReceiveKeeps ==
  ASSUME StreamInv, NEW c \in Consumer, Receive(c)
  PROVE  StreamInv'
<1>1. /\ pc[c] = "recv" /\ next[c] <= Len(sent) /\ pc' = [pc EXCEPT ![c] = "push"]
      /\ next' = [next EXCEPT ![c] = next[c] + 1]
      /\ UNCHANGED <<stored, unsent, sent, consumer_offsets, start, queue, gone, handled>>
  BY Zenon DEF Receive, Goto, broker, stream
<1>2. ConsumeTyped'
  BY <1>1 DEF StreamInv, ConsumeTyped
<1>3. pc'[c] = "push" /\ next'[c] = next[c] + 1
  BY <1>1, Zenon DEF StreamInv, ConsumeTyped
<1>4. Handed(c)' = Handed(c)
  BY <1>1, <1>3, HandedInRange DEF Handed
<1>5. InPlace(c)'
  BY <1>1, <1>3, HandedInRange DEF StreamInv, InPlace
<1>6. NoGap(c)' /\ OffsetGiven(c)'
  BY <1>1, <1>4, Zenon DEF StreamInv, NoGap, OffsetGiven
<1> QED
  BY <1>1, <1>2, <1>5, <1>6, OneConsumer, Zenon DEF StreamInv, ConsumeTyped

LEMMA PushKeeps ==
  ASSUME StreamInv, NEW c \in Consumer, Push(c)
  PROVE  StreamInv'
<1> DEFINE x == Current(c)
<1>1. /\ pc[c] = "push" /\ pc' = [pc EXCEPT ![c] = "offset"]
      /\ queue' = queue \/ (~gone[c] /\ queue' = [queue EXCEPT ![c] = Append(queue[c], x)])
      /\ ~gone[c] => queue' = [queue EXCEPT ![c] = Append(queue[c], x)]
      /\ UNCHANGED <<stored, unsent, sent, consumer_offsets, start, next, gone, handled>>
  BY Zenon DEF Push, Goto, broker, stream
<1>2. /\ x = sent[Handed(c) + 1] /\ x \in Sent
      /\ SubSeq(sent, start[c], Handed(c) + 1) = Append(SubSeq(sent, start[c], Handed(c)), x)
  BY <1>1, CurrentIsNext, Zenon
<1> HIDE DEF x
<1>3. /\ queue[c] \in Seq(Sent) /\ handled[c] \in Seq(Sent) /\ Append(queue[c], x) \in Seq(Sent)
  BY <1>2, AppendProperties, Zenon DEF StreamInv, ConsumeTyped
<1>4. ConsumeTyped'
  <2>1. queue' \in [Consumer -> Seq(Sent)]
    BY <1>1, <1>3, Zenon DEF StreamInv, ConsumeTyped
  <2> QED
    BY <1>1, <2>1, Zenon DEF StreamInv, ConsumeTyped
<1>5. pc'[c] = "offset" /\ Handed(c)' = Handed(c) + 1
  BY <1>1, HandedInRange DEF StreamInv, ConsumeTyped, Handed
<1>6. InPlace(c)'
  BY <1>1, <1>5, Zenon DEF StreamInv, InPlace
<1>7. NoGap(c)'
  <2> SUFFICES ASSUME ~gone[c]
               PROVE  handled[c] \o queue'[c] = SubSeq(sent, start[c], Handed(c) + 1)
    BY <1>1, <1>5, Zenon DEF NoGap
  <2>1. queue'[c] = Append(queue[c], x)
    BY <1>1, Zenon DEF StreamInv, ConsumeTyped
  <2>2. handled[c] \o queue[c] = SubSeq(sent, start[c], Handed(c))
    BY Zenon DEF StreamInv, NoGap
  <2>3. handled[c] \o Append(queue[c], x) = Append(handled[c] \o queue[c], x)
    <3>1. \A h, q \in Seq(Sent) : h \o Append(q, x) = Append(h \o q, x)
      BY <1>2, AppendToQueue, Zenon
    <3> QED
      BY <1>3, <3>1, Zenon
  <2> QED
    BY <1>2, <2>1, <2>2, <2>3, Zenon
<1>8. OffsetGiven(c)'
  BY <1>1, <1>5, HandedInRange DEF StreamInv, OffsetGiven
<1> QED
  BY <1>1, <1>4, <1>6, <1>7, <1>8, OneConsumer, Zenon DEF StreamInv, ConsumeTyped

LEMMA UpdateKeeps ==
  ASSUME StreamInv, NEW c \in Consumer, UpdateOffset(c)
  PROVE  StreamInv'
<1>1. /\ pc[c] = "offset" /\ pc' = [pc EXCEPT ![c] = "recv"]
      /\ \/ consumer_offsets' = [consumer_offsets EXCEPT ![c] = Current(c).offset]
         \/ consumer_offsets' = consumer_offsets
      /\ UNCHANGED <<stored, unsent, sent, queue, start, next, gone, handled>>
  BY Zenon DEF UpdateOffset, Goto, stream
<1>2. Handed(c) = next[c] - 1 /\ Handed(c) \in start[c]..Handed(c) /\ Current(c) = sent[Handed(c)]
  BY <1>1, HandedInRange DEF StreamInv, InPlace, Handed, Current
<1>3. Current(c).offset \in Nat
  <2>1. sent[Handed(c)] \in Sent
    BY <1>2, HandedInRange, SMTT(20) DEF StreamInv, ConsumeTyped
  <2> QED
    BY <1>2, <2>1, Zenon DEF Sent
<1>4. ConsumeTyped'
  BY <1>1, <1>3, Zenon DEF StreamInv, ConsumeTyped
<1>5. pc'[c] = "recv" /\ Handed(c)' = Handed(c)
  BY <1>1, <1>2, Zenon DEF StreamInv, ConsumeTyped, Handed
<1>6. InPlace(c)' /\ NoGap(c)'
  BY <1>1, <1>5, Zenon DEF StreamInv, InPlace, NoGap
<1>7. consumer_offsets'[c] = sent[Handed(c)].offset \/ consumer_offsets'[c] = consumer_offsets[c]
  BY <1>1, <1>2, Zenon DEF StreamInv, ConsumeTyped
<1>8. OffsetGiven(c)'
  BY <1>1, <1>2, <1>5, <1>7, Zenon DEF StreamInv, OffsetGiven
<1> QED
  BY <1>1, <1>4, <1>6, <1>8, OneConsumer, Zenon DEF StreamInv, ConsumeTyped

\* The stream ends; nothing else changes.
LEMMA EndKeeps ==
  ASSUME StreamInv, NEW c \in Consumer, EndLagged(c) \/ Disconnect(c)
  PROVE  StreamInv'
<1>1. /\ pc[c] = "recv" /\ pc' = [pc EXCEPT ![c] = "ended"]
      /\ UNCHANGED <<stored, unsent, sent, consumer_offsets, queue, start, next, gone, handled>>
  BY Zenon DEF EndLagged, Disconnect, Goto, broker, stream
<1>2. ConsumeTyped' /\ pc'[c] = "ended"
  BY <1>1, Zenon DEF StreamInv, ConsumeTyped
<1>3. (InPlace(c) /\ NoGap(c) /\ OffsetGiven(c))'
  BY <1>1, <1>2, Zenon DEF StreamInv, InPlace, NoGap, OffsetGiven, Handed
<1> QED
  BY <1>1, <1>2, <1>3, OneConsumer, Zenon DEF StreamInv, ConsumeTyped

LEMMA StoreTyped ==
  ASSUME StreamInv, NEW t \in Topic, Store(t)
  PROVE  /\ stored' \in [Topic -> Nat] /\ unsent' \subseteq Sent
         /\ UNCHANGED <<sent, consumer_offsets>>
<1>1. stored[t] \in Nat
  BY Zenon DEF StreamInv, ConsumeTyped
<1>2. [topic |-> t, offset |-> stored[t]] \in Sent
  BY <1>1, Zenon DEF Sent
<1> QED
  BY <1>1, <1>2 DEF StreamInv, ConsumeTyped, Store

\* The application, or a stream processor, takes the head of the queue.
LEMMA TakeKeepsStream ==
  ASSUME StreamInv, NEW c \in Consumer, Application(c)
  PROVE  StreamInv'
<1>1. /\ queue[c] # <<>> /\ queue' = [queue EXCEPT ![c] = Tail(queue[c])]
      /\ handled' = [handled EXCEPT ![c] = Append(handled[c], Head(queue[c]))]
      /\ UNCHANGED <<pc, start, next, gone>>
      /\ Store(Output) \/ UNCHANGED broker
  BY Zenon DEF Application, Read, Process, Collect
<1>2. /\ stored' \in [Topic -> Nat] /\ unsent' \subseteq Sent
      /\ UNCHANGED <<sent, consumer_offsets>>
  BY <1>1, StoreTyped, ConsumeAssumption, Zenon DEF broker, StreamInv, ConsumeTyped
<1>3. handled[c] \in Seq(Sent) /\ queue[c] \in Seq(Sent)
  BY Zenon DEF StreamInv, ConsumeTyped
<1>4. /\ Append(handled[c], Head(queue[c])) \o Tail(queue[c]) = handled[c] \o queue[c]
      /\ Append(handled[c], Head(queue[c])) \in Seq(Sent) /\ Tail(queue[c]) \in Seq(Sent)
  BY <1>1, <1>3, TakeFromQueue, Zenon
<1>5. ConsumeTyped' /\ handled'[c] \o queue'[c] = handled[c] \o queue[c]
  BY <1>1, <1>2, <1>4, Zenon DEF StreamInv, ConsumeTyped
<1>6. (InPlace(c) /\ NoGap(c) /\ OffsetGiven(c))'
  BY <1>1, <1>2, <1>5, Zenon DEF StreamInv, InPlace, NoGap, OffsetGiven, Handed
<1> QED
  BY <1>1, <1>2, <1>5, <1>6, OneConsumer, Zenon DEF StreamInv, ConsumeTyped

LEMMA LeaveKeeps ==
  ASSUME StreamInv, NEW c \in Consumer, Leave(c)
  PROVE  StreamInv'
<1>1. /\ gone' = [gone EXCEPT ![c] = TRUE] /\ queue' = [queue EXCEPT ![c] = <<>>]
      /\ UNCHANGED <<stored, unsent, sent, consumer_offsets, pc, start, next, handled>>
  BY Zenon DEF Leave, broker, stream
<1>2. ConsumeTyped'
  BY <1>1 DEF StreamInv, ConsumeTyped
<1>3. gone'[c] /\ \A d \in Consumer \ {c} : gone'[d] = gone[d]
  BY <1>1, Zenon DEF StreamInv, ConsumeTyped
<1>4. (InPlace(c) /\ NoGap(c) /\ OffsetGiven(c))'
  BY <1>1, <1>3, Zenon DEF StreamInv, InPlace, NoGap, OffsetGiven, Handed
<1> QED
  BY <1>1, <1>2, <1>3, <1>4, OneConsumer, Zenon DEF StreamInv, ConsumeTyped

\* Steps that touch neither the streams nor the queues.
LEMMA AsideKeeps ==
  ASSUME StreamInv, stored' \in [Topic -> Nat], unsent' \subseteq Sent,
         UNCHANGED <<sent, consumer_offsets, pc, start, next, queue, gone, handled>>
  PROVE  StreamInv'
  BY Zenon DEF StreamInv, ConsumeTyped, InPlace, NoGap, OffsetGiven, Handed

LEMMA NextStreamInv == StreamInv /\ [CNext]_cvars => StreamInv'
<1> SUFFICES ASSUME StreamInv, [CNext]_cvars PROVE StreamInv'
  BY Zenon
<1>1. stored \in [Topic -> Nat] /\ unsent \subseteq Sent
  BY Zenon DEF StreamInv, ConsumeTyped
<1>2. ASSUME NEW t \in Topic, Store(t), UNCHANGED <<client, stream>> PROVE StreamInv'
  BY <1>2, StoreTyped, AsideKeeps, Zenon DEF client, stream
<1>3. ASSUME NEW c \in Consumer, subscribe(c) \/ Tick(c) \/ SendWindow(c) \/ ReadWindow(c)
      PROVE  StreamInv'
  BY <1>1, <1>3, AsideKeeps, Zenon DEF subscribe, Tick, SendWindow, ReadWindow, broker, client, stream
<1>4. CASE UNCHANGED cvars
  BY <1>1, <1>4, AsideKeeps, Zenon DEF cvars, broker, client, stream
<1> QED
  BY <1>2, <1>3, <1>4, SendKeepsStreams, ConsumeKeeps, ReceiveKeeps, PushKeeps, UpdateKeeps,
     EndKeeps, TakeKeepsStream, LeaveKeeps, Zenon DEF CNext, ClientTask

\* For any number of consumers, any capacities and any order of sends: until
\* its stream ends a consumer gets every message sent since it began, once and
\* in order, because an overrun of the channel ends the stream.
THEOREM StreamsHaveNoGap == CSpec => []StreamHasNoGap
<1>1. StreamInv => StreamHasNoGap
  BY Zenon DEF StreamInv, NoGap, Handed, StreamHasNoGap, Received
<1> QED
  BY <1>1, InitStreamInv, NextStreamInv, PTL DEF CSpec

\* The broker never has an offset on record for a consumer before the message
\* it belongs to was handed to the consumer's application.
THEOREM OffsetsAlreadyGiven == CSpec => []OffsetAlreadyGiven
<1>1. StreamInv => OffsetAlreadyGiven
  <2> SUFFICES ASSUME StreamInv, NEW c \in Consumer, consumer_offsets[c] # NoOffset
               PROVE  \E i \in 1..Len(Received(c)) : Received(c)[i].offset = consumer_offsets[c]
    BY Zenon DEF OffsetAlreadyGiven
  <2>1. PICK k \in start[c]..Handed(c) : sent[k].offset = consumer_offsets[c]
    BY Zenon DEF StreamInv, OffsetGiven
  <2>2. Received(c) = SubSeq(sent, start[c], Handed(c))
    BY Zenon DEF Received, Handed
  <2>3. /\ sent \in Seq(Sent) /\ start[c] \in Nat \ {0} /\ Handed(c) \in Nat
        /\ start[c] <= Handed(c) /\ Handed(c) <= Len(sent)
    <3>1. sent \in Seq(Sent)
      BY Zenon DEF StreamInv, ConsumeTyped
    <3>2. start[c] \in Nat \ {0} /\ Handed(c) \in Nat /\ Handed(c) <= Len(sent)
      BY HandedInRange, Zenon
    <3> QED
      BY <2>1, <3>1, <3>2
  <2>4. \E i \in 1..Len(SubSeq(sent, start[c], Handed(c))) :
           SubSeq(sent, start[c], Handed(c))[i] = sent[k]
    BY <2>1, <2>3, SubSeqHas, Zenon
  <2> QED
    BY <2>1, <2>2, <2>4, Zenon
<1> QED
  BY <1>1, InitStreamInv, NextStreamInv, PTL DEF CSpec
-----------------------------------------------------------------------------
(* The windows *)

Contents == Seq(Sent)

\* WindowsDivideInput needs to know that a window is sent only while the buffer
\* holds something: a tick waits for room, and nothing empties it meanwhile.
Divided(c) ==
  /\ buffer[c] \in Contents /\ windows[c] \in Seq(Contents)
  /\ flushing[c] => buffer[c] # <<>>
  /\ role[c] = "aggregate" => Flatten(windows[c]) \o buffer[c] = handled[c]
  /\ \A i \in 1..Len(windows[c]) : windows[c][i] # <<>>

WindowsTyped ==
  /\ DOMAIN buffer = Consumer /\ DOMAIN windows = Consumer
  /\ DOMAIN flushing = Consumer /\ DOMAIN handled = Consumer

WindowInv == WindowsTyped /\ \A c \in Consumer : Divided(c)

LEMMA InitWindowInv == CInit => WindowInv
<1> SUFFICES ASSUME CInit PROVE WindowInv
  BY Zenon
<1>1. <<>> \in Contents /\ <<>> \in Seq(Contents) /\ Len(<<>>) = 0 /\ 1..0 = {} /\ <<>> \o <<>> = <<>>
  BY DEF Contents
<1>2. \A c \in Consumer : /\ buffer[c] = <<>> /\ windows[c] = <<>>
                          /\ ~flushing[c] /\ handled[c] = <<>>
  BY Zenon DEF CInit
<1>3. WindowsTyped
  BY Zenon DEF CInit, WindowsTyped
<1> QED
  BY <1>1, <1>2, <1>3, FlattenNothing, Zenon DEF WindowInv, Divided

\* What another consumer's step leaves alone.
LEMMA OthersDivided ==
  ASSUME NEW c \in Consumer, Divided(c),
         UNCHANGED <<role, buffer[c], windows[c], flushing[c], handled[c]>>
  PROVE  Divided(c)'
  BY Zenon DEF Divided

LEMMA SentAppended ==
  ASSUME NEW x \in Seq(Sent), NEW y \in Seq(Sent), NEW m \in Sent
  PROVE  x \o Append(y, m) = Append(x \o y, m)
  BY ConcatAppend

LEMMA CollectDivides ==
  ASSUME StreamInv, WindowInv, NEW c \in Consumer, Collect(c)
  PROVE  WindowInv'
<1> DEFINE r == Head(queue[c])
<1>1. /\ handled' = [handled EXCEPT ![c] = Append(handled[c], r)]
      /\ buffer' = [buffer EXCEPT ![c] = Append(buffer[c], r)]
      /\ role[c] = "aggregate" /\ ~flushing[c] /\ queue[c] # <<>>
      /\ UNCHANGED <<role, windows, flushing>>
  BY Zenon DEF Collect
<1>2. r \in Sent
  <2>1. queue[c] \in Seq(Sent)
    BY Zenon DEF StreamInv, ConsumeTyped
  <2> QED
    BY <1>1, <2>1
<1> HIDE DEF r
<1>3. /\ WindowsTyped' /\ handled'[c] = Append(handled[c], r) /\ buffer'[c] = Append(buffer[c], r)
      /\ \A d \in Consumer : d # c => handled'[d] = handled[d] /\ buffer'[d] = buffer[d]
  BY <1>1, Zenon DEF WindowInv, WindowsTyped
<1>4. Divided(c)
  BY Zenon DEF WindowInv
<1>5. buffer'[c] \in Contents
  BY <1>2, <1>3, <1>4 DEF Divided, Contents
<1>6. Flatten(windows[c]) \o Append(buffer[c], r) = Append(Flatten(windows[c]) \o buffer[c], r)
  <2>1. windows[c] \in Seq(Seq(Sent)) /\ buffer[c] \in Seq(Sent)
    BY <1>4, Zenon DEF Divided, Contents
  <2>2. Flatten(windows[c]) \in Seq(Sent)
    BY <2>1, FlattenIsSeq
  <2> DEFINE x == Flatten(windows[c])
             y == buffer[c]
  <2>3. x \in Seq(Sent) /\ y \in Seq(Sent)
    BY <2>1, <2>2, Zenon
  <2> HIDE DEF x, y
  <2>4. x \o Append(y, r) = Append(x \o y, r)
    BY <1>2, <2>3, SentAppended, Zenon
  <2> QED
    BY <2>4, Zenon DEF x, y
<1>7. Flatten(windows[c]) \o buffer'[c] = handled'[c]
  BY <1>1, <1>3, <1>4, <1>6, Zenon DEF Divided
<1>8. Divided(c)'
  BY <1>1, <1>4, <1>5, <1>7, Zenon DEF Divided
<1>9. \A d \in Consumer : d # c => Divided(d)'
  BY <1>1, <1>3, OthersDivided, Zenon DEF WindowInv
<1> QED
  BY <1>3, <1>8, <1>9, Zenon DEF WindowInv

LEMMA SendWindowDivides ==
  ASSUME WindowInv, NEW c \in Consumer, SendWindow(c)
  PROVE  WindowInv'
<1>1. /\ windows' = [windows EXCEPT ![c] = Append(windows[c], buffer[c])]
      /\ buffer' = [buffer EXCEPT ![c] = <<>>] /\ flushing' = [flushing EXCEPT ![c] = FALSE]
      /\ role[c] = "aggregate" /\ flushing[c] /\ UNCHANGED <<role, handled>>
  BY Zenon DEF SendWindow
<1>2. /\ WindowsTyped' /\ windows'[c] = Append(windows[c], buffer[c]) /\ buffer'[c] = <<>>
      /\ ~flushing'[c]
      /\ \A d \in Consumer : d # c => /\ windows'[d] = windows[d] /\ buffer'[d] = buffer[d]
                                      /\ flushing'[d] = flushing[d]
  BY <1>1, Zenon DEF WindowInv, WindowsTyped
<1>3. Divided(c)
  BY Zenon DEF WindowInv
<1>4. windows[c] \in Seq(Seq(Sent)) /\ buffer[c] \in Seq(Sent) /\ buffer[c] # <<>>
  BY <1>1, <1>3, Zenon DEF Divided, Contents
<1>5. Flatten(windows'[c]) = Flatten(windows[c]) \o buffer[c]
  BY <1>2, <1>4, FlattenAppend
<1>6. Flatten(windows'[c]) \o buffer'[c] = handled'[c]
  <2>1. handled[c] = Flatten(windows[c]) \o buffer[c]
    BY <1>1, <1>3, Zenon DEF Divided
  <2>2. Flatten(windows[c]) \in Seq(Sent)
    BY <1>4, FlattenIsSeq
  <2>3. handled[c] \in Seq(Sent)
    BY <1>4, <2>1, <2>2
  <2>4. handled[c] \o <<>> = handled[c]
    BY <2>3
  <2> QED
    BY <1>1, <1>2, <1>5, <2>1, <2>4, Zenon
<1>7. windows'[c] \in Seq(Contents) /\ \A i \in 1..Len(windows'[c]) : windows'[c][i] # <<>>
  <2> DEFINE n == Len(windows[c])
  <2>1. /\ windows[c] \in Seq(Contents) /\ buffer[c] \in Contents
        /\ \A i \in 1..n : windows[c][i] # <<>>
    BY <1>3, Zenon DEF Divided
  <2>2. /\ n \in Nat /\ windows'[c] \in Seq(Contents) /\ Len(windows'[c]) = n + 1
        /\ windows'[c][n + 1] = buffer[c] /\ \A i \in 1..n : windows'[c][i] = windows[c][i]
    BY <1>2, <2>1, Appended
  <2> HIDE DEF n
  <2>3. \A i \in 1..(n + 1) : i = n + 1 \/ i \in 1..n
    BY <2>2
  <2> QED
    BY <1>4, <2>1, <2>2, <2>3, Zenon
<1>8. <<>> \in Contents
  BY DEF Contents
<1>9. Divided(c)'
  BY <1>2, <1>6, <1>7, <1>8, Zenon DEF Divided
<1>10. \A d \in Consumer : d # c => Divided(d)'
  BY <1>1, <1>2, OthersDivided, Zenon DEF WindowInv
<1> QED
  BY <1>2, <1>9, <1>10, Zenon DEF WindowInv

LEMMA NextWindowInv == StreamInv /\ WindowInv /\ [CNext]_cvars => WindowInv'
<1> SUFFICES ASSUME StreamInv, WindowInv, [CNext]_cvars PROVE WindowInv'
  BY Zenon
<1>1. ASSUME UNCHANGED stream PROVE WindowInv'
  BY <1>1, Zenon DEF stream, WindowInv, WindowsTyped, Divided
<1>2. ASSUME NEW c \in Consumer, Read(c) \/ Process(c) PROVE WindowInv'
  <2>1. /\ handled' = [handled EXCEPT ![c] = Append(handled[c], Head(queue[c]))]
        /\ role[c] # "aggregate" /\ UNCHANGED <<role, buffer, windows, flushing>>
    BY <1>2, Zenon DEF Read, Process
  <2>2. WindowsTyped' /\ \A d \in Consumer : d # c => handled'[d] = handled[d]
    BY <2>1, Zenon DEF WindowInv, WindowsTyped
  <2>3. Divided(c)'
    BY <2>1, Zenon DEF WindowInv, Divided
  <2> QED
    BY <2>1, <2>2, <2>3, OthersDivided, Zenon DEF WindowInv
<1>3. ASSUME NEW c \in Consumer, Tick(c) PROVE WindowInv'
  <2>1. /\ flushing' = [flushing EXCEPT ![c] = TRUE] /\ buffer[c] # <<>>
        /\ UNCHANGED <<role, handled, buffer, windows>>
    BY <1>3, Zenon DEF Tick
  <2>2. WindowsTyped' /\ \A d \in Consumer : d # c => flushing'[d] = flushing[d]
    BY <2>1, Zenon DEF WindowInv, WindowsTyped
  <2>3. Divided(c)'
    BY <2>1, Zenon DEF WindowInv, Divided
  <2> QED
    BY <2>1, <2>2, <2>3, OthersDivided, Zenon DEF WindowInv
<1>4. ASSUME NEW c \in Consumer, ReadWindow(c) PROVE WindowInv'
  BY <1>4, Zenon DEF ReadWindow, WindowInv, WindowsTyped, Divided
<1>5. ASSUME NEW c \in Consumer,
             subscribe(c) \/ consume(c) \/ ClientTask(c) \/ Disconnect(c) \/ Leave(c)
      PROVE  UNCHANGED stream
  BY <1>5, Zenon DEF subscribe, consume, ClientTask, Receive, EndLagged, Push, UpdateOffset,
                    Disconnect, Leave
<1> QED
  BY <1>1, <1>2, <1>3, <1>4, <1>5, CollectDivides, SendWindowDivides, Zenon
     DEF CNext, Application, Send, cvars

\* However ticks, messages and a full output channel alternate: the windows an
\* aggregator sends, and the buffer it still fills, are what it took from its
\* queue, in order, and no window is empty.
THEOREM WindowsDivideTheInput == CSpec => []WindowsDivideInput
<1>1. WindowInv => WindowsDivideInput
  BY Zenon DEF WindowInv, Divided, WindowsDivideInput
<1> QED
  BY <1>1, InitStreamInv, NextStreamInv, InitWindowInv, NextWindowInv, PTL DEF CSpec
=============================================================================

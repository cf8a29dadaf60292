------------------------------ MODULE Publish ------------------------------
(***************************************************************************)
(* The way of a message through one broker (crates/broker/src/broker.rs):  *)
(* publish calls, the background flusher and calls that forward a message  *)
(* from another broker share the batcher, the partition's log and the      *)
(* broadcast channel from which consumers stream.                          *)
(* Messages are those whose key belongs to this broker's partition,        *)
(* numbered in the order the broker receives them.                         *)
(*                                                                         *)
(* The log is PartitionLog's, seen from outside: an append is atomic and   *)
(* answers the next offset, as its signature and its test have it.         *)
(* PartitionLog shows that at present it never answers; what this module   *)
(* says of the steps after an append holds once it does.                   *)
(***************************************************************************)
EXTENDS Batching

CONSTANTS
  Publisher,     \* tasks handling publish calls
  flusher,       \* the background task started by serve
  Forwarder,     \* tasks handling forward_message calls
  Consumer,      \* clients of the consume call
  ZeroCopyFails, \* whether zero_copy_processor.process_batch may answer Err
  MaxChannels,   \* bound: no consume call once so many channels were created
  NoOffset

Task == Publisher \cup {flusher} \cup Forwarder

ASSUME PublishAssumption ==
  /\ flusher \notin Publisher \cup Forwarder /\ Publisher \cap Forwarder = {}
  /\ Task \cap Consumer = {}
  /\ Message \subseteq Nat
  /\ ZeroCopyFails \in BOOLEAN
  /\ MaxChannels \in Nat /\ NoOffset \notin Nat

VARIABLES
  pc,      \* where each task is: "idle", "take", "batch", "append", "channel",
           \* "send", "answer"; consumers: "idle", "subscribe", "stream"
  work,    \* per task: the batches it still has to process
  offset,  \* per task: the offset its append returned
  log,     \* the partition's messages; the offset is the place, counted from 0
  channel, \* Broker.messages[partition_id]: the current channel, 0 when absent
  created, \* channels created so far
  sender,  \* per task and consumer call: the Sender it holds, or 0
  chan,    \* per consumer: the channel its stream receives from, or 0
  inbox,   \* history: [message, offset] responses each consumer was sent
  message_counter

routing == <<channel, created, sender, chan>>
pvars == <<batching, pc, work, offset, log, routing, inbox, message_counter>>

PInit ==
  /\ BInit
  /\ pc = [x \in Task \cup Consumer |-> "idle"]
  /\ work = [t \in Task |-> <<>>]
  /\ offset = [t \in Task |-> NoOffset]
  /\ log = <<>>
  /\ channel = 0 /\ created = 0
  /\ sender = [x \in Task \cup Consumer |-> 0]
  /\ chan = [c \in Consumer |-> 0]
  /\ inbox = [c \in Consumer |-> <<>>]
  /\ message_counter = 0

Goto(x, l) == pc' = [pc EXCEPT ![x] = l]
-----------------------------------------------------------------------------
Receivers(ch) == {c \in Consumer : chan[c] = ch}

NewChannel(x) ==
  /\ created' = created + 1
  /\ channel' = created'
  /\ sender' = [sender EXCEPT ![x] = created']

HoldChannel(x) ==
  /\ sender' = [sender EXCEPT ![x] = channel]
  /\ UNCHANGED <<channel, created>>

\* Broker::ensure_channel replaces a channel nobody receives from.
ensure_channel(x) ==
  IF channel # 0 /\ Receivers(channel) # {} THEN HoldChannel(x) ELSE NewChannel(x)

\* The flusher's own lookup keeps any channel there is.
FlusherChannel == IF channel # 0 THEN HoldChannel(flusher) ELSE NewChannel(flusher)
-----------------------------------------------------------------------------
\* The messages received so far.
Known == Range(added) \cup Range(log)

\* The next message.
Fresh(m) == m \notin Known /\ \A k \in Message : k < m => k \in Known

\* Broker::publish up to the end of batcher.add_message.
publish(p, m) ==
  /\ pc[p] = "idle" /\ Fresh(m)
  /\ add_message(m)
  /\ Goto(p, "take")
  /\ UNCHANGED <<work, offset, log, routing, inbox, message_counter>>

\* batcher.get_ready_batches in publish and in the flusher's loop.
TakeReady(t) ==
  /\ t \notin Forwarder
  /\ pc[t] = IF t = flusher THEN "idle" ELSE "take"
  /\ \E k \in 0..Len(batches) :
       /\ get_ready_batches(k)
       /\ work' = [work EXCEPT ![t] = [i \in 1..k |-> batches[i].messages]]
       /\ Goto(t, IF k > 0 THEN "batch" ELSE IF t \in Publisher THEN "answer" ELSE "idle")
  /\ UNCHANGED <<offset, log, routing, inbox, message_counter>>

\* Mutant of Finish: after a failure the same batch is tried again.
FinishOrRetry(t) ==
  /\ work' = IF pc[t] = "append" THEN work ELSE [work EXCEPT ![t] = Tail(@)]
  /\ Goto(t, IF work'[t] # <<>> THEN "batch" ELSE IF t \in Publisher THEN "answer" ELSE "idle")

\* The batch is done; the next one, the next poll or the answer follows.
Finish(t) ==
  /\ work' = [work EXCEPT ![t] = Tail(@)]
  /\ Goto(t, IF Len(work[t]) > 1 THEN "batch" ELSE IF t \in Publisher THEN "answer" ELSE "idle")

(***************************************************************************)
(* Processing a batch starts with the channel, for a publish call as for   *)
(* the flusher.  zero_copy_processor.process_batch answers a Result, whose *)
(* iterator yields one item, the whole encoded batch, or none after an     *)
(* error.  Zipped with the messages it leaves the first one or none.       *)
(***************************************************************************)
StartBatch(t) ==
  /\ pc[t] = "batch"
  /\ IF t = flusher THEN FlusherChannel ELSE ensure_channel(t)
  /\ Goto(t, "append")
  /\ UNCHANGED <<batching, work, offset, log, chan, inbox, message_counter>>

\* The loop over no items.
SkipBatch(t) ==
  /\ pc[t] = "append" /\ ZeroCopyFails
  /\ sender' = [sender EXCEPT ![t] = 0]
  /\ Finish(t)
  /\ UNCHANGED <<batching, offset, log, channel, created, chan, inbox,
                 message_counter>>

\* Mutant of Append1: the response carries the broker's message counter.
AppendCounted(t) ==
  /\ pc[t] = "append"
  /\ log' = Append(log, work[t][1][1])
  /\ offset' = [offset EXCEPT ![t] = message_counter]
  /\ Goto(t, "send")
  /\ UNCHANGED <<batching, work, routing, inbox, message_counter>>

\* storage.append of the first message of the batch.
Append1(t) ==
  /\ pc[t] = "append"
  /\ log' = Append(log, work[t][1][1])
  /\ offset' = [offset EXCEPT ![t] = Len(log)]
  /\ Goto(t, "send")
  /\ UNCHANGED <<batching, work, routing, inbox, message_counter>>

\* sender.send reaches whoever receives from that channel.
Send(t) ==
  /\ pc[t] = "send"
  /\ inbox' = [c \in Consumer |->
                 IF chan[c] = sender[t]
                 THEN Append(inbox[c], [message |-> work[t][1][1], offset |-> offset[t]])
                 ELSE inbox[c]]
  /\ sender' = [sender EXCEPT ![t] = 0]
  /\ Finish(t)
  /\ UNCHANGED <<batching, offset, log, channel, created, chan, message_counter>>

\* Broker::forward_message up to the end of storage.append.
forward_message(f, m) ==
  /\ pc[f] = "idle" /\ Fresh(m)
  /\ work' = [work EXCEPT ![f] = << <<m>> >>]
  /\ log' = Append(log, m)
  /\ offset' = [offset EXCEPT ![f] = Len(log)]
  /\ Goto(f, "channel")
  /\ UNCHANGED <<batching, routing, inbox, message_counter>>

\* The channel is looked up after the append; Send does the rest.
ForwardChannel(f) ==
  /\ pc[f] = "channel"
  /\ ensure_channel(f)
  /\ Goto(f, "send")
  /\ UNCHANGED <<batching, work, offset, log, chan, inbox, message_counter>>

\* The rest of publish: success, with the counter as the offset.
Answer(p) ==
  /\ pc[p] = "answer"
  /\ message_counter' = message_counter + 1
  /\ Goto(p, "idle")
  /\ UNCHANGED <<batching, work, offset, log, routing, inbox>>

\* Broker::consume: the channel is looked up, and subscribed to after the lock
\* on the map is released.
consume(c) ==
  /\ pc[c] = "idle" /\ created < MaxChannels
  /\ ensure_channel(c)
  /\ Goto(c, "subscribe")
  /\ UNCHANGED <<batching, work, offset, log, chan, inbox, message_counter>>

\* Mutant of Subscribe: the stream keeps the Sender beside the Receiver.
SubscribeKeeping(c) ==
  /\ pc[c] = "subscribe"
  /\ chan' = [chan EXCEPT ![c] = sender[c]]
  /\ Goto(c, "stream")
  /\ UNCHANGED <<batching, work, offset, log, channel, created, sender, inbox,
                 message_counter>>

Subscribe(c) ==
  /\ pc[c] = "subscribe"
  /\ chan' = [chan EXCEPT ![c] = sender[c]]
  /\ sender' = [sender EXCEPT ![c] = 0]
  /\ Goto(c, "stream")
  /\ UNCHANGED <<batching, work, offset, log, channel, created, inbox,
                 message_counter>>

\* The client goes away.
Leave(c) ==
  /\ pc[c] = "stream"
  /\ chan' = [chan EXCEPT ![c] = 0]
  /\ Goto(c, "idle")
  /\ UNCHANGED <<batching, work, offset, log, channel, created, sender, inbox,
                 message_counter>>

\* The last Sender of a channel is dropped: its streams end.
Close(c) ==
  /\ pc[c] = "stream" /\ chan[c] # channel
  /\ \A x \in Task \cup Consumer : sender[x] # chan[c]
  /\ chan' = [chan EXCEPT ![c] = 0]
  /\ Goto(c, "idle")
  /\ UNCHANGED <<batching, work, offset, log, channel, created, sender, inbox,
                 message_counter>>

WaitPasses ==
  /\ Elapse
  /\ UNCHANGED <<pc, work, offset, log, routing, inbox, message_counter>>

Run(t) ==
  TakeReady(t) \/ StartBatch(t) \/ SkipBatch(t) \/ Append1(t) \/ ForwardChannel(t) \/ Send(t)

PNext ==
  \/ \E t \in Task : Run(t)
  \/ \E p \in Publisher : Answer(p) \/ \E m \in Message : publish(p, m)
  \/ \E f \in Forwarder, m \in Message : forward_message(f, m)
  \/ \E c \in Consumer : consume(c) \/ Subscribe(c) \/ Leave(c) \/ Close(c)
  \/ WaitPasses

PSpec == PInit /\ [][PNext]_pvars

\* The runtime keeps running every task that can run: the flusher never stops
\* polling.  Time passes.  A consume call runs to its end, and a closed channel
\* ends the stream.
PFairSpec ==
  /\ PSpec
  /\ \A p \in Publisher : WF_pvars(Run(p) \/ Answer(p))
  /\ \A t \in Forwarder \cup {flusher} : WF_pvars(Run(t))
  /\ WF_pvars(WaitPasses)
  /\ \A c \in Consumer : WF_pvars(Subscribe(c)) /\ WF_pvars(Close(c))
-----------------------------------------------------------------------------
\* No task takes the channel away from a consumer that receives from it: what is
\* sent after the lookup of any task reaches the consumers of that moment.
ReceiverKeepsChannel ==
  [][channel # 0 /\ Receivers(channel) # {} => channel' = channel]_pvars

\* What a consumer is sent is already in the log, under the offset it is sent
\* with, whichever task stored it and however the tasks overtake one another.
DeliveredIsLogged ==
  \A c \in Consumer : \A i \in 1..Len(inbox[c]) :
    /\ inbox[c][i].offset < Len(log)
    /\ log[inbox[c][i].offset + 1] = inbox[c][i].message

\* No message is stored or delivered to a consumer twice, although publish
\* calls and the flusher take batches side by side and consumers come back.
NothingTwice ==
  /\ \A i, j \in 1..Len(log) : log[i] = log[j] => i = j
  /\ \A c \in Consumer : \A i, j \in 1..Len(inbox[c]) :
       inbox[c][i].message = inbox[c][j].message => i = j

\* A publish call is answered, given a storage that returns: no failed batch
\* and no other task keeps it.
PublishAnswered ==
  \A p \in Publisher : pc[p] = "take" ~> pc[p] = "idle"

\* A consumer whose channel was replaced between its lookup and its subscription
\* would wait for messages nobody sends it; its stream ends instead, because
\* nobody keeps a Sender of the old channel.
StrandedStreamEnds ==
  \A c \in Consumer : pc[c] = "stream" /\ chan[c] # channel ~> pc[c] = "idle"

\* When a task is done with a batch, it has stored the batch's messages.
BatchStoredWhole ==
  [][\A t \in Task :
       pc[t] = "send" /\ pc'[t] # "send" => Range(Head(work[t])) \subseteq Range(log')]_pvars
=============================================================================

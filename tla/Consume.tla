------------------------------ MODULE Consume ------------------------------
(***************************************************************************)
(* From the broker's channel to the application: the broadcast channel of  *)
(* a partition and the broker's stream over it (crates/broker/src/         *)
(* broker.rs), the client's consume task (crates/consumer/src/consumer.rs) *)
(* and the two stream processors built on it (crates/streams/src/          *)
(* simple_stream.rs).  Each consumer opens one stream.                     *)
(*                                                                         *)
(* The channel is the partition's: it carries the messages of every topic. *)
(* Publish says how messages get there; here tasks store a message and     *)
(* send it later, so messages may be sent in another order than stored.    *)
(***************************************************************************)
EXTENDS Integers, Sequences, FiniteSets, Lists

CONSTANTS
  Topic,
  Consumer,
  TopicOf,     \* topic each consumer asked for
  Output,      \* output_topic of the processors
  Capacity,    \* broadcast_capacity
  ChannelSize, \* size of the client's mpsc channels (100 in the code)
  MaxSent,     \* bound: messages stored
  MaxTasks,    \* bound: messages stored and not yet sent
  NoOffset

ASSUME ConsumeAssumption ==
  /\ TopicOf \in [Consumer -> Topic] /\ Output \in Topic
  /\ Capacity \in Nat \ {0} /\ ChannelSize \in Nat \ {0}
  /\ MaxSent \in Nat /\ MaxTasks \in Nat /\ NoOffset \notin Nat

VARIABLES
  topics,           \* Broker.topics
  stored,           \* per topic: messages in the partition's log
  unsent,           \* responses of stored messages whose task has not sent yet
  sent,             \* what was sent to the channel, oldest first
  pc,               \* per consumer: "idle", "recv", "push", "offset", "ended"
  start, next,      \* per consumer: places in `sent`, where its stream began and
                    \* what it receives next
  queue,            \* per consumer: the mpsc channel to the application
  gone,             \* per consumer: the application dropped its Receiver
  consumer_offsets, \* Broker.consumer_offsets, for the consumer's topic
  role,             \* per consumer: who runs it, an application of its own,
                    \* SimpleStream::process or SimpleStream::aggregate
  handled,          \* per consumer: what that one took from `queue`
  buffer,           \* per aggregator: the window being filled
  windows,          \* per aggregator: the windows it sent
  flushing,         \* per aggregator: it waits for room to send a window
  unread            \* per aggregator: windows its reader has not read

Role == {"application", "process", "aggregate"}

broker == <<topics, stored, unsent, sent, consumer_offsets>>
client == <<pc, start, next, queue, gone>>
stream == <<role, handled, buffer, windows, flushing, unread>>
cvars == <<broker, client, stream>>

CInit ==
  /\ topics = {} /\ stored = [t \in Topic |-> 0] /\ unsent = {} /\ sent = <<>>
  /\ consumer_offsets = [c \in Consumer |-> NoOffset]
  /\ pc = [c \in Consumer |-> "idle"]
  /\ start = [c \in Consumer |-> 1] /\ next = [c \in Consumer |-> 1]
  /\ queue = [c \in Consumer |-> <<>>] /\ gone = [c \in Consumer |-> FALSE]
  /\ role \in [Consumer -> Role]
  /\ handled = [c \in Consumer |-> <<>>]
  /\ buffer = [c \in Consumer |-> <<>>] /\ windows = [c \in Consumer |-> <<>>]
  /\ flushing = [c \in Consumer |-> FALSE] /\ unread = [c \in Consumer |-> 0]

Goto(c, l) == pc' = [pc EXCEPT ![c] = l]
-----------------------------------------------------------------------------
\* Broker::ensure_topic
ensure_topic(t) == topics' = topics \cup {t}

\* A task of the broker makes sure of the topic and appends a message to the
\* topic's log; the response it will send carries the offset.
Store(t) ==
  /\ Len(sent) + Cardinality(unsent) < MaxSent /\ Cardinality(unsent) < MaxTasks
  /\ ensure_topic(t)
  /\ stored' = [stored EXCEPT ![t] = @ + 1]
  /\ unsent' = unsent \cup {[topic |-> t, offset |-> stored[t]]}
  /\ UNCHANGED <<sent, consumer_offsets>>

\* sender.send
Send ==
  /\ \E r \in unsent : sent' = Append(sent, r) /\ unsent' = unsent \ {r}
  /\ UNCHANGED <<topics, stored, consumer_offsets, client, stream>>

\* Consumer::subscribe, whose broker handler makes sure of the topic.  The
\* stream processors call it first.
subscribe(c) ==
  /\ pc[c] = "idle" /\ TopicOf[c] \notin topics
  /\ ensure_topic(TopicOf[c])
  /\ UNCHANGED <<stored, unsent, sent, consumer_offsets, client, stream>>

\* Consumer::consume and the broker's: the receiver starts with what is sent
\* from now on.  (Publish has the lookup of the channel.)
consume(c) ==
  /\ pc[c] = "idle"
  /\ role[c] # "application" => TopicOf[c] \in topics
  /\ start' = [start EXCEPT ![c] = Len(sent) + 1]
  /\ next' = [next EXCEPT ![c] = Len(sent) + 1]
  /\ Goto(c, "recv")
  /\ UNCHANGED <<broker, queue, gone, stream>>

\* The channel has dropped what this receiver should receive next.
Lagged(c) == Len(sent) - next[c] >= Capacity

\* stream.message() answers the next response.
Receive(c) ==
  /\ pc[c] = "recv" /\ next[c] <= Len(sent) /\ ~Lagged(c)
  /\ next' = [next EXCEPT ![c] = @ + 1]
  /\ Goto(c, "push")
  /\ UNCHANGED <<broker, start, queue, gone, stream>>

\* Mutant of EndLagged: the stream goes on with the oldest message left.
SkipLagged(c) ==
  /\ pc[c] = "recv" /\ Lagged(c)
  /\ next' = [next EXCEPT ![c] = Len(sent) - Capacity + 1]
  /\ UNCHANGED <<broker, pc, start, queue, gone, stream>>

\* Mutant of EndLagged: the error is swallowed and nothing polls again.
StayLagged(c) ==
  /\ pc[c] = "recv" /\ Lagged(c)
  /\ UNCHANGED cvars

\* MessageStream::poll_next turns the channel's error into a Status, which
\* ends the stream, and the client's loop with it.
EndLagged(c) ==
  /\ pc[c] = "recv" /\ Lagged(c)
  /\ Goto(c, "ended")
  /\ UNCHANGED <<broker, start, next, queue, gone, stream>>

\* The connection is lost or the broker gone.
Disconnect(c) ==
  /\ pc[c] = "recv"
  /\ Goto(c, "ended")
  /\ UNCHANGED <<broker, start, next, queue, gone, stream>>

\* The response the client's task is working on.
Current(c) == sent[next[c] - 1]

\* tx.send waits for room; without a Receiver it fails, which is ignored.
Push(c) ==
  /\ pc[c] = "push"
  /\ IF gone[c] THEN UNCHANGED queue
     ELSE Len(queue[c]) < ChannelSize /\ queue' = [queue EXCEPT ![c] = Append(@, Current(c))]
  /\ Goto(c, "offset")
  /\ UNCHANGED <<broker, start, next, gone, stream>>

\* Mutant of UpdateOffset: the position after the message, as other logs have it.
UpdateToNext(c) ==
  /\ pc[c] = "offset"
  /\ consumer_offsets' = [consumer_offsets EXCEPT ![c] = Current(c).offset + 1]
  /\ Goto(c, "recv")
  /\ UNCHANGED <<topics, stored, unsent, sent, start, next, queue, gone, stream>>

\* client.acknowledge, which changes nothing, and client.update_offset, which
\* the broker refuses for a topic it does not know.  Errors are ignored.
UpdateOffset(c) ==
  /\ pc[c] = "offset"
  /\ \/ /\ TopicOf[c] \in topics
        /\ consumer_offsets' = [consumer_offsets EXCEPT ![c] = Current(c).offset]
     \/ UNCHANGED consumer_offsets
  /\ Goto(c, "recv")
  /\ UNCHANGED <<topics, stored, unsent, sent, start, next, queue, gone, stream>>
-----------------------------------------------------------------------------
\* An application of its own reads, or drops the Receiver.
Read(c) ==
  /\ role[c] = "application" /\ queue[c] # <<>>
  /\ queue' = [queue EXCEPT ![c] = Tail(@)]
  /\ handled' = [handled EXCEPT ![c] = Append(@, Head(queue[c]))]
  /\ UNCHANGED <<broker, pc, start, next, gone, role, buffer, windows, flushing, unread>>

Leave(c) ==
  /\ role[c] = "application" /\ ~gone[c] /\ pc[c] # "idle"
  /\ gone' = [gone EXCEPT ![c] = TRUE]
  /\ queue' = [queue EXCEPT ![c] = <<>>]
  /\ UNCHANGED <<broker, pc, start, next, stream>>

\* One round of the loop of SimpleStream::process: the function passed to it
\* answers None, or publishing fails, or the result is published.
Process(c) ==
  /\ role[c] = "process" /\ queue[c] # <<>>
  /\ queue' = [queue EXCEPT ![c] = Tail(@)]
  /\ handled' = [handled EXCEPT ![c] = Append(@, Head(queue[c]))]
  /\ Store(Output) \/ UNCHANGED broker
  /\ UNCHANGED <<pc, start, next, gone, role, buffer, windows, flushing, unread>>

\* The loop of SimpleStream::aggregate: a message for the window, or a tick,
\* which waits for room in the output channel if there is a window to send.
Collect(c) ==
  /\ role[c] = "aggregate" /\ ~flushing[c] /\ queue[c] # <<>>
  /\ queue' = [queue EXCEPT ![c] = Tail(@)]
  /\ handled' = [handled EXCEPT ![c] = Append(@, Head(queue[c]))]
  /\ buffer' = [buffer EXCEPT ![c] = Append(@, Head(queue[c]))]
  /\ UNCHANGED <<broker, pc, start, next, gone, role, windows, flushing, unread>>

\* Mutant of Tick: the loop ends with the stream.
TickWhileStreaming(c) ==
  /\ role[c] = "aggregate" /\ ~flushing[c] /\ buffer[c] # <<>> /\ pc[c] # "ended"
  /\ flushing' = [flushing EXCEPT ![c] = TRUE]
  /\ UNCHANGED <<broker, client, role, handled, buffer, windows, unread>>

Tick(c) ==
  /\ role[c] = "aggregate" /\ ~flushing[c] /\ buffer[c] # <<>>
  /\ flushing' = [flushing EXCEPT ![c] = TRUE]
  /\ UNCHANGED <<broker, client, role, handled, buffer, windows, unread>>

\* Mutant of SendWindow: the buffer is not cleared.
SendWindowKept(c) ==
  /\ role[c] = "aggregate" /\ flushing[c] /\ unread[c] < ChannelSize
  /\ windows' = [windows EXCEPT ![c] = Append(@, buffer[c])]
  /\ unread' = [unread EXCEPT ![c] = @ + 1]
  /\ flushing' = [flushing EXCEPT ![c] = FALSE]
  /\ UNCHANGED <<broker, client, role, handled, buffer>>

SendWindow(c) ==
  /\ role[c] = "aggregate" /\ flushing[c] /\ unread[c] < ChannelSize
  /\ windows' = [windows EXCEPT ![c] = Append(@, buffer[c])]
  /\ unread' = [unread EXCEPT ![c] = @ + 1]
  /\ buffer' = [buffer EXCEPT ![c] = <<>>]
  /\ flushing' = [flushing EXCEPT ![c] = FALSE]
  /\ UNCHANGED <<broker, client, role, handled>>

ReadWindow(c) ==
  /\ role[c] = "aggregate" /\ unread[c] > 0
  /\ unread' = [unread EXCEPT ![c] = @ - 1]
  /\ UNCHANGED <<broker, client, role, handled, buffer, windows, flushing>>

ClientTask(c) == Receive(c) \/ EndLagged(c) \/ Push(c) \/ UpdateOffset(c)

Application(c) == Read(c) \/ Process(c) \/ Collect(c)

CNext ==
  \/ \E t \in Topic : Store(t) /\ UNCHANGED <<client, stream>>
  \/ Send
  \/ \E c \in Consumer :
       \/ subscribe(c) \/ consume(c) \/ ClientTask(c) \/ Disconnect(c)
       \/ Application(c) \/ Leave(c)
       \/ Tick(c) \/ SendWindow(c) \/ ReadWindow(c)

CSpec == CInit /\ [][CNext]_cvars

\* The runtimes keep running the client's and the stream processors' tasks, the
\* timer ticks, and applications read what they are given.
CFairSpec ==
  /\ CSpec
  /\ \A c \in Consumer :
       /\ WF_cvars(ClientTask(c)) /\ WF_cvars(Application(c))
       /\ WF_cvars(Tick(c) \/ SendWindow(c)) /\ WF_cvars(ReadWindow(c))
-----------------------------------------------------------------------------
\* What a stream has handed on so far.
Received(c) == SubSeq(sent, start[c], next[c] - 1 - (IF pc[c] = "push" THEN 1 ELSE 0))

\* Until its stream ends a consumer is given every message sent since it began,
\* once and in the order sent, however far it falls behind: the channel's
\* overrun ends the stream instead of leaving a gap.  Nothing is lost on the
\* way through the application's queue.
StreamHasNoGap ==
  \A c \in Consumer : ~gone[c] => handled[c] \o queue[c] = Received(c)

\* The offset on record for a consumer is that of a message its application was
\* already given: the client updates it last.
OffsetAlreadyGiven ==
  \A c \in Consumer : consumer_offsets[c] # NoOffset =>
    \E i \in 1..Len(Received(c)) : Received(c)[i].offset = consumer_offsets[c]

\* A message sent while a consumer streams reaches it, or the stream ends: the
\* bounded queues between channel, client, processor and reader never hold one
\* another up for good.  (As MaxSent ends the sending, every message reaches the
\* consumer when it catches up with the channel.)
StreamMovesOn ==
  \A c \in Consumer :
    pc[c] # "idle" /\ next[c] <= Len(sent) ~> next[c] > Len(sent) \/ pc[c] = "ended"

\* The windows of an aggregator divide what it took among them, in order, and
\* none is empty.
WindowsDivideInput ==
  \A c \in Consumer :
    /\ role[c] = "aggregate" => Flatten(windows[c]) \o buffer[c] = handled[c]
    /\ \A i \in 1..Len(windows[c]) : windows[c][i] # <<>>

\* What an aggregator has collected does not stay in the buffer, also after the
\* stream has ended: it goes out in a window (WindowsDivideInput).
EndsUpInWindow ==
  \A c \in Consumer : buffer[c] # <<>> ~> buffer[c] = <<>>

\* "Process messages from a topic with a transformation function": what a
\* processor transforms was published to its input topic.
ProcessesInputTopic ==
  \A c \in Consumer : role[c] = "process" =>
    \A i \in 1..Len(handled[c]) : handled[c][i].topic = TopicOf[c]
=============================================================================

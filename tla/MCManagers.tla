----------------------------- MODULE MCManagers -----------------------------
\* Three replicas, of which a lag of one is in sync; two keys, and segments of
\* one long value or two short ones; batches of up to three messages, with a
\* buffer of 11 bytes that one fills exactly, one exceeds by its length
\* prefixes only, and one by itself; two brokers that send heartbeats; two
\* components, broken after two failures; two readers of a rate, with half
\* seconds.
EXTENDS Managers, MCMetrics

MCLength == {1, 2}

MCBatches ==
  {<< <<>>, <<7>> >>, << <<1, 2>>, <<3>> >>, << <<1, 2>>, <<3, 4>> >>,
   << <<1>>, <<2>>, <<3>> >>, << [i \in 1..12 |-> i] >>}
=============================================================================

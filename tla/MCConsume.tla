----------------------------- MODULE MCConsume -----------------------------
\* One consumer, in each of the three roles; consumers do not touch each other.
EXTENDS Consume

CONSTANTS input, output

MCTopic == {input, output}

MCTopicOf == [c \in Consumer |-> input]
=============================================================================

---------------------------- MODULE AtomicCommit ----------------------------
(***************************************************************************)
(* What the transaction coordinator promises its callers, one transaction  *)
(* at a time: the writes of a transaction are collected while it is open,  *)
(* are fixed once it is sealed, and are then handed out exactly as they    *)
(* were accepted and only once, or never.                                  *)
(***************************************************************************)
EXTENDS Sequences

CONSTANTS TxnId, Write

VARIABLES
  phase,   \* "none", "open", "sealed", "delivered" or "dropped"
  content, \* the writes accepted so far
  output   \* the write lists handed out for application

avars == <<phase, content, output>>

AInit ==
  /\ phase = [x \in TxnId |-> "none"]
  /\ content = [x \in TxnId |-> <<>>]
  /\ output = [x \in TxnId |-> <<>>]

Open(x) ==
  /\ phase[x] = "none"
  /\ phase' = [phase EXCEPT ![x] = "open"]
  /\ UNCHANGED <<content, output>>

Accept(x, w) ==
  /\ phase[x] = "open"
  /\ content' = [content EXCEPT ![x] = Append(@, w)]
  /\ UNCHANGED <<phase, output>>

Seal(x) ==
  /\ phase[x] = "open"
  /\ phase' = [phase EXCEPT ![x] = "sealed"]
  /\ UNCHANGED <<content, output>>

Deliver(x) ==
  /\ phase[x] = "sealed"
  /\ phase' = [phase EXCEPT ![x] = "delivered"]
  /\ output' = [output EXCEPT ![x] = Append(@, content[x])]
  /\ UNCHANGED content

Drop(x) ==
  /\ phase[x] \in {"open", "sealed"}
  /\ phase' = [phase EXCEPT ![x] = "dropped"]
  /\ UNCHANGED <<content, output>>

ANext ==
  \E x \in TxnId :
    \/ Open(x) \/ Seal(x) \/ Deliver(x) \/ Drop(x)
    \/ \E w \in Write : Accept(x, w)

ASpec == AInit /\ [][ANext]_avars
=============================================================================

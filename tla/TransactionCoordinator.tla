----------------------- MODULE TransactionCoordinator -----------------------
(***************************************************************************)
(* The transaction coordinator (crates/broker/src/transactions.rs), called *)
(* by any number of tasks in any order.  Every method holds the write lock *)
(* of `transactions` (or of `producers`) from its first to its last line,  *)
(* so each is one action; Committing and Aborting are never seen from      *)
(* outside.  A call that only returns Err changes nothing and is left out. *)
(* SystemTime is not monotonic: the clock may be set back.                 *)
(***************************************************************************)
EXTENDS Integers, Sequences

CONSTANTS
  TxnId,      \* UUIDs, each drawn once
  Producer,
  Write,
  Time,       \* readings of the system clock
  DefaultTimeout,
  MaxWrites,  \* bound: writes accepted by one transaction
  MaxSeq,     \* bound: sequence numbers handed to one producer
  NoTxn, NoProducer

States == {"Preparing", "Prepared", "Committed", "Aborted", "TimedOut"}

Writes == Seq(Write)

Txn == [producer : Producer, state : States, writes : Writes, started_at : Time]

ASSUME CoordinatorAssumption ==
  /\ Time \subseteq Nat /\ DefaultTimeout \in Nat
  /\ MaxWrites \in Nat /\ MaxSeq \in Nat
  /\ NoTxn \notin Txn /\ NoProducer \notin Nat

VARIABLES
  transactions, \* TxnId -> the transaction, or NoTxn when not in the map
  producers,    \* Producer -> its sequence_number, or NoProducer
  now,          \* the system clock
  begun,        \* history: ids returned by begin_transaction
  accepted,     \* history: writes each transaction answered Ok to
  delivered,    \* history: write lists returned by commit_transaction
  failed,       \* history: ids some caller was told are timed out or aborted
  issued        \* history: numbers handed out by next_sequence

history == <<begun, accepted, delivered, failed, issued>>
vars == <<transactions, producers, now, history>>

Present(x) == transactions[x] # NoTxn

\* Preparing or Prepared
Active(x) == Present(x) /\ transactions[x].state \in {"Preparing", "Prepared"}

\* Transaction::is_timed_out; a start in the future counts as just now.
is_timed_out(x) == now - transactions[x].started_at > DefaultTimeout
-----------------------------------------------------------------------------
Init ==
  /\ transactions = [x \in TxnId |-> NoTxn]
  /\ producers = [p \in Producer |-> NoProducer]
  /\ now \in Time
  /\ begun = {}
  /\ accepted = [x \in TxnId |-> <<>>]
  /\ delivered = [x \in TxnId |-> <<>>]
  /\ failed = {}
  /\ issued = [p \in Producer |-> {}]

SetState(x, s) == transactions' = [transactions EXCEPT ![x].state = s]

\* Mutant of Register: the counter starts over with every transaction.
RegisterAnew(p) == producers' = [producers EXCEPT ![p] = 0]

\* ProducerState::new only when the producer has none yet.
Register(p) ==
  producers' = [producers EXCEPT ![p] = IF @ = NoProducer THEN 0 ELSE @]

\* Mutant of HasActive: a prepared transaction no longer counts.
HasPreparing(p) ==
  \E y \in TxnId : Present(y) /\ transactions[y].state = "Preparing" /\ transactions[y].producer = p

\* The scan at the head of begin_transaction.
HasActive(p) == \E y \in TxnId : Active(y) /\ transactions[y].producer = p

begin_transaction(x, p) ==
  /\ x \notin begun
  /\ ~HasActive(p)
  /\ transactions' = [transactions EXCEPT ![x] =
       [producer |-> p, state |-> "Preparing", writes |-> <<>>, started_at |-> now]]
  /\ Register(p)
  /\ begun' = begun \cup {x}
  /\ UNCHANGED <<now, accepted, delivered, failed, issued>>

\* Mutant of TimeOut: the caller gets its error, the state stays.
TimeOutUnmarked(x) ==
  /\ Present(x) /\ is_timed_out(x)
  /\ failed' = failed \cup {x}
  /\ UNCHANGED <<transactions, producers, now, begun, accepted, delivered, issued>>

\* The timeout branch of add_write and prepare_transaction, taken whatever the
\* state of the transaction.
TimeOut(x) ==
  /\ Present(x) /\ is_timed_out(x)
  /\ SetState(x, "TimedOut")
  /\ failed' = failed \cup {x}
  /\ UNCHANGED <<producers, now, begun, accepted, delivered, issued>>

add_write(x, w) ==
  \/ TimeOut(x)
  \/ /\ Present(x) /\ ~is_timed_out(x)
     /\ transactions[x].state = "Preparing"
     /\ Len(accepted[x]) < MaxWrites
     /\ transactions' = [transactions EXCEPT ![x].writes = Append(@, w)]
     /\ accepted' = [accepted EXCEPT ![x] = Append(@, w)]
     /\ UNCHANGED <<producers, now, begun, delivered, failed, issued>>

prepare_transaction(x) ==
  \/ TimeOut(x)
  \/ /\ Present(x) /\ ~is_timed_out(x)
     /\ transactions[x].state = "Preparing"
     /\ SetState(x, "Prepared")
     /\ UNCHANGED <<producers, now, history>>

\* Mutant of commit_transaction: a repeated commit is answered like the first.
commit_transactionRepeated(x) ==
  /\ Present(x) /\ transactions[x].state \in {"Prepared", "Committed"}
  /\ SetState(x, "Committed")
  /\ delivered' = [delivered EXCEPT ![x] = Append(@, transactions[x].writes)]
  /\ UNCHANGED <<producers, now, begun, accepted, failed, issued>>

commit_transaction(x) ==
  /\ Present(x) /\ transactions[x].state = "Prepared"
  /\ SetState(x, "Committed")
  /\ delivered' = [delivered EXCEPT ![x] = Append(@, transactions[x].writes)]
  /\ UNCHANGED <<producers, now, begun, accepted, failed, issued>>

abort_transaction(x) ==
  /\ Present(x) /\ transactions[x].state # "Committed"
  /\ transactions' = [transactions EXCEPT ![x].state = "Aborted", ![x].writes = <<>>]
  /\ failed' = failed \cup {x}
  /\ UNCHANGED <<producers, now, begun, accepted, delivered, issued>>

next_sequence(p) ==
  /\ producers[p] # NoProducer /\ producers[p] < MaxSeq
  /\ producers' = [producers EXCEPT ![p] = @ + 1]
  /\ issued' = [issued EXCEPT ![p] = @ \cup {producers'[p]}]
  /\ UNCHANGED <<transactions, now, begun, accepted, delivered, failed>>

\* The answer of validate_sequence for a known producer.
validate_sequence(p, n) == n = producers[p] + 1

Retained(x) == Active(x) \/ (Present(x) /\ ~is_timed_out(x))

cleanup_old_transactions ==
  /\ transactions' = [x \in TxnId |-> IF Retained(x) THEN transactions[x] ELSE NoTxn]
  /\ UNCHANGED <<producers, now, history>>

SetClock ==
  /\ now' \in Time \ {now}
  /\ UNCHANGED <<transactions, producers, history>>

Next ==
  \/ \E x \in TxnId :
       \/ \E p \in Producer : begin_transaction(x, p)
       \/ \E w \in Write : add_write(x, w)
       \/ prepare_transaction(x)
       \/ commit_transaction(x)
       \/ abort_transaction(x)
  \/ \E p \in Producer : next_sequence(p)
  \/ cleanup_old_transactions
  \/ SetClock

Spec == Init /\ [][Next]_vars
-----------------------------------------------------------------------------
TypeOK ==
  /\ transactions \in [TxnId -> Txn \cup {NoTxn}]
  /\ producers \in [Producer -> Nat \cup {NoProducer}]
  /\ now \in Time
  /\ begun \subseteq TxnId /\ failed \subseteq TxnId
  /\ accepted \in [TxnId -> Writes]
  /\ delivered \in [TxnId -> Seq(Writes)]
  /\ issued \in [Producer -> SUBSET Nat]

\* A producer has at most one transaction that can still take writes or
\* commit, however begins, timeouts, aborts and cleanups alternate.
OneActivePerProducer ==
  \A x, y \in TxnId :
    Active(x) /\ Active(y) /\ transactions[x].producer = transactions[y].producer => x = y

\* Commit hands out the writes of a transaction once, all of them, in the
\* order in which add_write accepted them.
AllWritesOnce ==
  \A x \in TxnId : delivered[x] \in {<<>>, <<accepted[x]>>}

\* Once a caller was told that a transaction timed out or was aborted, no
\* commit of it hands out writes, and no write is accepted into it.
FailedIsFinal ==
  [][\A x \in failed : delivered'[x] = delivered[x] /\ accepted'[x] = accepted[x]]_vars

\* validate_sequence refuses every number that next_sequence already handed
\* out, so a retried message is not taken twice: begin_transaction keeps the
\* counter of a producer it knows.
DuplicateRefused ==
  \A p \in Producer : \A n \in issued[p] : ~validate_sequence(p, n)
-----------------------------------------------------------------------------
(***************************************************************************)
(* The coordinator implements AtomicCommit.  A transaction counts as       *)
(* delivered from its commit on, also when it is later marked TimedOut or  *)
(* Aborted or is cleaned up.                                               *)
(***************************************************************************)
Phase(x) ==
  IF x \notin begun THEN "none"
  ELSE IF delivered[x] # <<>> THEN "delivered"
  ELSE IF ~Active(x) THEN "dropped"
  ELSE IF transactions[x].state = "Preparing" THEN "open" ELSE "sealed"

Abstract == INSTANCE AtomicCommit WITH
  phase <- [x \in TxnId |-> Phase(x)], content <- accepted, output <- delivered

\* Refinement: every step of the coordinator is a step of AtomicCommit or
\* leaves its state alone.
ImplementsAtomicCommit == Abstract!ASpec
=============================================================================

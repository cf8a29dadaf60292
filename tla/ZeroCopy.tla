------------------------------ MODULE ZeroCopy ------------------------------
(***************************************************************************)
(* ZeroCopyProcessor (crates/core/src/zero_copy.rs): the broker has one,   *)
(* with one input and one output buffer, and publish calls and the flusher *)
(* call process_batch on it side by side.  Each method of ZeroCopyBuffer   *)
(* holds the buffer's lock and is one action; between two of them another  *)
(* task may run.  A message is a sequence of bytes.                        *)
(***************************************************************************)
EXTENDS Integers, Sequences, Lists

CONSTANTS
  Task,
  Batches,     \* the batches passed to process_batch
  batch_size, max_size,
  NoBatch

Byte == 0..255

\* The buffers hold 1 MB each: what fits in them has a length below 2^32.
ASSUME ZeroCopyAssumption ==
  /\ Batches \subseteq Seq(Seq(Byte))
  /\ NoBatch \notin Batches
  /\ batch_size \in Nat
  /\ max_size \in Nat /\ max_size \div 16777216 < 256

VARIABLES
  input_buffer,   \* only its length: nothing reads the bytes
  output_buffer,
  pc,             \* per task: "idle", "input", "length", "message"
  batch, next,    \* per task: the messages and the place of the loop in them
  result,         \* per task: the last answer
  alone           \* history, per task: no other call overlapped this one

processor == <<input_buffer, output_buffer, pc, batch, next, result, alone>>

Err == [ok |-> FALSE, bytes |-> <<>>]

ZInit ==
  /\ input_buffer = 0 /\ output_buffer = <<>>
  /\ pc = [t \in Task |-> "idle"]
  /\ batch = [t \in Task |-> NoBatch]
  /\ next = [t \in Task |-> 1]
  /\ result = [t \in Task |-> Err]
  /\ alone = [t \in Task |-> TRUE]

Goto(t, l) == pc' = [pc EXCEPT ![t] = l]

Return(t, r) == Goto(t, "idle") /\ result' = [result EXCEPT ![t] = r]

\* u32::to_be_bytes
Prefix(n) == <<(n \div 16777216) % 256, (n \div 65536) % 256, (n \div 256) % 256, n % 256>>

\* ZeroCopyBuffer::append accepts n more bytes.
Fits(len, n) == len + n <= max_size
-----------------------------------------------------------------------------
\* The size check, and input_buffer.clear.
process_batch(t, b) ==
  /\ pc[t] = "idle"
  /\ batch' = [batch EXCEPT ![t] = b]
  /\ next' = [next EXCEPT ![t] = 1]
  /\ alone' = [u \in Task |-> IF u = t THEN \A v \in Task \ {t} : pc[v] = "idle"
                              ELSE alone[u] /\ pc[u] = "idle"]
  /\ IF Len(b) > batch_size
     THEN Goto(t, "idle") /\ UNCHANGED input_buffer
     ELSE Goto(t, "input") /\ input_buffer' = 0
  /\ result' = [result EXCEPT ![t] = Err]
  /\ UNCHANGED output_buffer

\* input_buffer.append of one message; ? returns its error.
FillInput(t) ==
  /\ pc[t] = "input" /\ next[t] <= Len(batch[t])
  /\ LET n == Len(batch[t][next[t]])
     IN  IF Fits(input_buffer, n)
         THEN /\ input_buffer' = input_buffer + n
              /\ next' = [next EXCEPT ![t] = @ + 1]
              /\ UNCHANGED <<pc, result>>
         ELSE Return(t, Err) /\ UNCHANGED <<input_buffer, next>>
  /\ UNCHANGED <<output_buffer, batch, alone>>

\* Mutant of ClearOutput: what the last call left stays.
ClearNothing(t) ==
  /\ pc[t] = "input" /\ next[t] > Len(batch[t])
  /\ next' = [next EXCEPT ![t] = 1]
  /\ Goto(t, "length")
  /\ UNCHANGED <<input_buffer, output_buffer, batch, result, alone>>

\* output_buffer.clear
ClearOutput(t) ==
  /\ pc[t] = "input" /\ next[t] > Len(batch[t])
  /\ output_buffer' = <<>>
  /\ next' = [next EXCEPT ![t] = 1]
  /\ Goto(t, "length")
  /\ UNCHANGED <<input_buffer, batch, result, alone>>

\* output_buffer.append of `data`, then on to the next step.
AppendOutput(t, data, then, n) ==
  /\ IF Fits(Len(output_buffer), Len(data))
     THEN /\ output_buffer' = output_buffer \o data
          /\ next' = [next EXCEPT ![t] = n]
          /\ Goto(t, then)
          /\ UNCHANGED result
     ELSE Return(t, Err) /\ UNCHANGED <<output_buffer, next>>
  /\ UNCHANGED <<input_buffer, batch, alone>>

AppendLength(t) ==
  /\ pc[t] = "length" /\ next[t] <= Len(batch[t])
  /\ AppendOutput(t, Prefix(Len(batch[t][next[t]])), "message", next[t])

AppendMessage(t) ==
  /\ pc[t] = "message"
  /\ AppendOutput(t, batch[t][next[t]], "length", next[t] + 1)

\* output_buffer.get_bytes: a copy of what is there now.
GetBytes(t) ==
  /\ pc[t] = "length" /\ next[t] > Len(batch[t])
  /\ Return(t, [ok |-> TRUE, bytes |-> output_buffer])
  /\ UNCHANGED <<input_buffer, output_buffer, batch, next, alone>>

ZNext ==
  \E t \in Task :
    \/ \E b \in Batches : process_batch(t, b)
    \/ FillInput(t) \/ ClearOutput(t) \/ AppendLength(t) \/ AppendMessage(t) \/ GetBytes(t)

ZSpec == ZInit /\ [][ZNext]_processor
-----------------------------------------------------------------------------
\* u32::from_be_bytes
LengthAt(data, o) ==
  16777216 * data[o + 1] + 65536 * data[o + 2] + 256 * data[o + 3] + data[o + 4]

\* A round of the loop of parse_batch; `at` stays what it is once it ended.
ParseRound(data, at) ==
  LET from == at.offset + 4
      end == from + LengthAt(data, at.offset)
      error == [ok |-> FALSE, offset |-> at.offset, messages |-> <<>>]
  IN  IF ~at.ok \/ at.offset >= Len(data) THEN at
      ELSE IF from > Len(data) THEN error
      ELSE IF end > Len(data) THEN error
      ELSE [ok |-> TRUE, offset |-> end,
            messages |-> Append(at.messages, SubSeq(data, from + 1, end))]

\* Every round but the last takes four bytes or more: there are not more
\* rounds than bytes.
parse_batch(data) ==
  LET upTo[i \in 0..Len(data)] ==
        IF i = 0 THEN [ok |-> TRUE, offset |-> 0, messages |-> <<>>]
        ELSE ParseRound(data, upTo[i - 1])
      at == upTo[Len(data)]
  IN  [ok |-> at.ok, messages |-> at.messages]
-----------------------------------------------------------------------------
Bytes(b) == Total([i \in DOMAIN b |-> Len(b[i])])

Answered(t) == pc[t] = "idle" /\ batch[t] # NoBatch

\* A call that no other call overlapped answers what parse_batch takes apart
\* into the same messages, and fails only for a batch that is too large.
AloneIsExact ==
  \A t \in Task : Answered(t) /\ alone[t] =>
    IF result[t].ok
    THEN parse_batch(result[t].bytes) = [ok |-> TRUE, messages |-> batch[t]]
    ELSE Len(batch[t]) > batch_size \/ Bytes(batch[t]) + 4 * Len(batch[t]) > max_size
=============================================================================

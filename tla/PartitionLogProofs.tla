------------------------- MODULE PartitionLogProofs -------------------------
(***************************************************************************)
(* For any number of threads, payloads, policies, crashes and failed       *)
(* writes, records larger than the write buffer included: up to its first  *)
(* torn record the log keeps every offset once and in order, and the queue *)
(* of the partition keeps its offsets, its size and what it hands out; a   *)
(* restart loses nothing that was logged, and nothing leaves the queue but *)
(* by retention or acknowledgement.                                        *)
(***************************************************************************)
EXTENDS PartitionLog, Loops

(***************************************************************************)
(* The inductive invariant.  WalInOrder needs to know what the next append *)
(* writes: a thread about to write holds the lock and, if no record is     *)
(* torn, an entry whose offset is the length of the file; a queue that     *)
(* nobody appends to has that length as its next offset.  A thread between *)
(* the two writes of a large record completes the record it began.         *)
(***************************************************************************)
LogInv ==
  /\ file \in Seq(Record)
  /\ wal \in BOOLEAN /\ next_offset \in Nat
  /\ lock \in Thread \cup {NoThread}
  /\ pc \in [Thread -> {"idle", "append", "wal", "data", "enforce"}]
  /\ entry \in [Thread -> Entry \cup {NoEntry}]
  /\ now \in Time
  /\ WalInOrder
  /\ lock \in Thread => pc[lock] \in {"wal", "data", "enforce"}
  /\ \A t \in Thread :
       /\ pc[t] \in {"wal", "data"} => lock = t /\ entry[t] \in Entry
       /\ pc[t] = "wal" /\ wal /\ Whole(file) => entry[t].offset = Len(file)
       /\ pc[t] = "data" => Len(file) > 0 /\ ~file[Len(file)].whole
  /\ wal /\ lock = NoThread /\ Whole(file) => next_offset = Len(file)

\* f[i] is what the first i entries of s weigh.
Weighed(s, f) ==
  /\ f[0] = 0 /\ \A i \in 0..Len(s) : f[i] \in Nat
  /\ \A i \in 1..Len(s) : f[i] = f[i - 1] + PayloadLen[s[i].payload]

LEMMA EntriesWeigh ==
  ASSUME NEW s \in Seq(Entry)
  PROVE  Len(s) \in Nat /\ \A i \in 1..Len(s) : PayloadLen[s[i].payload] \in Nat
<1>1. \A i \in 1..Len(s) : s[i] \in Entry
  OBVIOUS
<1>2. \A i \in 1..Len(s) : s[i].payload \in Payload
  BY <1>1, Zenon DEF Entry
<1> QED
  BY <1>2, ConstantsAssumption

\* Bytes runs through the entries.
LEMMA BytesRuns ==
  ASSUME NEW s \in Seq(Entry)
  PROVE  \E f : Weighed(s, f) /\ Bytes(s) = f[Len(s)]
<1> DEFINE n == Len(s)
           w == [i \in DOMAIN s |-> PayloadLen[s[i].payload]]
<1>1. n \in Nat /\ DOMAIN s = 1..n
  OBVIOUS
<1>2. w \in [1..n -> Nat] /\ \A i \in 1..n : w[i] = PayloadLen[s[i].payload]
  BY <1>1, EntriesWeigh, Zenon
<1> HIDE DEF w, n
<1>3. w \in Seq(Nat) /\ Len(w) = n
  BY <1>1, <1>2
<1>4. PICK f : Summed(w, f) /\ Total(w) = f[Len(w)] /\ \A i \in 0..Len(w) : f[i] \in Nat
  BY <1>3, TotalRuns, Zenon
<1>5. Weighed(s, f)
  BY <1>2, <1>3, <1>4, Zenon DEF Summed, Weighed, n
<1> QED
  BY <1>3, <1>4, <1>5, Zenon DEF Bytes, w, n

LEMMA BytesNat ==
  ASSUME NEW s \in Seq(Entry)
  PROVE  Bytes(s) \in Nat
<1>1. PICK f : Weighed(s, f) /\ Bytes(s) = f[Len(s)]
  BY BytesRuns, Zenon
<1>2. Len(s) \in 0..Len(s)
  OBVIOUS
<1> QED
  BY <1>1, <1>2, Zenon DEF Weighed

\* The weight of a sequence is that of a first and of a second part of it.
LEMMA BytesSplit ==
  ASSUME NEW s \in Seq(Entry), NEW k \in 0..Len(s)
  PROVE  /\ Bytes(SubSeq(s, 1, k)) \in Nat
         /\ Bytes(s) = Bytes(SubSeq(s, 1, k)) + Bytes(SubSeq(s, k + 1, Len(s)))
<1> DEFINE p == SubSeq(s, 1, k)
           q == SubSeq(s, k + 1, Len(s))
           m == Len(s) - k
<1>1. Len(s) \in Nat /\ k \in Nat /\ m \in Nat
  OBVIOUS
<1>2. p \in Seq(Entry) /\ Len(p) = k /\ \A i \in 1..k : p[i] = s[i]
  BY <1>1
<1>3. q \in Seq(Entry) /\ Len(q) = m /\ \A i \in 1..m : q[i] = s[k + i]
  BY <1>1
<1> HIDE DEF p, q, m
<1>4. PICK f : Weighed(s, f) /\ Bytes(s) = f[Len(s)]
  BY BytesRuns, Zenon
<1>5. PICK g : Weighed(p, g) /\ Bytes(p) = g[Len(p)]
  BY <1>2, BytesRuns, Zenon
<1>6. PICK h : Weighed(q, h) /\ Bytes(q) = h[Len(q)]
  BY <1>3, BytesRuns, Zenon
<1> DEFINE w == [i \in 1..Len(s) |-> PayloadLen[s[i].payload]]
<1>7. \A i \in 1..Len(s) : w[i] = PayloadLen[s[i].payload] /\ w[i] \in Nat
  BY EntriesWeigh, Zenon
<1> HIDE DEF w
<1>8. /\ f[0] = 0 /\ \A i \in 0..Len(s) : f[i] \in Nat
      /\ \A i \in 1..Len(s) : f[i] = f[i - 1] + w[i]
  BY <1>4, <1>7, Zenon DEF Weighed
<1>9. /\ g[0] = 0 /\ \A i \in 0..k : g[i] \in Nat
      /\ \A i \in 1..k : g[i] = g[i - 1] + w[i]
  <2>1. \A i \in 1..k : i \in 1..Len(s)
    BY <1>1
  <2>2. \A i \in 1..k : w[i] = PayloadLen[p[i].payload]
    BY <1>2, <1>7, <2>1, Zenon
  <2> QED
    BY <1>2, <1>5, <2>2, Zenon DEF Weighed
<1>10. /\ h[0] = 0 /\ \A i \in 0..m : h[i] \in Nat
       /\ \A i \in 1..m : h[i] = h[i - 1] + w[k + i]
  <2>1. \A i \in 1..m : k + i \in 1..Len(s)
    BY <1>1 DEF m
  <2>2. \A i \in 1..m : w[k + i] = PayloadLen[q[i].payload]
    BY <1>3, <1>7, <2>1, Zenon
  <2> QED
    BY <1>3, <1>6, <2>2, Zenon DEF Weighed
<1>11. f[k] = g[k]
  <2>1. \A i \in 0..k : f[i] \in Int /\ g[i] \in Int
    BY <1>1, <1>8, <1>9
  <2>2. \A i \in 1..k : f[i] - f[i - 1] = g[i] - g[i - 1]
    <3> TAKE i \in 1..k
    <3>1. i \in 1..Len(s) /\ i \in 0..k /\ i - 1 \in 0..k
      BY <1>1
    <3>2. w[i] \in Nat /\ f[i] = f[i - 1] + w[i] /\ g[i] = g[i - 1] + w[i]
      BY <1>7, <1>8, <1>9, <3>1, Zenon
    <3>3. f[i - 1] \in Int /\ g[i - 1] \in Int
      BY <2>1, <3>1, Zenon
    <3> QED
      BY <3>2, <3>3
  <2> QED
    BY <1>1, <1>8, <1>9, <2>1, <2>2, SameSum, SMTT(30)
<1>12. f[Len(s)] - f[k] = h[m]
  <2> DEFINE e == [i \in 0..m |-> f[k + i] - f[k]]
  <2>1. \A i \in 0..m : k + i \in 0..Len(s)
    BY <1>1 DEF m
  <2>2. f[k] \in Nat /\ \A i \in 0..m : f[k + i] \in Nat
    BY <1>1, <1>8, <2>1, Zenon
  <2>3. \A i \in 0..m : e[i] = f[k + i] - f[k]
    BY Zenon
  <2> HIDE DEF e
  <2>4. \A i \in 0..m : e[i] \in Int /\ h[i] \in Int
    BY <1>10, <2>2, <2>3
  <2>5. e[0] = h[0]
    BY <1>1, <1>10, <2>2, <2>3
  <2>6. \A i \in 1..m : e[i] - e[i - 1] = h[i] - h[i - 1]
    <3> TAKE i \in 1..m
    <3>1. k + i \in 1..Len(s) /\ (k + i) - 1 = k + (i - 1) /\ i - 1 \in 0..m /\ i \in 0..m
      BY <1>1 DEF m
    <3>2. f[k + i] = f[k + (i - 1)] + w[k + i] /\ w[k + i] \in Nat
      BY <1>7, <1>8, <3>1, Zenon
    <3>3. f[k + i] \in Nat /\ f[k + (i - 1)] \in Nat /\ f[k] \in Nat /\ h[i - 1] \in Nat
      BY <1>10, <2>2, <3>1, Zenon
    <3>4. h[i] = h[i - 1] + w[k + i]
      BY <1>10, Zenon
    <3>5. e[i] = f[k + i] - f[k] /\ e[i - 1] = f[k + (i - 1)] - f[k]
      BY <2>3, <3>1, Zenon
    <3>6. e[i] - e[i - 1] = w[k + i]
      <4> DEFINE x == f[k + i]
                 y == f[k + (i - 1)]
                 z == f[k]
                 v == w[k + i]
      <4>1. x = y + v /\ x \in Nat /\ y \in Nat /\ z \in Nat /\ v \in Nat
        BY <3>2, <3>3, Zenon
      <4>2. e[i] = x - z /\ e[i - 1] = y - z
        BY <3>5, Zenon
      <4>3. e[i] - e[i - 1] = v
        <5> HIDE DEF x, y, z, v
        <5> QED
          BY <4>1, <4>2
      <4> QED
        BY <4>3, Zenon
    <3>7. h[i] - h[i - 1] = w[k + i]
      <4>1. \A x, v \in Nat : (x + v) - x = v
        OBVIOUS
      <4>2. (h[i - 1] + w[k + i]) - h[i - 1] = w[k + i]
        BY <3>2, <3>3, <4>1, Zenon
      <4> QED
        BY <3>4, <4>2, Zenon
    <3> QED
      BY <3>6, <3>7, Zenon
  <2>7. e[m] = f[Len(s)] - f[k]
    <3>1. m \in 0..m /\ k + m = Len(s)
      BY <1>1 DEF m
    <3> QED
      BY <2>3, <3>1, Zenon
  <2>8. e[m] = h[m]
    BY <1>1, <2>4, <2>5, <2>6, SameSum, Zenon
  <2> QED
    BY <2>7, <2>8, Zenon
<1>13. f[Len(s)] \in Nat /\ f[k] \in Nat /\ g[k] \in Nat /\ h[m] \in Nat
  <2>1. Len(s) \in 0..Len(s) /\ k \in 0..k /\ k \in 0..Len(s) /\ m \in 0..m
    BY <1>1
  <2> QED
    BY <1>8, <1>9, <1>10, <2>1, Zenon
<1>14. Bytes(p) = g[k] /\ Bytes(q) = h[m]
  BY <1>2, <1>3, <1>5, <1>6, Zenon
<1>15. Bytes(p) \in Nat /\ Bytes(s) = Bytes(p) + Bytes(q)
  BY <1>4, <1>11, <1>12, <1>13, <1>14
<1> QED
  BY <1>15, Zenon DEF p, q

\* Only payloads weigh.
LEMMA BytesSame ==
  ASSUME NEW r \in Seq(Entry), NEW s \in Seq(Entry), Len(r) = Len(s),
         \A i \in 1..Len(s) : r[i].payload = s[i].payload
  PROVE  Bytes(r) = Bytes(s)
<1>1. PICK f : Weighed(r, f) /\ Bytes(r) = f[Len(r)]
  BY BytesRuns, Zenon
<1>2. PICK g : Weighed(s, g) /\ Bytes(s) = g[Len(s)]
  BY BytesRuns, Zenon
<1>3. /\ Len(s) \in Nat /\ f[0] = g[0]
      /\ \A i \in 0..Len(s) : f[i] \in Int /\ g[i] \in Int
  BY <1>1, <1>2 DEF Weighed
<1>4. \A i \in 1..Len(s) : f[i] - f[i - 1] = g[i] - g[i - 1]
  <2> TAKE i \in 1..Len(s)
  <2> DEFINE w == PayloadLen[s[i].payload]
  <2>1. w \in Nat
    BY EntriesWeigh, Zenon
  <2>2. f[i] = f[i - 1] + w /\ g[i] = g[i - 1] + w
    BY <1>1, <1>2, Zenon DEF Weighed
  <2> HIDE DEF w
  <2>3. f[i - 1] \in Int /\ g[i - 1] \in Int
    <3>1. i - 1 \in 0..Len(s)
      BY <1>3
    <3> QED
      BY <1>3, <3>1, Zenon
  <2> QED
    BY <2>1, <2>2, <2>3
<1> QED
  BY <1>1, <1>2, <1>3, <1>4, SameSum, SMTT(30)

\* Unacknowledged keeps entries of the queue only, and all those that nobody
\* has acknowledged.
LEMMA UnacknowledgedKeeps ==
  ASSUME NEW s \in Seq(Entry)
  PROVE  LET u == Unacknowledged(s)
         IN  /\ u \in Seq(Entry)
             /\ \A j \in 1..Len(u) : \E i \in 1..Len(s) : u[j] = s[i]
             /\ \A i \in 1..Len(s) : s[i].acked = {} => \E j \in 1..Len(u) : u[j] = s[i]
<1> DEFINE I == {i \in DOMAIN s : s[i].acked = {}}
           u == Picked(s, I)
<1>1. u \in Seq(Entry) /\ PickedRight(s, I)
  BY PickedIsSeq, PickedKeeps, Zenon
<1>2. DOMAIN s = 1..Len(s) /\ DOMAIN u = 1..Len(u)
  BY <1>1
<1> HIDE DEF u
<1>3. Range(u) = {s[i] : i \in {j \in DOMAIN s : j \in I}}
  BY <1>1, Zenon DEF PickedRight, u
<1>4. \A j \in 1..Len(u) : \E i \in 1..Len(s) : u[j] = s[i]
  BY <1>2, <1>3, Zenon DEF Range
<1>5. \A i \in 1..Len(s) : s[i].acked = {} => \E j \in 1..Len(u) : u[j] = s[i]
  BY <1>2, <1>3, Zenon DEF Range
<1> QED
  BY <1>1, <1>4, <1>5, Zenon DEF Unacknowledged, u

\* Max and Min are what they say on the sets the model applies them to.
LEMMA MaxOfBounded ==
  ASSUME NEW n \in Nat, NEW S \in SUBSET (0..n), S # {}
  PROVE  Max(S) \in S /\ \A y \in S : y <= Max(S)
<1> DEFINE T == {n - x : x \in S}
<1>1. T \in SUBSET Nat /\ T # {}
  <2>1. \A x \in S : n - x \in Nat
    OBVIOUS
  <2> QED
    BY <2>1, Zenon
<1>2. PICK t \in T : \A u \in T : t <= u
  BY <1>1, LeastNatural, Zenon
<1>3. PICK x \in S : \A y \in S : x >= y
  <2>1. PICK x \in S : t = n - x
    BY Zenon
  <2>2. \A y \in S : n - y \in T
    BY Zenon
  <2>3. \A y \in S : t <= n - y
    BY <1>2, <2>2, Zenon
  <2> QED
    BY <2>1, <2>3
<1> QED
  BY <1>3, Zenon DEF Max

LEMMA MinOfNats ==
  ASSUME NEW S \in SUBSET Nat, S # {}
  PROVE  Min(S) \in S /\ \A y \in S : Min(S) <= y
<1>1. PICK x \in S : \A y \in S : x <= y
  BY LeastNatural, Zenon
<1> QED
  BY <1>1, Zenon DEF Min

\* The first free offset after records numbered 0, 1, ..., n - 1 is n: the
\* scan of PartitionQueue::new.
LEMMA OffsetAfterDense ==
  ASSUME NEW n \in Nat, NEW es,
         es \in [1..n -> Entry], es \in Seq(Entry), Len(es) = n,
         \A i \in 1..n : es[i].offset = i - 1
  PROVE  OffsetAfter(es) = n
<1>1. CASE n = 0
  BY <1>1 DEF OffsetAfter
<1>2. CASE n > 0
  <2> DEFINE S == {es[i].offset : i \in 1..Len(es)}
  <2>1. \A x \in S : x \in Int /\ x <= n - 1
    OBVIOUS
  <2>2. n - 1 \in S
    <3>1. n \in 1..Len(es) /\ es[n].offset = n - 1
      BY <1>2
    <3> QED
      BY <3>1, Zenon
  <2> HIDE DEF S
  <2>3. \A x \in S : (\A y \in S : x >= y) => x = n - 1
    BY <2>1, <2>2
  <2>4. \A y \in S : n - 1 >= y
    BY <2>1, Zenon
  <2>5. Max(S) = n - 1
    BY <2>2, <2>3, <2>4, Zenon DEF Max
  <2>6. es # <<>>
    BY <1>2
  <2> QED
    BY <2>5, <2>6 DEF OffsetAfter, S
<1> QED
  BY <1>1, <1>2

\* The scan of PartitionQueue::new finds an offset above all it met, whatever a
\* misread log makes of its entries.
LEMMA OffsetAfterBounded ==
  ASSUME NEW n \in Nat, NEW m \in Nat \ {0}, NEW es, Len(es) = m, es # <<>>,
         \A i \in 1..m : es[i].offset \in 0..n
  PROVE  OffsetAfter(es) \in Nat /\ \A i \in 1..m : es[i].offset < OffsetAfter(es)
<1> DEFINE S == {es[i].offset : i \in 1..Len(es)}
<1>1. S \in SUBSET (0..n)
  BY Zenon
<1>2. S # {}
  <2>1. es[1].offset \in S
    OBVIOUS
  <2> QED
    BY <2>1, Zenon
<1>3. \A i \in 1..m : es[i].offset \in S
  BY Zenon
<1>4. OffsetAfter(es) = 1 + Max(S)
  BY Zenon DEF OffsetAfter
<1> HIDE DEF S
<1>5. Max(S) \in 0..n /\ \A y \in S : y \in 0..n /\ y <= Max(S)
  BY <1>1, <1>2, MaxOfBounded, Zenon
<1>6. \A i \in 1..m : es[i].offset \in 0..n /\ es[i].offset <= Max(S)
  BY <1>3, <1>5, Zenon
<1> QED
  BY <1>4, <1>5, <1>6

LEMMA InitLogInv == Init => LogInv
<1> SUFFICES ASSUME Init PROVE LogInv
  BY Zenon
<1>1. file = <<>> /\ file \in Seq(Record) /\ Len(file) = 0
  BY DEF Init
<1>2. Whole(file) /\ WalInOrder
  BY <1>1 DEF Whole, WalInOrder
<1>3. \A t \in Thread : pc[t] = "idle"
  BY Zenon DEF Init
<1>4. pc \in [Thread -> {"idle", "append", "wal", "data", "enforce"}]
  BY Zenon DEF Init
<1>5. /\ wal = FALSE /\ next_offset = 0 /\ lock = NoThread /\ now \in Time
      /\ entry \in [Thread -> Entry \cup {NoEntry}]
  BY Zenon DEF Init
<1> QED
  BY <1>1, <1>2, <1>3, <1>4, <1>5, ConstantsAssumption, Zenon DEF LogInv

\* WalInOrder of any sequence of records.
InOrder(f) ==
  \A i \in 1..Len(f) : (\A j \in 1..(i - 1) : f[j].whole) => f[i].offset = i - 1

\* A record appended to a log of whole records must carry the number of records
\* so far; after a torn one any record will do.
LEMMA AppendRecord ==
  ASSUME NEW f \in Seq(Record), NEW r \in Record, InOrder(f),
         Whole(f) => r.offset = Len(f)
  PROVE  /\ Append(f, r) \in Seq(Record) /\ InOrder(Append(f, r))
         /\ Len(Append(f, r)) = Len(f) + 1 /\ Append(f, r)[Len(f) + 1] = r
<1> DEFINE g == Append(f, r)
<1>1. /\ g \in Seq(Record) /\ Len(g) = Len(f) + 1 /\ Len(f) \in Nat
      /\ \A i \in 1..Len(f) : g[i] = f[i]
      /\ g[Len(f) + 1] = r
  OBVIOUS
<1> HIDE DEF g
<1>2. ASSUME NEW i \in 1..Len(g), \A j \in 1..(i - 1) : g[j].whole
      PROVE  g[i].offset = i - 1
  <2>1. CASE i \in 1..Len(f)
    <3>1. \A j \in 1..(i - 1) : f[j].whole
      BY <1>1, <1>2, <2>1
    <3> QED
      BY <1>1, <2>1, <3>1, Zenon DEF InOrder
  <2>2. CASE i = Len(f) + 1
    <3>1. Whole(f)
      BY <1>1, <1>2, <2>2 DEF Whole
    <3> QED
      BY <1>1, <2>2, <3>1
  <2> QED
    BY <1>1, <2>1, <2>2
<1> QED
  BY <1>1, <1>2, Zenon DEF InOrder, g

\* Completing the last record leaves every offset where it was.
LEMMA CompleteRecord ==
  ASSUME NEW f \in Seq(Record), Len(f) > 0, InOrder(f)
  PROVE  /\ [f EXCEPT ![Len(f)].whole = TRUE] \in Seq(Record)
         /\ InOrder([f EXCEPT ![Len(f)].whole = TRUE])
<1> DEFINE g == [f EXCEPT ![Len(f)].whole = TRUE]
<1>1. Len(f) \in Nat /\ Len(f) \in 1..Len(f) /\ f \in [1..Len(f) -> Record]
  OBVIOUS
<1>2. [f[Len(f)] EXCEPT !.whole = TRUE] \in Record
  BY <1>1, Zenon DEF Record
<1>3. g \in [1..Len(f) -> Record] /\ g \in Seq(Record) /\ Len(g) = Len(f)
  BY <1>1, <1>2
<1>4. \A i \in 1..Len(f) : g[i].offset = f[i].offset /\ (i # Len(f) => g[i] = f[i])
  BY <1>1, Zenon DEF Record
<1> HIDE DEF g
<1>5. ASSUME NEW i \in 1..Len(g), \A j \in 1..(i - 1) : g[j].whole
      PROVE  g[i].offset = i - 1
  <2>1. \A j \in 1..(i - 1) : j \in 1..Len(f) /\ j # Len(f)
    <3>1. i \in Nat /\ i <= Len(f) /\ Len(f) \in Nat
      BY <1>1, <1>3
    <3> QED
      BY <3>1
  <2>2. \A j \in 1..(i - 1) : f[j].whole
    BY <1>4, <1>5, <2>1, Zenon
  <2> QED
    BY <1>3, <1>4, <2>2, Zenon DEF InOrder
<1> QED
  BY <1>3, <1>5, Zenon DEF InOrder, g

\* Recovery takes up the numbering where a log of whole records ends, with their
\* entries; in any other it finds entries and a number above theirs.
LEMMA RecoveredOffset ==
  ASSUME LogInv, NEW es \in read_all(file)
  PROVE  /\ OffsetAfter(es) \in Nat /\ es \in Seq(Entry)
         /\ \A i \in 1..Len(es) : es[i].offset < OffsetAfter(es)
         /\ Whole(file) =>
              /\ OffsetAfter(es) = Len(file) /\ Len(es) = Len(file)
              /\ \A i \in 1..Len(file) : es[i] = EntryOf(file[i])
<1> USE ConstantsAssumption
<1>1. Len(file) \in Nat /\ \A i \in 1..Len(file) : file[i] \in Record
  BY DEF LogInv
<1>2. CASE Whole(file)
  <2>1. es = [i \in 1..Len(file) |-> EntryOf(file[i])]
    BY <1>2, Zenon DEF read_all
  <2>2. \A i \in 1..Len(file) : file[i].offset = i - 1
    BY <1>1, <1>2 DEF LogInv, WalInOrder, Whole
  <2>3. /\ es \in [1..Len(file) -> Entry] /\ es \in Seq(Entry) /\ Len(es) = Len(file)
        /\ \A i \in 1..Len(file) : es[i].offset = i - 1
    BY <1>1, <2>1, <2>2 DEF EntryOf, Record, Entry
  <2>4. OffsetAfter(es) = Len(file)
    BY <1>1, <2>3, OffsetAfterDense, Zenon
  <2>5. \A i \in 1..Len(file) : es[i] = EntryOf(file[i])
    BY <2>1, Zenon
  <2> QED
    BY <1>1, <2>3, <2>4, <2>5
<1>3. CASE ~Whole(file)
  <2> DEFINE Torn == {i \in 1..Len(file) : ~file[i].whole}
             tear == Min(Torn)
  <2>1. Torn \in SUBSET Nat /\ Torn # {}
    BY <1>1, <1>3 DEF Whole
  <2>2. tear \in Torn /\ \A i \in Torn : tear <= i
    BY <2>1, MinOfNats, Zenon
  <2>3. PICK g \in [offset : 0..MaxOffset, payload : Payload, timestamp : Time, whole : {TRUE}] :
          es = [i \in 1..tear |-> IF i = tear THEN EntryOf(g) ELSE EntryOf(file[i])]
    BY <1>3, Zenon DEF read_all, Misread
  <2>4. tear \in 1..Len(file) /\ \A i \in 1..(tear - 1) : file[i].whole
    <3>1. tear \in 1..Len(file)
      BY <2>2, Zenon
    <3> HIDE DEF tear
    <3>2. \A i \in 1..(tear - 1) : i \in 1..Len(file) /\ ~(tear <= i)
      BY <1>1, <3>1
    <3> QED
      BY <2>2, <3>1, <3>2, Zenon
  <2> HIDE DEF Torn, tear
  <2>5. Len(es) = tear /\ DOMAIN es = 1..tear
    <3>1. tear \in Nat
      BY <1>1, <2>4
    <3> QED
      BY <2>3, <3>1
  <2>6. \A i \in 1..tear : es[i].offset \in 0..(MaxOffset + Len(file))
    <3> TAKE i \in 1..tear
    <3>1. CASE i = tear
      BY <1>1, <2>3, <3>1 DEF EntryOf
    <3>2. CASE i # tear
      <4>1. i \in 1..Len(file) /\ \A j \in 1..(i - 1) : file[j].whole
        BY <1>1, <2>4, <3>2
      <4>2. file[i].offset = i - 1
        BY <4>1, Zenon DEF LogInv, WalInOrder
      <4> QED
        BY <1>1, <2>3, <3>2, <4>1, <4>2 DEF EntryOf
    <3> QED
      BY <3>1, <3>2, Zenon
  <2>7. tear \in Nat \ {0} /\ MaxOffset + Len(file) \in Nat /\ es # <<>>
    BY <1>1, <2>4, <2>5
  <2>8. es \in Seq(Entry)
    <3>1. EntryOf(g) \in Entry
      BY DEF EntryOf, Entry
    <3>2. \A i \in 1..tear : EntryOf(file[i]) \in Entry
      <4>1. \A i \in 1..tear : file[i] \in Record
        BY <1>1, <2>4
      <4> QED
        BY <4>1, Zenon DEF EntryOf, Entry, Record
    <3>3. es \in [1..tear -> Entry]
      BY <2>3, <3>1, <3>2, Zenon
    <3> QED
      BY <2>7, <3>3
  <2> QED
    BY <1>3, <2>5, <2>6, <2>7, <2>8, OffsetAfterBounded, Zenon
<1> QED
  BY <1>2, <1>3, Zenon

\* Every step keeps the invariant; only create_partition, the steps of append
\* and a crash touch what it speaks of.
LEMMA NextLogInv ==
  ASSUME LogInv, [Next]_vars
  PROVE  LogInv'
<1> USE ConstantsAssumption
<1>1. CASE create_partition
  <2>1. lock = NoThread
    BY <1>1, Zenon DEF create_partition, LogInv
  <2>2. /\ wal' \in BOOLEAN /\ next_offset' \in Nat
        /\ wal' /\ Whole(file) => next_offset' = Len(file)
    <3>1. CASE \E es \in read_all(file) : NewQueue(TRUE, es)
      BY <3>1, RecoveredOffset, Zenon DEF NewQueue
    <3>2. CASE ~Whole(file) /\ NewQueue(TRUE, <<>>)
      BY <3>2, Zenon DEF NewQueue, OffsetAfter
    <3>3. CASE NewQueue(FALSE, <<>>)
      BY <3>3, Zenon DEF NewQueue, OffsetAfter
    <3> QED
      BY <1>1, <3>1, <3>2, <3>3, Zenon DEF create_partition
  <2> QED
    BY <1>1, <2>1, <2>2, Zenon DEF create_partition, LogInv, Whole, WalInOrder
<1>2. ASSUME NEW t \in Thread, CallAppend(t)
      PROVE  LogInv'
  <2>1. /\ UNCHANGED <<file, wal, next_offset, lock, entry, now>>
        /\ pc' = [pc EXCEPT ![t] = "append"] /\ pc[t] = "idle"
    BY <1>2, Zenon DEF CallAppend, queue
  <2> QED
    BY <2>1, Zenon DEF LogInv, Whole, WalInOrder
<1>3. ASSUME NEW t \in Thread, NEW p \in Payload, AppendLock(t, p)
      PROVE  LogInv'
  <2>1. /\ pc[t] = "append" /\ lock = NoThread /\ lock' = t
        /\ next_offset' = next_offset + 1 /\ UNCHANGED <<file, wal, now>>
        /\ pc' = [pc EXCEPT ![t] = "wal"]
    BY <1>3, Zenon DEF AppendLock
  <2>2. /\ entry' \in [Thread -> Entry \cup {NoEntry}]
        /\ entry'[t] \in Entry /\ entry'[t].offset = next_offset
    BY <1>3, Zenon DEF AppendLock, LogInv, Entry
  <2>3. \A u \in Thread : pc'[u] \in {"wal", "data"} => u = t /\ pc'[u] = "wal"
    BY <2>1, Zenon DEF LogInv
  <2>4. WalInOrder' /\ Whole(file)' = Whole(file) /\ pc'[t] = "wal"
    BY <2>1, Zenon DEF LogInv, WalInOrder, Whole
  <2>5. wal /\ Whole(file) => entry'[t].offset = Len(file)
    BY <2>1, <2>2, Zenon DEF LogInv
  <2>6. \A u \in Thread :
          /\ pc'[u] \in {"wal", "data"} => lock' = u /\ entry'[u] \in Entry
          /\ pc'[u] = "wal" /\ wal' /\ Whole(file)' => entry'[u].offset = Len(file')
          /\ pc'[u] = "data" => Len(file') > 0 /\ ~file'[Len(file')].whole
    BY <2>1, <2>2, <2>3, <2>4, <2>5, Zenon
  <2>7. pc' \in [Thread -> {"idle", "append", "wal", "data", "enforce"}] /\ lock' # NoThread
    BY <2>1, Zenon DEF LogInv
  <2> QED
    BY <2>1, <2>2, <2>4, <2>6, <2>7 DEF LogInv
<1>4. ASSUME NEW t \in Thread, pc[t] = "wal", wal, NEW w \in BOOLEAN,
             file' = Append(file, RecordOf(entry[t], w))
      PROVE  /\ file' \in Seq(Record) /\ WalInOrder' /\ lock = t
             /\ Len(file') > 0 /\ file'[Len(file')].whole = w
  <2>1. PICK r \in Record : /\ r.whole = w /\ file' = Append(file, r)
                            /\ Whole(file) => r.offset = Len(file)
    BY <1>4 DEF LogInv, RecordOf, Record, Entry
  <2>2. file \in Seq(Record) /\ InOrder(file) /\ lock = t
    BY <1>4, Zenon DEF LogInv, WalInOrder, InOrder
  <2>3. /\ file' \in Seq(Record) /\ InOrder(file')
        /\ Len(file') = Len(file) + 1 /\ file'[Len(file) + 1] = r
    BY <2>1, <2>2, AppendRecord, Zenon
  <2>4. WalInOrder'
    BY <2>3, Zenon DEF WalInOrder, InOrder
  <2>5. Len(file) \in Nat
    BY <2>2
  <2> QED
    BY <2>1, <2>2, <2>3, <2>4, <2>5
<1>5. ASSUME NEW t \in Thread, AppendPrefix(t)
      PROVE  LogInv'
  <2>1. /\ file' \in Seq(Record) /\ WalInOrder' /\ lock = t
        /\ Len(file') > 0 /\ ~file'[Len(file')].whole
    BY <1>4, <1>5, Zenon DEF AppendPrefix
  <2> QED
    BY <1>5, <2>1, Zenon DEF AppendPrefix, LogInv, queue
<1>6. ASSUME NEW t \in Thread, AppendPush(t)
      PROVE  LogInv'
  <2>1. file' \in Seq(Record) /\ WalInOrder' /\ lock = t
    <3>1. CASE UNCHANGED file
      BY <1>6, <3>1, Zenon DEF AppendPush, WalWritten, LogInv, WalInOrder
    <3>2. CASE pc[t] = "wal" /\ wal /\ file' = Append(file, RecordOf(entry[t], TRUE))
      BY <1>4, <3>2, Zenon
    <3>3. CASE pc[t] = "data" /\ file' = [file EXCEPT ![Len(file)].whole = TRUE]
      <4>1. file \in Seq(Record) /\ InOrder(file) /\ lock = t /\ Len(file) > 0
        BY <3>3, Zenon DEF LogInv, WalInOrder, InOrder
      <4> QED
        BY <3>3, <4>1, CompleteRecord, Zenon DEF WalInOrder, InOrder
    <3> QED
      BY <1>6, <3>1, <3>2, <3>3, Zenon DEF AppendPush, WalWritten
  <2> QED
    BY <1>6, <2>1, Zenon DEF AppendPush, LogInv
<1>7. ASSUME NEW t \in Thread, enforce_retention_policy(t)
      PROVE  LogInv'
  BY <1>7, Zenon DEF enforce_retention_policy, LogInv, Whole, WalInOrder
<1>8. ASSUME NEW t \in Thread, NEW p \in Policy, update_retention_policy(t, p)
      PROVE  LogInv'
  BY <1>8, Zenon DEF update_retention_policy, LogInv, queue, Whole, WalInOrder
<1>9. ASSUME NEW t \in Thread, cleanup_old_messages(t)
      PROVE  LogInv'
  BY <1>9, Zenon DEF cleanup_old_messages, LogInv, queue, Whole, WalInOrder
<1>10. ASSUME UNCHANGED <<file, wal, next_offset, lock, pc, entry>>, now' \in Time
      PROVE  LogInv'
  BY <1>10, Zenon DEF LogInv, Whole, WalInOrder
<1>11. ASSUME NEW c \in Consumer, NEW o \in 0..MaxOffset,
              acknowledge(c, o) \/ update_consumer_offset(c, o)
       PROVE  LogInv'
  BY <1>10, <1>11, Zenon DEF acknowledge, update_consumer_offset, queue, LogInv
<1>12. CASE cleanup \/ SetClock \/ UNCHANGED vars
  BY <1>10, <1>12, Zenon DEF cleanup, SetClock, vars, queue, LogInv
<1>13. CASE Crash
  BY <1>13, Zenon DEF Crash, NoQueue, LogInv, Whole, WalInOrder
<1>14. ASSUME NEW c \in Consumer, read_from_offset(c)
       PROVE  LogInv'
  BY <1>10, <1>14, Zenon DEF read_from_offset, queue, LogInv
<1>15. CASE create_topic
  BY <1>15, Zenon DEF create_topic, NoQueue, LogInv, Whole, WalInOrder
<1> QED
  BY <1>1, <1>2, <1>3, <1>5, <1>6, <1>7, <1>8, <1>9, <1>11, <1>12, <1>13, <1>14, <1>15, Zenon
     DEF Next, Step

\* Whatever the threads, crashes, restarts, failed and torn writes do, the log
\* file holds offsets 0, 1, 2, ... in order up to its first torn record
\* (PartitionQueue::new and ::append).
THEOREM LogStaysInOrder == Spec => []WalInOrder
<1>1. LogInv => WalInOrder
  BY Zenon DEF LogInv
<1> QED
  BY <1>1, InitLogInv, NextLogInv, PTL DEF Spec
-----------------------------------------------------------------------------
\* The log has a record of that offset and payload.
Logged(o, p) == \E i \in 1..Len(file) : file[i].offset = o /\ file[i].payload = p

(***************************************************************************)
(* The inductive invariant for the queue.  While nobody appends, the queue *)
(* of an intact log holds logged messages only; what readers were given    *)
(* stays logged while no record but the last, which its writer may still   *)
(* complete, is torn.                                                      *)
(***************************************************************************)
QueueInv ==
  /\ messages \in Seq(Entry) /\ current_size \in Int
  /\ seen \subseteq Nat \X Payload
  /\ policy \in Policy /\ retention_policy \in Policy
  /\ QueueOffsetsFresh
  /\ QueueSizeAccurate
  /\ \A t \in Thread : pc[t] \in {"wal", "data"} => entry[t].offset < next_offset
  /\ Whole(file) /\ lock = NoThread =>
       \A i \in 1..Len(messages) : Logged(messages[i].offset, messages[i].payload)
  /\ (\A i \in 1..(Len(file) - 1) : file[i].whole) => \A a \in seen : Logged(a[1], a[2])

\* An empty queue weighs nothing.
LEMMA NoBytes == Bytes(<<>>) = 0
<1>1. <<>> \in Seq(Entry) /\ Len(<<>>) = 0
  OBVIOUS
<1>2. PICK f : Weighed(<<>>, f) /\ Bytes(<<>>) = f[Len(<<>>)]
  BY <1>1, BytesRuns, Zenon
<1> QED
  BY <1>1, <1>2, Zenon DEF Weighed

LEMMA InitQueueInv == Init => QueueInv
<1> SUFFICES ASSUME Init PROVE QueueInv
  BY Zenon
<1>1. messages = <<>> /\ messages \in Seq(Entry) /\ Len(messages) = 0
  BY DEF Init
<1>2. current_size = 0 /\ seen = {} /\ \A t \in Thread : pc[t] = "idle"
  BY Zenon DEF Init
<1>3. QueueOffsetsFresh /\ QueueSizeAccurate
  BY <1>1, <1>2, NoBytes DEF QueueOffsetsFresh, QueueSizeAccurate
<1>4. policy \in Policy /\ retention_policy \in Policy
  BY ConstantsAssumption, Zenon DEF Init
<1> QED
  BY <1>1, <1>2, <1>3, <1>4 DEF QueueInv

\* The places that remain after an eviction: enforce_retention_policy drops some
\* first part of the queue, and its weight from current_size.  Every message
\* dropped was too old, or the queue too large when its turn came.
LEMMA Evicts ==
  ASSUME LogInv, QueueInv, NEW t \in Thread, enforce_retention_policy(t)
  PROVE  \E k \in 0..Len(messages) :
           /\ messages' = SubSeq(messages, k + 1, Len(messages))
           /\ current_size' = Bytes(messages')
           /\ \A i \in 1..k :
                \/ now - messages[i].timestamp > retention_policy.max_age
                \/ current_size > retention_policy.max_bytes
<1> DEFINE K == {j \in 0..Len(messages) : Kept(j)}
           k == Min(K)
<1>1. messages \in Seq(Entry) /\ Len(messages) \in Nat /\ current_size = Bytes(messages)
  BY DEF QueueInv, QueueSizeAccurate, enforce_retention_policy
<1>2. K \in SUBSET Nat /\ Len(messages) \in K
  BY <1>1 DEF Kept
<1>3. k \in K /\ \A j \in K : k <= j
  <2> HIDE DEF K
  <2> QED
    BY <1>2, MinOfNats, Zenon
<1>4. /\ messages' = SubSeq(messages, k + 1, Len(messages))
      /\ current_size' = current_size - Bytes(SubSeq(messages, 1, k))
  BY Zenon DEF enforce_retention_policy
<1>5. k \in 0..Len(messages) /\ \A j \in 0..(k - 1) : ~Kept(j)
  <2>1. k \in 0..Len(messages)
    BY <1>3, Zenon
  <2> HIDE DEF k
  <2>2. \A j \in 0..(k - 1) : j \in 0..Len(messages) /\ ~(k <= j)
    BY <1>1, <2>1
  <2> QED
    BY <1>3, <2>1, <2>2, Zenon
<1> HIDE DEF k, K
<1>6. /\ Bytes(SubSeq(messages, 1, k)) \in Nat
      /\ Bytes(messages) = Bytes(SubSeq(messages, 1, k)) + Bytes(messages')
  BY <1>1, <1>4, <1>5, BytesSplit, Zenon
<1>7. current_size' = Bytes(messages')
  <2>1. messages' \in Seq(Entry)
    BY <1>1, <1>4, <1>5
  <2>2. Bytes(messages') \in Nat
    BY <2>1, BytesNat, Zenon
  <2> QED
    BY <1>1, <1>4, <1>6, <2>2
<1>8. ASSUME NEW i \in 1..k
      PROVE  \/ now - messages[i].timestamp > retention_policy.max_age
             \/ current_size > retention_policy.max_bytes
  <2> DEFINE b == Bytes(SubSeq(messages, 1, i - 1))
  <2>1. i - 1 \in 0..(k - 1) /\ i - 1 \in 0..Len(messages) /\ (i - 1) + 1 = i
    BY <1>1, <1>5
  <2>2. Evictable(messages[i], current_size - b)
    BY <1>5, <2>1, Zenon DEF Kept
  <2>3. b \in Nat
    BY <1>1, <2>1, BytesSplit, Zenon
  <2> HIDE DEF b
  <2>4. CASE current_size - b > retention_policy.max_bytes
    <3>1. retention_policy.max_bytes \in Nat /\ current_size \in Int
      BY ConstantsAssumption, Zenon DEF QueueInv
    <3> QED
      BY <2>3, <2>4, <3>1
  <2> QED
    BY <2>2, <2>4, Zenon DEF Evictable
<1> QED
  BY <1>4, <1>5, <1>7, <1>8, Zenon

\* The queue of a step that leaves the file and the lock alone holds no message
\* that was not there, and what it holds is weighed.
LEMMA QueueKept ==
  ASSUME LogInv, QueueInv, messages' \in Seq(Entry), current_size' \in Int,
         UNCHANGED <<file, next_offset, lock, seen, policy, retention_policy>>,
         \A t \in Thread : pc'[t] \in {"wal", "data"} => pc[t] = pc'[t] /\ entry'[t] = entry[t],
         \A j \in 1..Len(messages') : \E i \in 1..Len(messages) :
           /\ messages'[j].offset = messages[i].offset
           /\ messages'[j].payload = messages[i].payload,
         lock = NoThread => current_size' = Bytes(messages')
  PROVE  QueueInv'
<1>1. QueueOffsetsFresh'
  BY Zenon DEF QueueInv, QueueOffsetsFresh
<1>2. QueueSizeAccurate'
  BY Zenon DEF QueueSizeAccurate
<1>3. (Whole(file) /\ lock = NoThread =>
         \A i \in 1..Len(messages) : Logged(messages[i].offset, messages[i].payload))'
  BY DEF QueueInv, Whole, Logged
<1>4. ((\A i \in 1..(Len(file) - 1) : file[i].whole) => \A a \in seen : Logged(a[1], a[2]))'
  BY Zenon DEF QueueInv, Logged
<1>5. \A t \in Thread : pc'[t] \in {"wal", "data"} => entry'[t].offset < next_offset'
  BY Zenon DEF QueueInv
<1> QED
  BY <1>1, <1>2, <1>3, <1>4, <1>5, Zenon DEF QueueInv

\* A new queue holds what is in an intact log, with its weight.
LEMMA NewQueueInv ==
  ASSUME LogInv, QueueInv, create_partition
  PROVE  QueueInv'
<1>1. /\ lock = NoThread /\ UNCHANGED <<file, lock, pc, entry, seen, policy>>
      /\ \A t \in Thread : pc[t] = "idle"
  BY Zenon DEF create_partition, LogInv, storage, history
<1>2. /\ messages' \in Seq(Entry) /\ current_size' = Bytes(messages')
      /\ retention_policy' = policy
      /\ \A i \in 1..Len(messages') : messages'[i].offset < next_offset'
      /\ Whole(file) =>
           \A i \in 1..Len(messages') :
             /\ i \in 1..Len(file)
             /\ messages'[i].offset = file[i].offset
             /\ messages'[i].payload = file[i].payload
  <2>1. CASE \E es \in read_all(file) : NewQueue(TRUE, es)
    <3>1. PICK es \in read_all(file) : NewQueue(TRUE, es)
      BY <2>1, Zenon
    <3>2. /\ messages' = es /\ current_size' = Bytes(es)
          /\ next_offset' = OffsetAfter(es) /\ retention_policy' = policy
      BY <3>1, Zenon DEF NewQueue
    <3>3. /\ es \in Seq(Entry)
          /\ \A i \in 1..Len(es) : es[i].offset < OffsetAfter(es)
          /\ Whole(file) =>
               Len(es) = Len(file) /\ \A i \in 1..Len(file) : es[i] = EntryOf(file[i])
      BY RecoveredOffset, Zenon
    <3>4. \A r : EntryOf(r).offset = r.offset /\ EntryOf(r).payload = r.payload
      BY Zenon DEF EntryOf
    <3>5. Whole(file) => \A i \in 1..Len(es) :
            i \in 1..Len(file) /\ es[i].offset = file[i].offset /\ es[i].payload = file[i].payload
      BY <3>3, <3>4, Zenon
    <3> QED
      BY <3>2, <3>3, <3>5, Zenon
  <2>2. CASE \E w \in BOOLEAN : NewQueue(w, <<>>)
    <3>1. /\ messages' = <<>> /\ current_size' = Bytes(<<>>) /\ retention_policy' = policy
      BY <2>2, Zenon DEF NewQueue
    <3>2. messages' \in Seq(Entry) /\ Len(messages') = 0
      BY <3>1
    <3> QED
      BY <3>1, <3>2
  <2>3. (\E es \in read_all(file) : NewQueue(TRUE, es)) \/ (\E w \in BOOLEAN : NewQueue(w, <<>>))
    <3> HIDE DEF NewQueue
    <3> QED
      BY Zenon DEF create_partition
  <2> QED
    BY <2>1, <2>2, <2>3, Zenon
<1>3. current_size' \in Int
  BY <1>2, BytesNat
<1>4. QueueOffsetsFresh' /\ QueueSizeAccurate'
  BY <1>2, Zenon DEF QueueOffsetsFresh, QueueSizeAccurate
<1>5. (Whole(file) /\ lock = NoThread =>
         \A i \in 1..Len(messages) : Logged(messages[i].offset, messages[i].payload))'
  BY <1>1, <1>2, Zenon DEF Whole, Logged
<1>6. ((\A i \in 1..(Len(file) - 1) : file[i].whole) => \A a \in seen : Logged(a[1], a[2]))'
  BY <1>1, Zenon DEF QueueInv, Logged
<1> QED
  BY <1>1, <1>2, <1>3, <1>4, <1>5, <1>6, Zenon DEF QueueInv

\* A record added to the log, or the last one completed, takes no other away.
LEMMA LogGrows ==
  ASSUME LogInv, NEW t \in Thread, AppendPrefix(t) \/ AppendPush(t)
  PROVE  /\ \A o, p : Logged(o, p) => Logged(o, p)'
         /\ (\A i \in 1..(Len(file') - 1) : file'[i].whole)
              => \A i \in 1..(Len(file) - 1) : file[i].whole
<1>1. file \in Seq(Record) /\ Len(file) \in Nat
  BY DEF LogInv
<1>2. CASE UNCHANGED file
  BY <1>2, Zenon DEF Logged
<1>3. ASSUME NEW r, file' = Append(file, r)
      PROVE  /\ \A o, p : Logged(o, p) => Logged(o, p)'
             /\ (\A i \in 1..(Len(file') - 1) : file'[i].whole)
                  => \A i \in 1..(Len(file) - 1) : file[i].whole
  <2>1. Len(file') = Len(file) + 1 /\ \A i \in 1..Len(file) : file'[i] = file[i]
    BY <1>1, <1>3
  <2>2. \A i \in 1..Len(file) : i \in 1..Len(file') /\ i \in 1..(Len(file') - 1)
    BY <1>1, <2>1
  <2>3. \A i \in 1..(Len(file) - 1) : i \in 1..Len(file)
    BY <1>1
  <2> QED
    BY <2>1, <2>2, <2>3, Zenon DEF Logged
<1>4. CASE pc[t] = "data" /\ file' = [file EXCEPT ![Len(file)].whole = TRUE]
  <2>1. Len(file) > 0
    BY <1>4, Zenon DEF LogInv
  <2>2. Len(file) \in 1..Len(file) /\ file \in [1..Len(file) -> Record]
    BY <1>1, <2>1
  <2>3. Len(file') = Len(file)
    BY <1>1, <1>4, <2>2
  <2>4. \A i \in 1..Len(file) :
          /\ file'[i].offset = file[i].offset /\ file'[i].payload = file[i].payload
          /\ i # Len(file) => file'[i] = file[i]
    BY <1>4, <2>2, Zenon DEF Record
  <2>5. \A i \in 1..(Len(file) - 1) : i \in 1..Len(file) /\ i # Len(file)
    BY <1>1
  <2>6. \A o, p : Logged(o, p) => Logged(o, p)'
    <3> SUFFICES ASSUME NEW o, NEW p, Logged(o, p) PROVE Logged(o, p)'
      BY Zenon
    <3>1. PICK i \in 1..Len(file) : file[i].offset = o /\ file[i].payload = p
      BY Zenon DEF Logged
    <3>2. file'[i].offset = o /\ file'[i].payload = p
      BY <2>4, <3>1, Zenon
    <3>3. i \in 1..Len(file')
      BY <2>3, Zenon
    <3> QED
      BY <3>2, <3>3, Zenon DEF Logged
  <2>7. \A i \in 1..(Len(file) - 1) : file'[i] = file[i]
    BY <2>4, <2>5, Zenon
  <2>8. \A i \in 1..(Len(file) - 1) : i \in 1..(Len(file') - 1)
    BY <2>3, Zenon
  <2> QED
    BY <2>6, <2>7, <2>8, Zenon
<1> QED
  BY <1>2, <1>3, <1>4, Zenon DEF AppendPrefix, AppendPush, WalWritten

\* Every step keeps the invariant.
LEMMA NextQueueInv ==
  ASSUME LogInv, QueueInv, [Next]_vars
  PROVE  QueueInv'
<1> USE ConstantsAssumption
<1>1. CASE create_partition
  BY <1>1, NewQueueInv, Zenon
<1>2. ASSUME UNCHANGED <<file, messages, current_size, next_offset, lock, entry, seen,
                         retention_policy>>,
             policy' \in Policy,
             \A t \in Thread : pc'[t] \in {"wal", "data"} => pc[t] = pc'[t]
      PROVE  QueueInv'
  BY <1>2, Zenon DEF QueueInv, QueueOffsetsFresh, QueueSizeAccurate, Whole, Logged
<1>3. ASSUME NEW t \in Thread,
             CallAppend(t) \/ cleanup_old_messages(t)
               \/ \E p \in Policy : update_retention_policy(t, p)
      PROVE  QueueInv'
  <2>1. /\ UNCHANGED <<file, messages, current_size, next_offset, lock, entry, seen,
                       retention_policy>>
        /\ policy' \in Policy
        /\ \E l \in {"append", "enforce", "idle"} : pc' = [pc EXCEPT ![t] = l]
    BY <1>3, Zenon DEF CallAppend, cleanup_old_messages, update_retention_policy, queue, storage,
                history, QueueInv
  <2>2. \A u \in Thread : pc'[u] \in {"wal", "data"} => pc[u] = pc'[u]
    BY <2>1, Zenon DEF LogInv
  <2> QED
    BY <1>2, <2>1, <2>2, Zenon
<1>4. ASSUME NEW c \in Consumer, NEW o \in 0..MaxOffset, update_consumer_offset(c, o)
      PROVE  QueueInv'
  BY <1>2, <1>4, Zenon DEF update_consumer_offset, queue, history, QueueInv
<1>5. CASE SetClock \/ UNCHANGED vars
  BY <1>2, <1>5, Zenon DEF SetClock, vars, queue, storage, history, QueueInv
<1>6. ASSUME NEW t \in Thread, NEW p \in Payload, AppendLock(t, p)
      PROVE  QueueInv'
  <2>1. /\ UNCHANGED <<file, messages, current_size, seen, policy, retention_policy>>
        /\ lock' = t /\ lock' # NoThread /\ next_offset' = next_offset + 1 /\ next_offset \in Nat
    BY <1>6, Zenon DEF AppendLock, storage, history, LogInv
  <2>2. \A i \in 1..Len(messages) : messages[i].offset \in Nat
    <3>1. \A i \in 1..Len(messages) : messages[i] \in Entry
      BY DEF QueueInv
    <3> QED
      BY <3>1, Zenon DEF Entry
  <2>3. QueueOffsetsFresh'
    <3>1. \A a, b \in Nat : a < b => a < b + 1
      OBVIOUS
    <3> QED
      BY <2>1, <2>2, <3>1, Zenon DEF QueueInv, QueueOffsetsFresh
  <2>4. \A u \in Thread : pc'[u] \in {"wal", "data"} => entry'[u].offset < next_offset'
    <3>1. entry'[t].offset = next_offset
      BY <1>6, Zenon DEF AppendLock, LogInv
    <3>2. \A u \in Thread \ {t} : pc'[u] = pc[u] /\ pc[u] \notin {"wal", "data"}
      BY <1>6, Zenon DEF AppendLock, LogInv
    <3> QED
      BY <2>1, <3>1, <3>2
  <2>5. ((\A i \in 1..(Len(file) - 1) : file[i].whole) => \A a \in seen : Logged(a[1], a[2]))'
    BY <2>1, Zenon DEF QueueInv, Logged
  <2> QED
    BY <2>1, <2>3, <2>4, <2>5, Zenon DEF QueueInv, QueueSizeAccurate
<1>7. ASSUME NEW t \in Thread, AppendPrefix(t)
      PROVE  QueueInv'
  <2>1. /\ UNCHANGED <<messages, current_size, next_offset, seen, policy, retention_policy, entry>>
        /\ pc[t] = "wal" /\ pc' = [pc EXCEPT ![t] = "data"]
        /\ lock' = t /\ lock' # NoThread
    BY <1>7, Zenon DEF AppendPrefix, queue, storage, history, LogInv
  <2>2. \A u \in Thread : pc'[u] \in {"wal", "data"} => pc[u] \in {"wal", "data"}
    BY <2>1, Zenon DEF LogInv
  <2>3. ((\A i \in 1..(Len(file) - 1) : file[i].whole) => \A a \in seen : Logged(a[1], a[2]))'
    BY <1>7, <2>1, LogGrows, Zenon DEF QueueInv
  <2> QED
    BY <2>1, <2>2, <2>3, Zenon DEF QueueInv, QueueOffsetsFresh, QueueSizeAccurate
<1>8. ASSUME NEW t \in Thread, AppendPush(t)
      PROVE  QueueInv'
  <2>1. /\ UNCHANGED <<next_offset, seen, policy, retention_policy, entry>>
        /\ pc[t] \in {"wal", "data"} /\ pc' = [pc EXCEPT ![t] = "enforce"]
        /\ lock' = t /\ lock' # NoThread
        /\ messages' = Append(messages, entry[t])
        /\ current_size' = current_size + PayloadLen[entry[t].payload]
    BY <1>8, Zenon DEF AppendPush, WalWritten, storage, history, LogInv
  <2>2. entry[t] \in Entry /\ entry[t].offset < next_offset
    BY <2>1, Zenon DEF LogInv, QueueInv
  <2>3. /\ messages' \in Seq(Entry) /\ Len(messages') = Len(messages) + 1
        /\ messages'[Len(messages) + 1] = entry[t]
        /\ \A i \in 1..Len(messages) : messages'[i] = messages[i]
        /\ \A i \in 1..Len(messages') : i \in 1..Len(messages) \/ i = Len(messages) + 1
    <3>1. messages \in Seq(Entry) /\ messages' = Append(messages, entry[t]) /\ entry[t] \in Entry
      BY <2>1, <2>2, Zenon DEF QueueInv
    <3> QED
      BY <3>1, SMTT(20)
  <2>4. QueueOffsetsFresh'
    BY <2>1, <2>2, <2>3, Zenon DEF QueueInv, QueueOffsetsFresh
  <2>5. current_size' \in Int
    <3>1. PayloadLen[entry[t].payload] \in Nat
      BY <2>2, Zenon DEF Entry
    <3>2. current_size \in Int
      BY Zenon DEF QueueInv
    <3>3. \A x \in Int, y \in Nat : x + y \in Int
      OBVIOUS
    <3> QED
      BY <2>1, <3>1, <3>2, <3>3, Zenon
  <2>6. \A u \in Thread : pc'[u] \in {"wal", "data"} => pc[u] \in {"wal", "data"}
    BY <2>1, Zenon DEF LogInv
  <2>7. ((\A i \in 1..(Len(file) - 1) : file[i].whole) => \A a \in seen : Logged(a[1], a[2]))'
    BY <1>8, <2>1, LogGrows, Zenon DEF QueueInv
  <2> QED
    BY <2>1, <2>3, <2>4, <2>5, <2>6, <2>7, Zenon DEF QueueInv, QueueSizeAccurate
<1>9. ASSUME NEW t \in Thread, enforce_retention_policy(t)
      PROVE  QueueInv'
  <2>1. PICK k \in 0..Len(messages) :
          /\ messages' = SubSeq(messages, k + 1, Len(messages))
          /\ current_size' = Bytes(messages')
    BY <1>9, Evicts, Zenon
  <2>2. messages \in Seq(Entry) /\ Len(messages) \in Nat
    BY DEF QueueInv
  <2>3. /\ messages' \in Seq(Entry) /\ Len(messages') = Len(messages) - k
        /\ \A j \in 1..Len(messages') : messages'[j] = messages[k + j] /\ k + j \in 1..Len(messages)
    BY <2>1, <2>2
  <2>4. /\ UNCHANGED <<file, next_offset, lock, seen, policy, retention_policy, entry>>
        /\ pc' = [pc EXCEPT ![t] = "idle"]
    BY <1>9, Zenon DEF enforce_retention_policy, storage, history
  <2>5. Bytes(messages') \in Nat
    BY <2>3, BytesNat, Zenon
  <2>6. \A u \in Thread : pc'[u] \in {"wal", "data"} => pc[u] = pc'[u]
    BY <2>4, Zenon DEF LogInv
  <2>7. \A j \in 1..Len(messages') : \E i \in 1..Len(messages) :
          /\ messages'[j].offset = messages[i].offset
          /\ messages'[j].payload = messages[i].payload
    BY <2>3, Zenon
  <2>8. current_size' \in Int /\ current_size' = Bytes(messages')
    BY <2>1, <2>5, SMTT(20)
  <2> QED
    BY <2>3, <2>4, <2>6, <2>7, <2>8, QueueKept, Zenon
<1>10. ASSUME NEW c \in Consumer, NEW o \in 0..MaxOffset, acknowledge(c, o)
       PROVE  QueueInv'
  <2>1. PICK i \in 1..Len(messages) : messages' = [messages EXCEPT ![i].acked = @ \cup {c}]
    BY <1>10, Zenon DEF acknowledge
  <2>2. messages \in Seq(Entry) /\ Len(messages) \in Nat
    BY DEF QueueInv
  <2> DEFINE e == [messages[i] EXCEPT !.acked = @ \cup {c}]
  <2>3. e \in Entry /\ e.offset = messages[i].offset /\ e.payload = messages[i].payload
    <3>1. messages[i] \in Entry
      BY <2>2
    <3> QED
      BY <3>1, Zenon DEF Entry
  <2>4. /\ messages' \in Seq(Entry) /\ Len(messages') = Len(messages)
        /\ \A j \in 1..Len(messages) :
             messages'[j] = IF j = i THEN e ELSE messages[j]
    BY <2>1, <2>2, <2>3
  <2> HIDE DEF e
  <2>5. \A j \in 1..Len(messages) :
          /\ messages'[j].payload = messages[j].payload
          /\ messages'[j].offset = messages[j].offset
    BY <2>3, <2>4, Zenon
  <2>6. Bytes(messages') = Bytes(messages)
    BY <2>2, <2>4, <2>5, BytesSame, Zenon
  <2>7. /\ UNCHANGED <<file, next_offset, lock, seen, policy, retention_policy, pc, entry, current_size>>
        /\ lock = NoThread
    BY <1>10, Zenon DEF acknowledge, storage, history
  <2>8. current_size' \in Int /\ current_size' = Bytes(messages')
    BY <2>6, <2>7, Zenon DEF QueueInv, QueueSizeAccurate
  <2> QED
    BY <2>4, <2>5, <2>7, <2>8, QueueKept, Zenon
<1>11. CASE cleanup
  <2>1. /\ UNCHANGED <<file, next_offset, lock, seen, policy, retention_policy, pc, entry>>
        /\ messages' = Unacknowledged(messages) /\ current_size' = Bytes(messages')
    BY <1>11, Zenon DEF cleanup, storage, history
  <2>2. /\ messages' \in Seq(Entry)
        /\ \A j \in 1..Len(messages') : \E i \in 1..Len(messages) : messages'[j] = messages[i]
    BY <2>1, UnacknowledgedKeeps, Zenon DEF QueueInv
  <2>3. current_size' \in Int
    BY <2>1, <2>2, BytesNat
  <2> QED
    BY <2>1, <2>2, <2>3, QueueKept, Zenon
<1>12. ASSUME NEW c \in Consumer, read_from_offset(c)
       PROVE  QueueInv'
  <2>1. /\ UNCHANGED <<file, messages, current_size, next_offset, lock, pc, entry, policy,
                       retention_policy>>
        /\ lock = NoThread
    BY <1>12, Zenon DEF read_from_offset, queue, storage
  <2>2. ASSUME NEW a \in seen', a \notin seen
        PROVE  /\ Whole(file)
               /\ \E i \in 1..Len(messages) : a = <<messages[i].offset, messages[i].payload>>
    BY <1>12, <2>2, Zenon DEF read_from_offset, read_from
  <2>3. \A i \in 1..Len(messages) : messages[i].offset \in Nat /\ messages[i].payload \in Payload
    <3>1. \A i \in 1..Len(messages) : messages[i] \in Entry
      BY DEF QueueInv
    <3> QED
      BY <3>1, Zenon DEF Entry
  <2>4. seen' \subseteq Nat \X Payload
    <3> SUFFICES ASSUME NEW a \in seen', a \notin seen PROVE a \in Nat \X Payload
      BY Zenon DEF QueueInv
    <3>1. PICK i \in 1..Len(messages) : a = <<messages[i].offset, messages[i].payload>>
      BY <2>2, Zenon
    <3> QED
      BY <2>3, <3>1, Zenon
  <2>5. ASSUME \A i \in 1..(Len(file) - 1) : file[i].whole, NEW a \in seen'
        PROVE  Logged(a[1], a[2])
    <3>1. CASE a \in seen
      BY <2>5, <3>1, Zenon DEF QueueInv
    <3>2. CASE a \notin seen
      <4>1. PICK i \in 1..Len(messages) : a = <<messages[i].offset, messages[i].payload>>
        BY <2>2, <3>2, Zenon
      <4>2. Logged(messages[i].offset, messages[i].payload)
        BY <2>1, <2>2, <3>2, Zenon DEF QueueInv
      <4> QED
        BY <4>1, <4>2, Zenon
    <3> QED
      BY <3>1, <3>2, Zenon
  <2>6. \A o, p : Logged(o, p)' <=> Logged(o, p)
    BY <2>1, Zenon DEF Logged
  <2>7. QueueOffsetsFresh' /\ QueueSizeAccurate'
    BY <2>1, Zenon DEF QueueInv, QueueOffsetsFresh, QueueSizeAccurate
  <2> QED
    BY <2>1, <2>4, <2>5, <2>6, <2>7, Zenon DEF QueueInv, Whole
<1>13. CASE Crash \/ create_topic
  <2>1. /\ messages' = <<>> /\ current_size' = 0 /\ retention_policy' \in Policy
        /\ UNCHANGED <<file, seen>> /\ policy' \in Policy
        /\ \A t \in Thread : pc'[t] = "idle"
    BY <1>13, Zenon DEF Crash, create_topic, NoQueue, storage, history, QueueInv
  <2>2. messages' \in Seq(Entry) /\ Len(messages') = 0
    BY <2>1
  <2>3. QueueOffsetsFresh' /\ QueueSizeAccurate'
    BY <2>1, <2>2, NoBytes DEF QueueOffsetsFresh, QueueSizeAccurate
  <2>4. ((\A i \in 1..(Len(file) - 1) : file[i].whole) => \A a \in seen : Logged(a[1], a[2]))'
    BY <2>1, Zenon DEF QueueInv, Logged
  <2>5. current_size' \in Int /\ 1..0 = {} /\ "idle" \notin {"wal", "data"}
    BY <2>1
  <2> QED
    BY <2>1, <2>2, <2>3, <2>4, <2>5, Zenon DEF QueueInv
<1> QED
  BY <1>1, <1>3, <1>4, <1>5, <1>6, <1>7, <1>8, <1>9, <1>10, <1>11, <1>12, <1>13, Zenon DEF Next, Step

LEMMA LogAndQueue == Spec => [](LogInv /\ QueueInv)
<1>1. LogInv /\ QueueInv /\ [Next]_vars => (LogInv /\ QueueInv)'
  BY NextLogInv, NextQueueInv, Zenon
<1> QED
  BY <1>1, InitLogInv, InitQueueInv, PTL DEF Spec

\* Recovery and append never let a queued message have the offset that the next
\* append will use, also when a torn record made recovery misread the log
\* (PartitionQueue::new and ::append).
THEOREM OffsetsStayFresh == Spec => []QueueOffsetsFresh
<1>1. QueueInv => QueueOffsetsFresh
  BY Zenon DEF QueueInv
<1> QED
  BY <1>1, LogAndQueue, PTL

\* Whenever no append is under way current_size is the weight of the queue:
\* recovery, evictions, acknowledgements and cleanups keep it exact, so the
\* subtractions of enforce_retention_policy never go below zero.
THEOREM SizeStaysAccurate == Spec => []QueueSizeAccurate
<1>1. QueueInv => QueueSizeAccurate
  BY Zenon DEF QueueInv
<1> QED
  BY <1>1, LogAndQueue, PTL

\* Two reads that return the same offset return the same payload, over any
\* number of crashes and restarts, while no record of the log is torn
\* (Storage::read_from_offset after PartitionQueue::new).
THEOREM OffsetsNameOneMessage == Spec => []OffsetNamesOneMessage
<1>1. LogInv /\ QueueInv => OffsetNamesOneMessage
  <2> SUFFICES ASSUME LogInv, QueueInv, Whole(file), NEW a \in seen, NEW b \in seen, a[1] = b[1]
               PROVE  a[2] = b[2]
    BY Zenon DEF OffsetNamesOneMessage
  <2>1. Len(file) \in Nat /\ \A i \in 1..Len(file) : file[i].whole
    BY DEF LogInv, Whole
  <2>2. Logged(a[1], a[2]) /\ Logged(b[1], b[2])
    BY <2>1 DEF QueueInv
  <2>3. PICK i \in 1..Len(file) : file[i].offset = a[1] /\ file[i].payload = a[2]
    BY <2>2, Zenon DEF Logged
  <2>4. PICK j \in 1..Len(file) : file[j].offset = b[1] /\ file[j].payload = b[2]
    BY <2>2, Zenon DEF Logged
  <2>5. file[i].offset = i - 1 /\ file[j].offset = j - 1
    <3>1. \A k \in 1..Len(file) : \A h \in 1..(k - 1) : h \in 1..Len(file)
      BY <2>1
    <3> QED
      BY <2>1, <3>1, Zenon DEF LogInv, WalInOrder
  <2>6. i = j
    BY <2>3, <2>4, <2>5
  <2> QED
    BY <2>3, <2>4, <2>6, Zenon
<1> QED
  BY <1>1, LogAndQueue, PTL

\* What an intact log holds is in the queue that create_partition builds after a
\* crash or after create_topic, under its offset.
THEOREM LogSurvivesRestart == Spec => SurvivesRestart
<1> DEFINE Restored ==
      ~open /\ open' /\ wal' /\ Whole(file) =>
         \A i \in 1..Len(file) : \E j \in 1..Len(messages') :
           /\ messages'[j].offset = file[i].offset
           /\ messages'[j].payload = file[i].payload
<1>1. LogInv /\ [Next]_vars => [Restored]_vars
  <2> SUFFICES ASSUME LogInv, Next, ~open, open', wal', Whole(file), NEW i \in 1..Len(file)
               PROVE  \E j \in 1..Len(messages') :
                        /\ messages'[j].offset = file[i].offset
                        /\ messages'[j].payload = file[i].payload
    BY Zenon
  <2>1. create_partition
    BY Zenon DEF Next, Step, create_topic, NoQueue, CallAppend, AppendLock, AppendPrefix, AppendPush,
           enforce_retention_policy, update_retention_policy, cleanup_old_messages, acknowledge,
           update_consumer_offset, read_from_offset, cleanup, SetClock, Crash, queue
  <2>2. PICK es \in read_all(file) : NewQueue(TRUE, es)
    BY <2>1, Zenon DEF create_partition, NewQueue
  <2>3. messages' = es
    BY <2>2, Zenon DEF NewQueue
  <2>4. Len(es) = Len(file) /\ es[i] = EntryOf(file[i])
    BY RecoveredOffset, Zenon
  <2> QED
    BY <2>3, <2>4 DEF EntryOf
<1> QED
  BY <1>1, LogAndQueue, PTL DEF Spec, SurvivesRestart

\* A message leaves the queue of a running process with an intact log only when
\* a consumer acknowledged it (cleanup_acknowledged), or when it is too old or
\* the queue too large (enforce_retention_policy): nothing gets lost when
\* create_partition replaces the queue, whoever runs beside it.
THEOREM RemovalStaysDeliberate == Spec => RemovalIsDeliberate
<1> DEFINE Deliberate ==
      open /\ open' /\ wal /\ wal' /\ Whole(file) =>
         \A i \in 1..Len(messages) :
           \/ \E j \in 1..Len(messages') : messages'[j].offset = messages[i].offset
           \/ messages[i].acked # {}
           \/ now - messages[i].timestamp > retention_policy.max_age
           \/ current_size > retention_policy.max_bytes
<1>1. LogInv /\ QueueInv /\ [Next]_vars => [Deliberate]_vars
  <2> SUFFICES ASSUME LogInv, QueueInv, Next, open, open', wal, wal', Whole(file),
                      NEW i \in 1..Len(messages)
               PROVE  \/ \E j \in 1..Len(messages') : messages'[j].offset = messages[i].offset
                      \/ messages[i].acked # {}
                      \/ now - messages[i].timestamp > retention_policy.max_age
                      \/ current_size > retention_policy.max_bytes
    BY Zenon
  <2>1. messages \in Seq(Entry) /\ Len(messages) \in Nat /\ messages[i] \in Entry
    BY SMTT(20) DEF QueueInv
  <2>2. CASE create_partition
    <3>1. Logged(messages[i].offset, messages[i].payload)
      BY <2>2, Zenon DEF create_partition, LogInv, QueueInv
    <3>2. PICK k \in 1..Len(file) : file[k].offset = messages[i].offset
      BY <3>1, Zenon DEF Logged
    <3>3. PICK es \in read_all(file) : NewQueue(TRUE, es)
      BY <2>2, Zenon DEF create_partition, NewQueue
    <3>4. messages' = es
      BY <3>3, Zenon DEF NewQueue
    <3>5. Len(es) = Len(file) /\ es[k] = EntryOf(file[k])
      BY RecoveredOffset, Zenon
    <3>6. k \in 1..Len(messages') /\ messages'[k].offset = messages[i].offset
      BY <3>2, <3>4, <3>5 DEF EntryOf
    <3> QED
      BY <3>6, Zenon
  <2>3. CASE \E t \in Thread : enforce_retention_policy(t)
    <3>1. PICK k \in 0..Len(messages) :
            /\ messages' = SubSeq(messages, k + 1, Len(messages))
            /\ \A h \in 1..k :
                 \/ now - messages[h].timestamp > retention_policy.max_age
                 \/ current_size > retention_policy.max_bytes
      BY <2>3, Evicts, Zenon
    <3>2. CASE i \in 1..k
      BY <3>1, <3>2, Zenon
    <3>3. CASE i \notin 1..k
      <4>1. /\ Len(messages') = Len(messages) - k
            /\ \A j \in 1..(Len(messages) - k) : messages'[j] = messages[k + j]
        BY <2>1, <3>1
      <4>2. i - k \in 1..(Len(messages) - k) /\ k + (i - k) = i
        BY <2>1, <3>3
      <4>3. i - k \in 1..Len(messages') /\ messages'[i - k] = messages[i]
        BY <4>1, <4>2, Zenon
      <4> QED
        BY <4>3, Zenon
    <3> QED
      BY <3>2, <3>3, Zenon
  <2>4. CASE \E t \in Thread : AppendPush(t)
    <3>1. PICK t \in Thread : messages' = Append(messages, entry[t])
      BY <2>4, Zenon DEF AppendPush
    <3>2. i \in 1..Len(messages') /\ messages'[i] = messages[i]
      BY <2>1, <3>1
    <3> QED
      BY <3>2, Zenon
  <2>5. CASE cleanup
    <3>1. messages' = Unacknowledged(messages)
      BY <2>5, Zenon DEF cleanup
    <3>2. messages[i].acked = {} => \E j \in 1..Len(messages') : messages'[j] = messages[i]
      BY <2>1, <3>1, UnacknowledgedKeeps, Zenon
    <3> QED
      BY <3>2, Zenon
  <2>6. CASE \E c \in Consumer, o \in 0..MaxOffset : acknowledge(c, o)
    <3>1. PICK c \in Consumer, k \in 1..Len(messages) :
            messages' = [messages EXCEPT ![k].acked = @ \cup {c}]
      BY <2>6, Zenon DEF acknowledge
    <3>2. messages[k] \in Entry
      BY <2>1
    <3>3. [messages[k] EXCEPT !.acked = @ \cup {c}].offset = messages[k].offset
      BY <3>2, Zenon DEF Entry
    <3>4. Len(messages') = Len(messages) /\ messages'[i].offset = messages[i].offset
      BY <2>1, <3>1, <3>3
    <3> QED
      BY <3>4, Zenon
  <2>7. CASE UNCHANGED messages
    BY <2>7, Zenon
  <2>8. ~create_topic /\ ~Crash
    BY Zenon DEF create_topic, Crash, NoQueue
  <2>9. \/ create_partition \/ cleanup \/ UNCHANGED messages
        \/ \E t \in Thread : enforce_retention_policy(t) \/ AppendPush(t)
        \/ \E c \in Consumer, o \in 0..MaxOffset : acknowledge(c, o)
    BY <2>8, Zenon DEF Next, Step, CallAppend, AppendLock, AppendPrefix, update_retention_policy,
                cleanup_old_messages, update_consumer_offset, read_from_offset, SetClock, queue
  <2> QED
    BY <2>2, <2>3, <2>4, <2>5, <2>6, <2>7, <2>9, Zenon
<1> QED
  BY <1>1, LogAndQueue, PTL DEF Spec, RemovalIsDeliberate
=============================================================================

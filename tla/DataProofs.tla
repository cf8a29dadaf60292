----------------------------- MODULE DataProofs -----------------------------
(***************************************************************************)
(* What the managers compute from the data they keep: the segments of      *)
(* LogCompactionManager for any appends, strategies and clock, the rate    *)
(* counter for any readers and any clock, and the percentiles of the       *)
(* latency histogram for any values recorded and any bounds of buckets.    *)
(***************************************************************************)
EXTENDS Compaction, Metrics, Loops

-----------------------------------------------------------------------------
\* Compaction: the weight of entries.

EntryList == Seq(CompactedEntry)

Values(s) == [i \in DOMAIN s |-> s[i].value]

LEMMA ValueNat == ASSUME NEW e \in CompactedEntry PROVE e.value \in Nat
<1>1. e.value \in Length
  BY DEF CompactedEntry
<1> QED
  BY <1>1, CompactionAssumption, Zenon

LEMMA ValuesNat == ASSUME NEW s \in EntryList PROVE Values(s) \in Seq(Nat)
<1>1. s \in Seq(CompactedEntry) /\ DOMAIN s = 1..Len(s) /\ Len(s) \in Nat
  BY DEF EntryList
<1>2. \A i \in 1..Len(s) : s[i].value \in Nat
  <2>1. \A i \in 1..Len(s) : s[i] \in CompactedEntry
    BY <1>1
  <2> QED
    BY <2>1, ValueNat, Zenon
<1> QED
  BY <1>1, <1>2 DEF Values

LEMMA WeightNat == ASSUME NEW s \in EntryList PROVE Weight(s) \in Nat
  BY ValuesNat, TotalNat, Zenon DEF Weight, Values

LEMMA WeightNothing == Weight(<<>>) = 0
<1>1. [i \in DOMAIN <<>> |-> <<>>[i].value] = <<>>
  OBVIOUS
<1> QED
  BY <1>1, TotalNothing, Zenon DEF Weight

LEMMA WeightAppend ==
  ASSUME NEW s \in EntryList, NEW e \in CompactedEntry
  PROVE  Weight(Append(s, e)) = Weight(s) + e.value
<1> DEFINE n == Len(s)
           m == Append(s, e)
<1>1. s \in Seq(CompactedEntry) /\ e.value \in Nat
  BY ValueNat, Zenon DEF EntryList
<1>2. /\ n \in Nat /\ DOMAIN s = 1..n /\ DOMAIN m = 1..(n + 1) /\ n + 1 \in 1..(n + 1)
      /\ \A i \in 1..n : i \in 1..(n + 1)
  BY <1>1, Places, Zenon
<1>3. m[n + 1] = e /\ \A i \in 1..n : m[i] = s[i]
  BY <1>1, Appended
<1>4. Values(s) \in Seq(Nat)
  BY ValuesNat, Zenon
<1>5. Len(Values(s)) = n
  BY <1>2, <1>4 DEF Values
<1> HIDE DEF n, m
<1>6. OneMore(Values(s), e.value, Values(m))
  BY <1>2, <1>3, <1>5, Zenon DEF OneMore, Values
<1>7. Values(m) = Append(Values(s), e.value)
  BY <1>1, <1>4, <1>6, OneMoreIsAppend, Zenon
<1>8. Total(Values(m)) = Total(Values(s)) + e.value
  BY <1>1, <1>4, <1>7, TotalAppend, Zenon
<1> QED
  BY <1>8, Zenon DEF Weight, Values, m

LEMMA WeightConcat ==
  ASSUME NEW x \in EntryList, NEW y \in EntryList
  PROVE  Weight(x \o y) = Weight(x) + Weight(y)
<1> DEFINE P(s) == Weight(x \o s) = Weight(x) + Weight(s)
           T == {s \in EntryList : P(s)}
<1>1. <<>> \in T
  <2>1. x \o <<>> = x /\ <<>> \in EntryList
    BY DEF EntryList
  <2>2. Weight(x) + 0 = Weight(x)
    BY WeightNat
  <2> QED
    BY <2>1, <2>2, WeightNothing, Zenon
<1>2. \A s \in EntryList, e \in CompactedEntry : s \in T => Append(s, e) \in T
  <2> SUFFICES ASSUME NEW s \in EntryList, NEW e \in CompactedEntry, P(s)
               PROVE  Append(s, e) \in EntryList /\ P(Append(s, e))
    BY Zenon
  <2>1. x \o s \in EntryList /\ Append(s, e) \in EntryList
    BY DEF EntryList
  <2>2. x \o Append(s, e) = Append(x \o s, e)
    BY ConcatAppend DEF EntryList
  <2>3. Weight(Append(x \o s, e)) = Weight(x \o s) + e.value
    BY <2>1, WeightAppend, Zenon
  <2>4. Weight(Append(s, e)) = Weight(s) + e.value
    BY WeightAppend, Zenon
  <2>5. Weight(x) \in Nat /\ Weight(s) \in Nat /\ e.value \in Nat
    BY WeightNat, ValueNat, Zenon
  <2>6. (Weight(x) + Weight(s)) + e.value = Weight(x) + (Weight(s) + e.value)
    BY <2>5
  <2> QED
    BY <2>1, <2>2, <2>3, <2>4, <2>6, Zenon
<1>3. \A s \in Seq(CompactedEntry) : s \in T
  <2> HIDE DEF T
  <2> QED
    BY <1>1, <1>2, ListInduction, Zenon DEF EntryList
<1> QED
  BY <1>3, Zenon DEF EntryList

\* Entries that are all among others, and no two alike, weigh no more.
LEMMA FewerWeighLess ==
  ASSUME NEW r \in EntryList, NEW s \in EntryList,
         IsInjective(r), Range(r) \subseteq Range(s)
  PROVE  Weight(r) <= Weight(s)
<1> DEFINE a == Values(r)
           b == Values(s)
           g == [i \in DOMAIN r |-> CHOOSE j \in DOMAIN s : s[j] = r[i]]
<1>1. /\ DOMAIN r = 1..Len(r) /\ DOMAIN s = 1..Len(s)
      /\ Len(r) \in Nat /\ Len(s) \in Nat
  BY DEF EntryList
<1>2. a \in Seq(Nat) /\ b \in Seq(Nat)
  BY ValuesNat, Zenon
<1>3. Len(a) = Len(r) /\ Len(b) = Len(s)
  BY <1>1, <1>2 DEF Values
<1>4. \A i \in DOMAIN r : g[i] \in DOMAIN s /\ s[g[i]] = r[i]
  BY Zenon DEF Range
<1>5. g \in [DOMAIN r -> DOMAIN s] /\ \A i, j \in DOMAIN r : g[i] = g[j] => i = j
  <2>1. g \in [DOMAIN r -> DOMAIN s]
    <3>1. \A i \in DOMAIN r : (CHOOSE j \in DOMAIN s : s[j] = r[i]) \in DOMAIN s
      BY Zenon DEF Range
    <3> QED
      BY <3>1, Zenon
  <2> HIDE DEF g
  <2> QED
    BY <1>4, <2>1, Zenon DEF IsInjective
<1> HIDE DEF g
<1>6. \A i \in DOMAIN r : a[i] = b[g[i]] /\ a[i] \in Nat
  <2>1. \A i \in DOMAIN r : a[i] = b[g[i]]
    BY <1>4, Zenon DEF Values
  <2> HIDE DEF a
  <2>2. \A i \in 1..Len(a) : a[i] \in Nat
    BY <1>2
  <2> QED
    BY <1>1, <1>3, <2>1, <2>2, Zenon
<1> HIDE DEF a, b
<1>7. \A i \in DOMAIN r : a[i] <= b[g[i]]
  BY <1>6
<1>8. Below(a, b, g)
  BY <1>1, <1>3, <1>5, <1>7, Zenon DEF Below
<1>9. Total(a) <= Total(b)
  BY <1>2, <1>8, TotalBelow, Zenon
<1> QED
  BY <1>9, Zenon DEF a, b, Values, Weight
-----------------------------------------------------------------------------
\* Compaction: segments.

Segment ==
  [start_offset : Nat, end_offset : Nat, entries : EntryList, size_bytes : Nat]

\* A segment whose size_bytes are those of its entries.
Weighed(s) == s.size_bytes = Weight(s.entries)

GoodSegment == {s \in Segment : Weighed(s)}

EntriesOf(segs) == [i \in DOMAIN segs |-> segs[i].entries]

Sizes(segs) == [i \in DOMAIN segs |-> segs[i].size_bytes]

LEMMA GoodParts ==
  ASSUME NEW s \in GoodSegment
  PROVE  /\ s.entries \in EntryList /\ s.entries \in Seq(CompactedEntry)
         /\ s.size_bytes = Weight(s.entries) /\ s.size_bytes \in Nat
  BY DEF GoodSegment, Weighed, Segment, EntryList

LEMMA EntriesOfSeq ==
  ASSUME NEW segs \in Seq(GoodSegment)
  PROVE  /\ EntriesOf(segs) \in Seq(Seq(CompactedEntry)) /\ Len(EntriesOf(segs)) = Len(segs)
         /\ Sizes(segs) \in Seq(Nat) /\ Len(Sizes(segs)) = Len(segs)
         /\ AllEntries(segs) \in EntryList
<1>1. Len(segs) \in Nat /\ DOMAIN segs = 1..Len(segs)
  OBVIOUS
<1>2. \A i \in 1..Len(segs) : segs[i] \in GoodSegment
  OBVIOUS
<1>3. \A i \in 1..Len(segs) : segs[i].entries \in Seq(CompactedEntry) /\ segs[i].size_bytes \in Nat
  BY <1>2, GoodParts, Zenon
<1>4. EntriesOf(segs) \in Seq(Seq(CompactedEntry)) /\ Len(EntriesOf(segs)) = Len(segs)
  <2> DEFINE V == Seq(CompactedEntry)
  <2>1. EntriesOf(segs) \in [1..Len(segs) -> V]
    BY <1>1, <1>3, Zenon DEF EntriesOf
  <2> HIDE DEF V
  <2>2. EntriesOf(segs) \in Seq(V) /\ Len(EntriesOf(segs)) = Len(segs)
    BY <1>1, <2>1
  <2> QED
    BY <2>2, Zenon DEF V
<1>5. Sizes(segs) \in Seq(Nat) /\ Len(Sizes(segs)) = Len(segs)
  BY <1>1, <1>3 DEF Sizes
<1>6. AllEntries(segs) = Flatten(EntriesOf(segs))
  BY Zenon DEF AllEntries, EntriesOf
<1>7. AllEntries(segs) \in EntryList
  BY <1>4, <1>6, FlattenIsSeq, Zenon DEF EntryList
<1> QED
  BY <1>4, <1>5, <1>7, Zenon

LEMMA NoSegments == AllEntries(<<>>) = <<>> /\ TotalSize(<<>>) = 0
<1>1. [i \in DOMAIN <<>> |-> <<>>[i].entries] = <<>> /\ [i \in DOMAIN <<>> |-> <<>>[i].size_bytes] = <<>>
  OBVIOUS
<1> QED
  BY <1>1, FlattenNothing, TotalNothing, Zenon DEF AllEntries, TotalSize

\* A further segment.
LEMMA SegmentAppend ==
  ASSUME NEW segs \in Seq(GoodSegment), NEW s \in GoodSegment
  PROVE  /\ AllEntries(Append(segs, s)) = AllEntries(segs) \o s.entries
         /\ TotalSize(Append(segs, s)) = TotalSize(segs) + s.size_bytes
<1> DEFINE n == Len(segs)
           m == Append(segs, s)
<1>1. /\ n \in Nat /\ DOMAIN segs = 1..n /\ DOMAIN m = 1..(n + 1) /\ n + 1 \in 1..(n + 1)
      /\ \A i \in 1..n : i \in 1..(n + 1)
  BY Places, Zenon
<1>2. m[n + 1] = s /\ \A i \in 1..n : m[i] = segs[i]
  BY Appended
<1>3. /\ EntriesOf(segs) \in Seq(Seq(CompactedEntry)) /\ Len(EntriesOf(segs)) = n
      /\ Sizes(segs) \in Seq(Nat) /\ Len(Sizes(segs)) = n
  BY EntriesOfSeq, Zenon
<1>4. s.entries \in Seq(CompactedEntry) /\ s.size_bytes \in Nat
  BY GoodParts, Zenon
<1> HIDE DEF n, m
<1>5. OneMore(EntriesOf(segs), s.entries, EntriesOf(m))
  BY <1>1, <1>2, <1>3, Zenon DEF OneMore, EntriesOf
<1>6. OneMore(Sizes(segs), s.size_bytes, Sizes(m))
  BY <1>1, <1>2, <1>3, Zenon DEF OneMore, Sizes
<1>7. EntriesOf(m) = Append(EntriesOf(segs), s.entries)
  <2> DEFINE V == Seq(CompactedEntry)
  <2>1. EntriesOf(segs) \in Seq(V) /\ s.entries \in V
    BY <1>3, <1>4, Zenon
  <2> HIDE DEF V
  <2> QED
    BY <1>5, <2>1, OneMoreIsAppend, Zenon
<1>8. Sizes(m) = Append(Sizes(segs), s.size_bytes)
  BY <1>3, <1>4, <1>6, OneMoreIsAppend, Zenon
<1>9. Flatten(EntriesOf(m)) = Flatten(EntriesOf(segs)) \o s.entries
  BY <1>3, <1>4, <1>7, FlattenAppend, Zenon
<1>10. Total(Sizes(m)) = Total(Sizes(segs)) + s.size_bytes
  BY <1>3, <1>4, <1>8, TotalAppend, Zenon
<1> QED
  BY <1>9, <1>10, Zenon DEF AllEntries, TotalSize, EntriesOf, Sizes, m

\* The sizes of all segments are the weight of all entries.
LEMMA SizeIsWeight ==
  ASSUME NEW segs \in Seq(GoodSegment)
  PROVE  TotalSize(segs) = Weight(AllEntries(segs))
<1> DEFINE P(r) == TotalSize(r) = Weight(AllEntries(r))
           T == {r \in Seq(GoodSegment) : P(r)}
<1>1. <<>> \in T
  <2>1. <<>> \in Seq(GoodSegment)
    OBVIOUS
  <2> QED
    BY <2>1, NoSegments, WeightNothing, Zenon
<1>2. \A r \in Seq(GoodSegment), s \in GoodSegment : r \in T => Append(r, s) \in T
  <2> SUFFICES ASSUME NEW r \in Seq(GoodSegment), NEW s \in GoodSegment, P(r)
               PROVE  Append(r, s) \in Seq(GoodSegment) /\ P(Append(r, s))
    BY Zenon
  <2>1. Append(r, s) \in Seq(GoodSegment)
    OBVIOUS
  <2>2. AllEntries(r) \in EntryList /\ s.entries \in EntryList /\ s.size_bytes = Weight(s.entries)
    BY EntriesOfSeq, GoodParts, Zenon
  <2>3. Weight(AllEntries(r) \o s.entries) = Weight(AllEntries(r)) + Weight(s.entries)
    BY <2>2, WeightConcat, Zenon
  <2> QED
    BY <2>1, <2>2, <2>3, SegmentAppend, Zenon
<1>3. \A r \in Seq(GoodSegment) : r \in T
  <2> HIDE DEF T
  <2> QED
    BY <1>1, <1>2, ListInduction, Zenon
<1> QED
  BY <1>3, Zenon

LEMMA EntryOffset == ASSUME NEW e \in CompactedEntry PROVE e.offset \in Nat
  BY CompactionAssumption DEF CompactedEntry

LEMMA NewSegmentGood ==
  ASSUME NEW o \in Nat
  PROVE  NewSegment(o) \in GoodSegment /\ NewSegment(o).entries = <<>>
<1>1. NewSegment(o) \in Segment /\ NewSegment(o).entries = <<>> /\ NewSegment(o).size_bytes = 0
  BY DEF NewSegment, Segment, EntryList
<1> QED
  BY <1>1, WeightNothing, Zenon DEF GoodSegment, Weighed

LEMMA add_entryGood ==
  ASSUME NEW s \in GoodSegment, NEW e \in CompactedEntry
  PROVE  add_entry(s, e) \in GoodSegment /\ add_entry(s, e).entries = Append(s.entries, e)
<1>1. s \in Segment /\ s.entries \in EntryList /\ s.size_bytes = Weight(s.entries)
  BY GoodParts, Zenon DEF GoodSegment
<1>2. e.value \in Nat /\ e.offset \in Nat
  BY ValueNat, EntryOffset, Zenon
<1>3. Append(s.entries, e) \in EntryList
  BY <1>1 DEF EntryList
<1>4. Weight(Append(s.entries, e)) = Weight(s.entries) + e.value
  BY <1>1, WeightAppend, Zenon
<1>5. /\ add_entry(s, e) \in Segment /\ add_entry(s, e).entries = Append(s.entries, e)
      /\ add_entry(s, e).size_bytes = s.size_bytes + e.value
  <2> DEFINE es == Append(s.entries, e)
             b == s.size_bytes + e.value
  <2>1. s.size_bytes \in Nat /\ b \in Nat
    BY <1>1, <1>2 DEF Segment
  <2>2. add_entry(s, e) = [s EXCEPT !.size_bytes = b, !.end_offset = e.offset, !.entries = es]
    BY <1>1 DEF add_entry, Segment
  <2> HIDE DEF es, b
  <2>3. /\ add_entry(s, e) \in Segment /\ add_entry(s, e).entries = es
        /\ add_entry(s, e).size_bytes = b
    BY <1>1, <1>2, <1>3, <2>1, <2>2 DEF Segment, es
  <2> QED
    BY <2>3, Zenon DEF es, b
<1> QED
  BY <1>1, <1>4, <1>5, Zenon DEF GoodSegment, Weighed

\* Add puts the entry after all others.
LEMMA AddAppends ==
  ASSUME NEW segs \in Seq(GoodSegment), segs # <<>>, NEW e \in CompactedEntry
  PROVE  /\ Add(segs, e) \in Seq(GoodSegment) /\ Add(segs, e) # <<>>
         /\ AllEntries(Add(segs, e)) = Append(AllEntries(segs), e)
<1> DEFINE n == Len(segs)
           front == SubSeq(segs, 1, n - 1)
           final == segs[n]
           all == AllEntries(segs)
<1>1. /\ front \in Seq(GoodSegment) /\ final \in GoodSegment /\ segs = Append(front, final)
      /\ \A s \in GoodSegment : [segs EXCEPT ![n] = s] = Append(front, s)
  <2>1. final \in GoodSegment
    OBVIOUS
  <2>2. \A s \in GoodSegment : /\ front \in Seq(GoodSegment) /\ segs = Append(front, final)
                                /\ [segs EXCEPT ![n] = s] = Append(front, s)
    BY LastReplaced
  <2> QED
    BY <2>1, <2>2, Zenon
<1>2. all \in Seq(CompactedEntry) /\ AllEntries(front) \in Seq(CompactedEntry)
  BY <1>1, EntriesOfSeq, Zenon DEF EntryList
<1>3. \A r \in Seq(GoodSegment), s \in GoodSegment : Append(r, s) \in Seq(GoodSegment) /\ Append(r, s) # <<>>
  OBVIOUS
<1>4. CASE Full(final)
  <2> DEFINE s == add_entry(NewSegment(e.offset), e)
  <2>1. e.offset \in Nat
    BY EntryOffset, Zenon
  <2>2. s \in GoodSegment /\ s.entries = Append(<<>>, e)
    BY <2>1, NewSegmentGood, add_entryGood, Zenon
  <2>3. Add(segs, e) = Append(segs, s)
    BY <1>4, Zenon DEF Add
  <2> HIDE DEF s
  <2>4. AllEntries(Append(segs, s)) = all \o s.entries
    BY <2>2, SegmentAppend, Zenon
  <2>5. all \o Append(<<>>, e) = Append(all, e)
    <3> HIDE DEF all
    <3> QED
      BY <1>2
  <2> QED
    BY <1>3, <2>2, <2>3, <2>4, <2>5, Zenon
<1>5. CASE ~Full(final)
  <2> DEFINE s == add_entry(final, e)
  <2>1. s \in GoodSegment /\ s.entries = Append(final.entries, e)
    BY <1>1, add_entryGood, Zenon
  <2>2. Add(segs, e) = [segs EXCEPT ![n] = s]
    BY <1>5, Zenon DEF Add
  <2>3. Add(segs, e) = Append(front, s)
    <3> HIDE DEF s, front, n
    <3> QED
      BY <1>1, <2>1, <2>2, Zenon
  <2> HIDE DEF s, front, final
  <2>4. AllEntries(Append(front, s)) = AllEntries(front) \o s.entries
    BY <1>1, <2>1, SegmentAppend, Zenon
  <2>5. all = AllEntries(front) \o final.entries
    <3>1. AllEntries(Append(front, final)) = AllEntries(front) \o final.entries
      BY <1>1, SegmentAppend, Zenon
    <3> QED
      BY <1>1, <3>1, Zenon
  <2>6. final.entries \in Seq(CompactedEntry)
    BY <1>1, GoodParts, Zenon
  <2>7. AllEntries(front) \o Append(final.entries, e) = Append(AllEntries(front) \o final.entries, e)
    <3> DEFINE x == AllEntries(front)
               y == final.entries
    <3>1. x \in Seq(CompactedEntry) /\ y \in Seq(CompactedEntry)
      BY <1>2, <2>6, Zenon
    <3> HIDE DEF x, y
    <3>2. x \o Append(y, e) = Append(x \o y, e)
      BY <3>1, ConcatAppend
    <3> QED
      BY <3>2, Zenon DEF x, y
  <2>8. AllEntries(Append(front, s)) = Append(all, e)
    BY <2>1, <2>4, <2>5, <2>7, Zenon
  <2>9. Append(front, s) \in Seq(GoodSegment) /\ Append(front, s) # <<>>
    <3>1. front \in Seq(GoodSegment) /\ s \in GoodSegment
      BY <1>1, <2>1, Zenon
    <3> QED
      BY <1>3, <3>1, Zenon
  <2> QED
    BY <2>3, <2>8, <2>9, Zenon
<1> QED
  BY <1>4, <1>5, Zenon

\* Rebuilt puts the entries into segments in the order given.
LEMMA RebuiltHolds ==
  ASSUME NEW s \in EntryList
  PROVE  Rebuilt(s) \in Seq(GoodSegment) /\ AllEntries(Rebuilt(s)) = s
<1> DEFINE n == Len(s)
           a == <<NewSegment(0)>>
           V == {r \in Seq(GoodSegment) : r # <<>>}
           g == [i \in 1..n |-> [r \in V |-> Add(r, s[i])]]
           F(f) == [i \in 0..Len(s) |-> IF i = 0 THEN <<NewSegment(0)>> ELSE Add(f[i - 1], s[i])]
<1>1. n \in Nat /\ \A i \in 1..n : s[i] \in CompactedEntry
  BY DEF EntryList
<1>2. a \in V /\ AllEntries(a) = <<>>
  <2> DEFINE new == NewSegment(0)
  <2>1. new \in GoodSegment /\ new.entries = <<>>
    <3>1. 0 \in Nat
      OBVIOUS
    <3> QED
      BY <3>1, NewSegmentGood, Zenon
  <2> HIDE DEF new
  <2>2. /\ <<>> \in Seq(GoodSegment) /\ <<new>> = Append(<<>>, new)
        /\ <<new>> \in Seq(GoodSegment) /\ <<new>> # <<>>
    BY <2>1
  <2>3. AllEntries(Append(<<>>, new)) = AllEntries(<<>>) \o new.entries
    BY <2>1, <2>2, SegmentAppend, Zenon
  <2>4. <<>> \o <<>> = <<>>
    OBVIOUS
  <2> QED
    BY <2>1, <2>2, <2>3, <2>4, NoSegments, Zenon DEF new
<1>3. \A r \in V, e \in CompactedEntry : Add(r, e) \in V /\ AllEntries(Add(r, e)) = Append(AllEntries(r), e)
  BY AddAppends, Zenon
<1> HIDE DEF V, n, a
<1>4. PICK f : Loop(V, a, n, g, f)
  <2>1. g \in [1..n -> [V -> V]]
    BY <1>1, <1>3, Zenon
  <2> HIDE DEF g
  <2> QED
    BY <1>1, <1>2, <2>1, LoopRuns, Zenon
<1>5. f \in [0..n -> V] /\ f[0] = a /\ \A i \in 1..n : f[i] = g[i][f[i - 1]]
  BY <1>4, Zenon DEF Loop
<1>6. 0 \in 0..n /\ n \in 0..n /\ \A i \in 1..n : i - 1 \in 0..n /\ i \in 0..n /\ i # 0
  BY <1>1
<1>7. \A i \in 0..n : i = 0 \/ i \in 1..n
  BY <1>1
<1>8. \A i \in 1..n : f[i] = Add(f[i - 1], s[i])
  BY <1>5, <1>6, Zenon
<1>9. f = F(f)
  <2>1. \A i \in 0..n : f[i] = IF i = 0 THEN a ELSE Add(f[i - 1], s[i])
    BY <1>5, <1>7, <1>8, Zenon
  <2> QED
    BY <1>5, <2>1, Zenon DEF n, a
<1> DEFINE h == CHOOSE h : h = F(h)
<1>10. h = F(h)
  <2> HIDE DEF F
  <2> QED
    BY <1>9, Zenon
<1>11. Rebuilt(s) = h[n]
  BY Zenon DEF Rebuilt, n
<1> HIDE DEF h, g
<1>12. \A i \in 0..n : h[i] = IF i = 0 THEN a ELSE Add(h[i - 1], s[i])
  BY <1>10, Zenon DEF n, a
<1>13. h[0] = a /\ \A i \in 1..n : h[i] = Add(h[i - 1], s[i])
  BY <1>6, <1>12, Zenon
<1> DEFINE T == {i \in 0..n : h[i] \in V /\ AllEntries(h[i]) = SubSeq(s, 1, i)}
<1>14. 0 \in T
  <2>1. SubSeq(s, 1, 0) = <<>>
    OBVIOUS
  <2> QED
    BY <1>2, <1>6, <1>13, <2>1, Zenon
<1>15. \A i \in 1..n : i - 1 \in T => i \in T
  <2> SUFFICES ASSUME NEW i \in 1..n, i - 1 \in T
               PROVE  h[i] \in V /\ AllEntries(h[i]) = SubSeq(s, 1, i)
    BY <1>6, Zenon
  <2>1. SubSeq(s, 1, i) = Append(SubSeq(s, 1, i - 1), s[i])
    BY DEF n, EntryList
  <2>2. h[i - 1] \in V /\ AllEntries(h[i - 1]) = SubSeq(s, 1, i - 1)
    BY Zenon
  <2>3. h[i] = Add(h[i - 1], s[i]) /\ s[i] \in CompactedEntry
    BY <1>1, <1>13, Zenon
  <2> QED
    BY <1>3, <2>1, <2>2, <2>3, Zenon
<1>16. \A i \in 0..n : i \in T
  <2> HIDE DEF T
  <2> QED
    BY <1>1, <1>14, <1>15, Reaches, Zenon
<1>17. SubSeq(s, 1, n) = s
  BY DEF n, EntryList
<1>18. h[n] \in V /\ AllEntries(h[n]) = s
  BY <1>6, <1>16, <1>17, Zenon
<1> QED
  BY <1>11, <1>18, Zenon DEF V
-----------------------------------------------------------------------------
\* Compaction: the strategies.

\* What the time window leaves of entries.
Kept(s) == Picked(s, {i \in DOMAIN s : Recent(s[i])})

LEMMA KeptRight ==
  ASSUME NEW s \in EntryList
  PROVE  /\ Kept(s) \in EntryList /\ Range(Kept(s)) = {e \in Range(s) : Recent(e)}
         /\ IsInjective(s) => IsInjective(Kept(s))
<1> DEFINE I == {i \in DOMAIN s : Recent(s[i])}
<1>1. Kept(s) = Picked(s, I)
  BY Zenon DEF Kept
<1>2. {s[i] : i \in {j \in DOMAIN s : j \in I}} = {e \in Range(s) : Recent(e)}
  BY Zenon DEF Range
<1> HIDE DEF I
<1>3. Picked(s, I) \in Seq(CompactedEntry) /\ PickedRight(s, I)
  BY PickedIsSeq, PickedKeeps, Zenon DEF EntryList
<1> QED
  BY <1>1, <1>2, <1>3, Zenon DEF EntryList, PickedRight

LEMMA RetainedGood ==
  ASSUME NEW s \in GoodSegment
  PROVE  Retained(s) \in GoodSegment /\ Retained(s).entries = Kept(s.entries)
<1> DEFINE k == Kept(s.entries)
<1>1. s \in Segment /\ s.entries \in EntryList
  BY GoodParts, Zenon DEF GoodSegment
<1>2. k \in EntryList /\ Weight(k) \in Nat
  BY <1>1, KeptRight, WeightNat, Zenon
<1>3. Retained(s) = [s EXCEPT !.entries = k, !.size_bytes = Weight(k)]
  BY Zenon DEF Retained, Kept
<1> HIDE DEF k
<1>4. Retained(s) \in Segment /\ Retained(s).entries = k /\ Retained(s).size_bytes = Weight(k)
  BY <1>1, <1>2, <1>3 DEF Segment
<1> QED
  BY <1>4, Zenon DEF GoodSegment, Weighed, k

AllRetained(segs) == [i \in DOMAIN segs |-> Retained(segs[i])]

NotEmptied(segs) == {i \in DOMAIN AllRetained(segs) : AllRetained(segs)[i].entries # <<>>}

LEMMA WindowPicks ==
  ASSUME NEW segs
  PROVE  compact_time_window(segs) = Picked(AllRetained(segs), NotEmptied(segs))
  BY Zenon DEF compact_time_window, AllRetained, NotEmptied

LEMMA AllRetainedSeq ==
  ASSUME NEW segs \in Seq(GoodSegment)
  PROVE  AllRetained(segs) \in Seq(GoodSegment) /\ Len(AllRetained(segs)) = Len(segs)
<1>1. DOMAIN segs = 1..Len(segs) /\ Len(segs) \in Nat /\ \A i \in 1..Len(segs) : segs[i] \in GoodSegment
  OBVIOUS
<1>2. AllRetained(segs) \in [1..Len(segs) -> GoodSegment]
  BY <1>1, RetainedGood, Zenon DEF AllRetained
<1> QED
  BY <1>1, <1>2

\* A further segment is kept when something of it is.
LEMMA WindowAppend ==
  ASSUME NEW segs \in Seq(GoodSegment), NEW s \in GoodSegment
  PROVE  compact_time_window(Append(segs, s)) =
           IF Kept(s.entries) # <<>> THEN Append(compact_time_window(segs), Retained(s))
           ELSE compact_time_window(segs)
<1> DEFINE n == Len(segs)
           m == Append(segs, s)
           r == AllRetained(segs)
           q == AllRetained(m)
<1>1. /\ n \in Nat /\ DOMAIN segs = 1..n /\ DOMAIN m = 1..(n + 1) /\ n + 1 \in 1..(n + 1)
      /\ \A i \in 1..n : i \in 1..(n + 1)
  BY Places, Zenon
<1>2. m[n + 1] = s /\ \A i \in 1..n : m[i] = segs[i]
  BY Appended
<1>3. r \in Seq(GoodSegment) /\ Len(r) = n
  BY AllRetainedSeq, Zenon
<1>4. Retained(s) \in GoodSegment /\ Retained(s).entries = Kept(s.entries)
  BY RetainedGood, Zenon
<1> HIDE DEF n, m
<1>5. /\ DOMAIN q = 1..(n + 1) /\ q = [i \in 1..(n + 1) |-> q[i]] /\ q[n + 1] = Retained(s)
      /\ DOMAIN r = 1..n /\ \A i \in 1..n : q[i] = r[i]
  BY <1>1, <1>2, Zenon DEF AllRetained
<1> HIDE DEF r, q
<1>6. q = Append(r, Retained(s))
  <2>1. OneMore(r, Retained(s), q)
    BY <1>3, <1>5, Zenon DEF OneMore
  <2> QED
    BY <1>3, <1>4, <2>1, OneMoreIsAppend, Zenon
<1> DEFINE I == NotEmptied(m)
           J == NotEmptied(segs)
<1>7. AgreeUpTo(Len(r), I, J) /\ (Len(r) + 1 \in I <=> Kept(s.entries) # <<>>)
  BY <1>1, <1>3, <1>4, <1>5, Zenon DEF AgreeUpTo, NotEmptied, q, r
<1> HIDE DEF I, J
<1>8. Picked(Append(r, Retained(s)), I) =
        IF Len(r) + 1 \in I THEN Append(Picked(r, J), Retained(s)) ELSE Picked(r, J)
  BY <1>3, <1>4, <1>7, PickedAppend
<1>9. compact_time_window(m) = Picked(q, I) /\ compact_time_window(segs) = Picked(r, J)
  BY WindowPicks, Zenon DEF I, J, q, r
<1> QED
  BY <1>6, <1>7, <1>8, <1>9, Zenon DEF m

\* compact_time_window keeps the recent entries and nothing else.
WindowRight(segs) ==
  LET w == compact_time_window(segs)
  IN  /\ w \in Seq(GoodSegment)
      /\ Range(AllEntries(w)) = {e \in Range(AllEntries(segs)) : Recent(e)}
      /\ IsInjective(AllEntries(segs)) => IsInjective(AllEntries(w))

LEMMA WindowKeeps ==
  ASSUME NEW segs \in Seq(GoodSegment)
  PROVE  WindowRight(segs)
<1> DEFINE T == {r \in Seq(GoodSegment) : WindowRight(r)}
<1>1. <<>> \in T
  <2>1. <<>> \in Seq(GoodSegment) /\ AllRetained(<<>>) = <<>> /\ DOMAIN <<>> = {}
    BY DEF AllRetained
  <2>2. compact_time_window(<<>>) = <<>>
    BY <2>1, WindowPicks, PickedNothing, Zenon
  <2>3. Range(<<>>) = {}
    BY <2>1, Zenon DEF Range
  <2> QED
    BY <2>1, <2>2, <2>3, NoSegments, Zenon DEF WindowRight
<1>2. \A r \in Seq(GoodSegment), s \in GoodSegment : r \in T => Append(r, s) \in T
  <2> SUFFICES ASSUME NEW r \in Seq(GoodSegment), NEW s \in GoodSegment, WindowRight(r)
               PROVE  Append(r, s) \in Seq(GoodSegment) /\ WindowRight(Append(r, s))
    BY Zenon
  <2> DEFINE w == compact_time_window(r)
             m == Append(r, s)
             u == compact_time_window(m)
             k == Kept(s.entries)
             x == AllEntries(r)
             y == AllEntries(w)
             z == s.entries
  <2>1. m \in Seq(GoodSegment)
    OBVIOUS
  <2>2. /\ w \in Seq(GoodSegment) /\ Range(y) = {e \in Range(x) : Recent(e)}
        /\ IsInjective(x) => IsInjective(y)
    BY Zenon DEF WindowRight
  <2>3. z \in EntryList /\ x \in EntryList /\ y \in EntryList
    BY <2>2, EntriesOfSeq, GoodParts, Zenon
  <2>4. /\ k \in EntryList /\ Range(k) = {e \in Range(z) : Recent(e)}
        /\ IsInjective(z) => IsInjective(k)
    BY <2>3, KeptRight, Zenon
  <2>5. Retained(s) \in GoodSegment /\ Retained(s).entries = k
    BY RetainedGood, Zenon
  <2>6. AllEntries(m) = x \o z
    BY SegmentAppend, Zenon
  <2>7. u \in Seq(GoodSegment) /\ AllEntries(u) = y \o k
    <3>1. CASE k # <<>>
      <4>1. u = Append(w, Retained(s))
        BY <3>1, WindowAppend, Zenon
      <4> HIDE DEF w, u, k
      <4>2. AllEntries(u) = y \o k
        BY <2>2, <2>5, <4>1, SegmentAppend, Zenon
      <4>3. u \in Seq(GoodSegment)
        BY <2>2, <2>5, <4>1
      <4> QED
        BY <4>2, <4>3, Zenon
    <3>2. CASE k = <<>>
      <4>1. u = w
        BY <3>2, WindowAppend, Zenon
      <4>2. y \o <<>> = y
        <5> HIDE DEF y
        <5> QED
          BY <2>3 DEF EntryList
      <4> QED
        BY <2>2, <3>2, <4>1, <4>2, Zenon
    <3> QED
      BY <3>1, <3>2, Zenon
  <2> HIDE DEF w, m, u, k, x, y, z
  <2>8. EndToEnd(x, z) /\ EndToEnd(y, k)
    BY <2>3, <2>4, RangeConcat, Zenon DEF EntryList
  <2>9. Range(y \o k) = {e \in Range(x \o z) : Recent(e)}
    BY <2>2, <2>4, <2>8, Zenon DEF EndToEnd
  <2>10. IsInjective(x \o z) => IsInjective(y \o k)
    BY <2>2, <2>4, <2>8, Zenon DEF EndToEnd
  <2> QED
    BY <2>1, <2>6, <2>7, <2>9, <2>10, Zenon DEF WindowRight, m, u
<1>3. \A r \in Seq(GoodSegment) : r \in T
  <2> HIDE DEF T
  <2> QED
    BY <1>1, <1>2, ListInduction, Zenon
<1> QED
  BY <1>3, Zenon

\* compact_keep_latest keeps the latest entries and nothing else, each once.
LEMMA LatestKept ==
  ASSUME NEW segs \in Seq(GoodSegment), NEW new \in compact_keep_latest(segs)
  PROVE  /\ new \in Seq(GoodSegment) /\ IsInjective(AllEntries(new))
         /\ Range(AllEntries(new)) = Latest(AllEntries(segs))
<1> DEFINE x == AllEntries(segs)
           L == Latest(x)
<1>1. PICK order \in Orders(L) : new = IF order = <<>> THEN <<>> ELSE Rebuilt(order)
  BY Zenon DEF compact_keep_latest
<1>2. PICK n \in 0..Cardinality(L) : order \in Bijection(1..n, L)
  BY Zenon DEF Orders
<1>3. n \in Nat
  OBVIOUS
<1>4. x \in Seq(CompactedEntry)
  BY EntriesOfSeq, Zenon DEF EntryList
<1>5. L \subseteq CompactedEntry
  <2>1. \A i \in DOMAIN x : x[i] \in CompactedEntry
    <3> HIDE DEF x
    <3> QED
      BY <1>4
  <2> QED
    BY <2>1, Zenon DEF Latest
<1>6. order \in [1..n -> L] /\ IsInjective(order) /\ \A e \in L : \E i \in 1..n : order[i] = e
  BY <1>2, Zenon DEF Bijection, Injection, Surjection
<1> HIDE DEF L
<1>7. order \in EntryList
  <2>1. \A i \in 1..n : order[i] \in CompactedEntry
    BY <1>5, <1>6, Zenon
  <2>2. order \in [1..n -> CompactedEntry]
    BY <1>6, <2>1, Zenon
  <2> QED
    BY <1>3, <2>2 DEF EntryList
<1>8. Range(order) = L
  BY <1>6, Zenon DEF Range
<1>9. new \in Seq(GoodSegment) /\ AllEntries(new) = order
  <2>1. CASE order = <<>>
    <3>1. <<>> \in Seq(GoodSegment)
      OBVIOUS
    <3> QED
      BY <1>1, <2>1, <3>1, NoSegments, Zenon
  <2>2. CASE order # <<>>
    BY <1>1, <1>7, <2>2, RebuiltHolds, Zenon
  <2> QED
    BY <2>1, <2>2, Zenon
<1> QED
  BY <1>6, <1>8, <1>9, Zenon DEF L

\* The newest entry of a key among some.
NewestIn(S, e) == \A f \in S : f.key = e.key => f.offset <= e.offset

LEMMA LatestAre ==
  ASSUME NEW s
  PROVE  Latest(s) = {e \in Range(s) : NewestIn(Range(s), e)}
  BY Zenon DEF Latest, Range, NewestIn

\* What compaction leaves of x: entries of x, each once, and those promised.
Leaves(x, y) ==
  /\ IsInjective(y) /\ Range(y) \subseteq Range(x)
  /\ \A e \in Range(x) :
       (/\ strategy # "TimeWindow" => NewestIn(Range(x), e)
        /\ strategy # "KeepLatest" => Recent(e)) => e \in Range(y)

LEMMA CompactedLeaves ==
  ASSUME segments \in Seq(GoodSegment), IsInjective(AllEntries(segments)),
         strategy \in CompactionStrategy, NEW new \in Compacted
  PROVE  new \in Seq(GoodSegment) /\ Leaves(AllEntries(segments), AllEntries(new))
<1> DEFINE x == AllEntries(segments)
           y == AllEntries(new)
           w == compact_time_window(segments)
           z == AllEntries(w)
<1>1. /\ w \in Seq(GoodSegment) /\ IsInjective(z)
      /\ Range(z) = {e \in Range(x) : Recent(e)}
  BY WindowKeeps, Zenon DEF WindowRight
<1>2. CASE strategy = "KeepLatest"
  <2>1. new \in compact_keep_latest(segments)
    BY <1>2 DEF Compacted
  <2>2. /\ new \in Seq(GoodSegment) /\ IsInjective(y)
        /\ Range(y) = {e \in Range(x) : NewestIn(Range(x), e)}
    BY <2>1, LatestKept, LatestAre, Zenon
  <2>3. strategy # "TimeWindow"
    BY <1>2
  <2> HIDE DEF x, y
  <2> QED
    BY <2>2, <2>3, Zenon DEF Leaves, x, y
<1>3. CASE strategy = "TimeWindow"
  <2>1. new = w
    BY <1>3 DEF Compacted
  <2>2. strategy # "KeepLatest"
    BY <1>3
  <2> QED
    BY <1>1, <2>1, <2>2, Zenon DEF Leaves
<1>4. CASE strategy = "Hybrid"
  <2>1. new \in compact_keep_latest(w)
    BY <1>4 DEF Compacted, compact_hybrid
  <2> HIDE DEF w
  <2>2. /\ new \in Seq(GoodSegment) /\ IsInjective(y)
        /\ Range(y) = {e \in Range(z) : NewestIn(Range(z), e)}
    BY <1>1, <2>1, LatestKept, LatestAre, Zenon
  <2>3. strategy # "TimeWindow" /\ strategy # "KeepLatest"
    BY <1>4
  <2> HIDE DEF x, y, z
  <2>4. \A e \in Range(x) : NewestIn(Range(x), e) /\ Recent(e) => e \in Range(y)
    BY <1>1, <2>2, Zenon DEF NewestIn
  <2> QED
    BY <1>1, <2>2, <2>3, <2>4, Zenon DEF Leaves, x, y
<1> QED
  BY <1>2, <1>3, <1>4, Zenon DEF CompactionStrategy
-----------------------------------------------------------------------------
\* Compaction: the inductive invariant.

LogInv ==
  /\ strategy \in CompactionStrategy
  /\ segments \in Seq(GoodSegment)
  /\ freed \in Nat /\ now \in 0..MaxNow
  /\ appended \subseteq CompactedEntry
  /\ Stored \subseteq appended
  /\ IsInjective(AllEntries(segments))
  /\ PromisedIsKept

LEMMA LogInvInit == LInit => LogInv
<1> SUFFICES ASSUME LInit PROVE LogInv
  BY Zenon
<1>1. /\ strategy \in CompactionStrategy /\ segments = <<>> /\ freed = 0 /\ now = 0
      /\ appended = {}
  BY Zenon DEF LInit
<1>2. <<>> \in Seq(GoodSegment) /\ DOMAIN <<>> = {} /\ 0 \in Nat /\ 0 \in 0..MaxNow
  BY CompactionAssumption
<1>3. AllEntries(segments) = <<>>
  BY <1>1, NoSegments, Zenon
<1>4. Range(<<>>) = {} /\ IsInjective(<<>>)
  BY <1>2, Zenon DEF Range, IsInjective
<1>5. Stored = {} /\ PromisedIsKept
  BY <1>1, <1>3, <1>4, Zenon DEF Stored, PromisedIsKept
<1> QED
  BY <1>1, <1>2, <1>3, <1>4, <1>5, Zenon DEF LogInv

\* append keeps all there is and adds an entry that was not there.
LEMMA LogInvAppend ==
  ASSUME LogInv, NEW k \in Key, NEW len \in Length, NEW o \in 0..MaxAppended,
         append(k, len, o)
  PROVE  LogInv'
<1> DEFINE e == [key |-> k, value |-> len, offset |-> o, timestamp |-> now]
           segs == IF segments = <<>> THEN <<NewSegment(o)>> ELSE segments
           x == AllEntries(segments)
<1>1. /\ strategy \in CompactionStrategy /\ segments \in Seq(GoodSegment)
      /\ freed \in Nat /\ now \in 0..MaxNow /\ appended \subseteq CompactedEntry
      /\ Range(x) \subseteq appended /\ IsInjective(x) /\ PromisedIsKept
  BY Zenon DEF LogInv, Stored
<1>2. /\ \A f \in appended : f.offset # o
      /\ segments' = Add(segs, e) /\ appended' = appended \cup {e}
      /\ strategy' = strategy /\ freed' = freed /\ now' = now
  BY Zenon DEF append
<1>3. e \in CompactedEntry /\ e.offset = o
  BY <1>1 DEF CompactedEntry
<1>4. segs \in Seq(GoodSegment) /\ segs # <<>> /\ AllEntries(segs) = x
  <2>1. CASE segments = <<>>
    <3> DEFINE new == NewSegment(o)
    <3>1. o \in Nat
      BY CompactionAssumption
    <3>2. new \in GoodSegment /\ new.entries = <<>>
      BY <3>1, NewSegmentGood, Zenon
    <3> HIDE DEF new
    <3>3. /\ <<>> \in Seq(GoodSegment) /\ <<new>> = Append(<<>>, new)
          /\ <<new>> \in Seq(GoodSegment) /\ <<new>> # <<>> /\ <<>> \o <<>> = <<>>
      BY <3>2
    <3>4. AllEntries(Append(<<>>, new)) = AllEntries(<<>>) \o new.entries
      BY <3>2, <3>3, SegmentAppend, Zenon
    <3>5. AllEntries(<<new>>) = <<>>
      BY <3>2, <3>3, <3>4, NoSegments, Zenon
    <3> QED
      BY <2>1, <3>3, <3>5, NoSegments, Zenon DEF new
  <2>2. CASE segments # <<>>
    BY <1>1, <2>2, Zenon
  <2> QED
    BY <2>1, <2>2, Zenon
<1> HIDE DEF segs, x, e
<1>5. segments' \in Seq(GoodSegment) /\ AllEntries(segments') = Append(x, e)
  BY <1>2, <1>3, <1>4, AddAppends, Zenon
<1>6. x \in Seq(CompactedEntry)
  BY <1>1, EntriesOfSeq, Zenon DEF EntryList, x
<1>7. e \notin Range(x)
  BY <1>1, <1>2, <1>3, Zenon
<1>8. Range(AllEntries(segments')) = Range(x) \cup {e} /\ IsInjective(AllEntries(segments'))
  <2>1. /\ Range(Append(x, e)) = Range(x) \cup {e}
        /\ IsInjective(Append(x, e)) <=> IsInjective(x) /\ e \notin Range(x)
    BY <1>3, <1>6, RangeAppend, Zenon
  <2> QED
    BY <1>1, <1>5, <1>7, <2>1, Zenon
<1>9. Stored' \subseteq appended' /\ appended' \subseteq CompactedEntry
  BY <1>1, <1>2, <1>3, <1>8, Zenon DEF Stored
<1>10. PromisedIsKept'
  <2> SUFFICES ASSUME NEW f \in appended', strategy # "TimeWindow" => LastOfKey(f)',
                      strategy # "KeepLatest" => Recent(f)', f \in appended
               PROVE  f \in Range(x)
    BY <1>2, <1>8, Zenon DEF PromisedIsKept, Stored
  <2>1. LastOfKey(f)' => LastOfKey(f)
    BY <1>2, Zenon DEF LastOfKey
  <2>2. Recent(f)' => Recent(f)
    BY <1>2, Zenon DEF Recent
  <2> QED
    BY <1>1, <2>1, <2>2, Zenon DEF PromisedIsKept, Stored, x
<1> QED
  BY <1>1, <1>2, <1>5, <1>8, <1>9, <1>10, Zenon DEF LogInv

\* compact_partition loses nothing that is promised and frees no bytes that
\* were not there.
LEMMA LogInvCompact == ASSUME LogInv, compact_partition PROVE LogInv'
<1> DEFINE x == AllEntries(segments)
           y == AllEntries(segments')
<1>1. /\ strategy \in CompactionStrategy /\ segments \in Seq(GoodSegment)
      /\ now \in 0..MaxNow /\ appended \subseteq CompactedEntry
      /\ Range(x) \subseteq appended /\ IsInjective(x) /\ PromisedIsKept
  BY Zenon DEF LogInv, Stored
<1>2. /\ segments' \in Compacted /\ freed' = TotalSize(segments) - TotalSize(segments')
      /\ strategy' = strategy /\ now' = now /\ appended' = appended
  BY Zenon DEF compact_partition
<1>3. segments' \in Seq(GoodSegment) /\ Leaves(x, y)
  BY <1>1, <1>2, CompactedLeaves, Zenon
<1>4. x \in EntryList /\ y \in EntryList
  BY <1>1, <1>3, EntriesOfSeq, Zenon
<1>5. TotalSize(segments) = Weight(x) /\ TotalSize(segments') = Weight(y)
  BY <1>1, <1>3, SizeIsWeight, Zenon
<1>6. Weight(x) \in Nat /\ Weight(y) \in Nat /\ Weight(y) <= Weight(x)
  BY <1>3, <1>4, WeightNat, FewerWeighLess, Zenon DEF Leaves
<1>7. freed' \in Nat
  <2> HIDE DEF x, y
  <2> QED
    BY <1>2, <1>5, <1>6
<1>8. Stored' \subseteq appended' /\ IsInjective(y)
  BY <1>1, <1>2, <1>3, Zenon DEF Leaves, Stored
<1>9. PromisedIsKept'
  <2> SUFFICES ASSUME NEW f \in appended, strategy # "TimeWindow" => LastOfKey(f)',
                      strategy # "KeepLatest" => Recent(f)'
               PROVE  f \in Range(y)
    BY <1>2, Zenon DEF PromisedIsKept, Stored
  <2>1. strategy # "TimeWindow" => LastOfKey(f) /\ NewestIn(Range(x), f)
    BY <1>1, <1>2, Zenon DEF LastOfKey, NewestIn
  <2>2. strategy # "KeepLatest" => Recent(f)
    BY <1>2, Zenon DEF Recent
  <2>3. f \in Range(x)
    BY <1>1, <2>1, <2>2, Zenon DEF PromisedIsKept, Stored
  <2> QED
    BY <1>3, <2>1, <2>2, <2>3, Zenon DEF Leaves
<1> QED
  BY <1>1, <1>2, <1>3, <1>7, <1>8, <1>9, Zenon DEF LogInv

LEMMA LogInvTime == ASSUME LogInv, TimePasses PROVE LogInv'
<1>1. /\ now' = now + 1 /\ now < MaxNow
      /\ strategy' = strategy /\ segments' = segments /\ freed' = freed /\ appended' = appended
  BY Zenon DEF TimePasses
<1>2. now \in 0..MaxNow
  BY Zenon DEF LogInv
<1>3. now' \in 0..MaxNow
  BY <1>1, <1>2, CompactionAssumption
<1>4. \A f \in CompactedEntry : Recent(f)' => Recent(f)
  <2>1. \A f \in CompactedEntry : f.timestamp \in 0..MaxNow
    BY DEF CompactedEntry
  <2>2. \A t \in Nat : t >= now' - Window => t >= now - Window
    BY <1>1, <1>2, CompactionAssumption
  <2>3. \A f \in CompactedEntry : f.timestamp \in Nat
    BY <2>1, CompactionAssumption
  <2> QED
    BY <2>2, <2>3, Zenon DEF Recent
<1>5. Stored' = Stored
  BY <1>1, Zenon DEF Stored
<1>6. PromisedIsKept'
  <2>1. \A f \in appended : LastOfKey(f)' => LastOfKey(f)
    BY <1>1, Zenon DEF LastOfKey
  <2> QED
    BY <1>1, <1>4, <1>5, <2>1, Zenon DEF LogInv, PromisedIsKept
<1> QED
  BY <1>1, <1>3, <1>5, <1>6, Zenon DEF LogInv

LEMMA LogInvStep == LogInv /\ [LNext]_log => LogInv'
<1> SUFFICES ASSUME LogInv, [LNext]_log PROVE LogInv'
  BY Zenon
<1>1. CASE \E k \in Key, len \in Length, o \in 0..MaxAppended : append(k, len, o)
  BY <1>1, LogInvAppend, Zenon
<1>2. CASE compact_partition
  BY <1>2, LogInvCompact, Zenon
<1>3. CASE TimePasses
  BY <1>3, LogInvTime, Zenon
<1>4. CASE UNCHANGED log
  <2>1. /\ strategy' = strategy /\ segments' = segments /\ freed' = freed /\ now' = now
        /\ appended' = appended
    BY <1>4, Zenon DEF log
  <2>2. Stored' = Stored
    BY <2>1, Zenon DEF Stored
  <2>3. PromisedIsKept'
    BY <2>1, <2>2, Zenon DEF LogInv, PromisedIsKept, LastOfKey, Recent
  <2> QED
    BY <2>1, <2>2, <2>3, Zenon DEF LogInv
<1> QED
  BY <1>1, <1>2, <1>3, <1>4, Zenon DEF LNext

LEMMA LogInvAlways == LSpec => []LogInv
  BY LogInvInit, LogInvStep, PTL DEF LSpec

\* What the strategy of LogCompactionManager promises to keep is kept, for
\* every set of keys, number of appends and size of segments.
THEOREM PromisedIsKeptAlways == LSpec => []PromisedIsKept
<1>1. LogInv => PromisedIsKept
  BY Zenon DEF LogInv
<1> QED
  BY <1>1, LogInvAlways, PTL

\* compact_partition neither repeats an entry nor makes one up, the segments
\* weigh what they claim, and the bytes it reports as freed are never negative.
THEOREM EntriesExactAlways == LSpec => []EntriesExact
<1>1. LogInv => EntriesExact
  <2> SUFFICES ASSUME LogInv PROVE EntriesExact
    BY Zenon
  <2>1. freed >= 0
    BY DEF LogInv
  <2>2. segments \in Seq(GoodSegment)
    BY Zenon DEF LogInv
  <2>3. \A i \in DOMAIN segments : segments[i] \in GoodSegment
    BY <2>2
  <2>4. \A i \in DOMAIN segments : segments[i].size_bytes = Weight(segments[i].entries)
    BY <2>3, Zenon DEF GoodSegment, Weighed
  <2> QED
    BY <2>1, <2>4, Zenon DEF LogInv, EntriesExact
<1> QED
  BY <1>1, LogInvAlways, PTL
-----------------------------------------------------------------------------
(* The rate counter *)

RateTyped ==
  /\ count \in Nat /\ last_count \in Nat /\ told \in Nat /\ missed \in Nat
  /\ current \in [Reader -> Nat] /\ last \in [Reader -> Nat]
  /\ step \in [Reader -> {"idle", "last", "lock"}]
  /\ count <= MaxCount

\* Without an overlap the reader under way, if any, has the counts that the
\* one before it left.
Serial ==
  /\ told + missed = last_count /\ last_count <= count
  /\ \A q, r \in Reader : step[q] # "idle" /\ step[r] # "idle" => q = r
  /\ \A r \in Reader :
       /\ step[r] # "idle" => last_count <= current[r] /\ current[r] <= count
       /\ step[r] = "lock" => last[r] = last_count

RateInv == RateTyped /\ (~overlapped => Serial)

\* What the unsigned subtraction of get_rate answers.
LEMMA Remainder ==
  ASSUME NEW x \in Int, NEW w \in Nat, w > 0
  PROVE  x % w \in Nat /\ (0 <= x /\ x < w => x % w = x)
  BY SMTT(30)

LEMMA InitRateInv == MInit => RateInv
  BY MetricsAssumption DEF MInit, RateInv, RateTyped, Serial

\* A reading adds what it stores, so told + missed moves with last_count.
LEMMA RateKeeps ==
  ASSUME RateInv, NEW r \in Reader, Rate(r)
  PROVE  RateInv'
<1> DEFINE new == (current[r] - last[r]) % Word
<1>1. /\ step[r] = "lock" /\ step' = [step EXCEPT ![r] = "idle"] /\ last_count' = current[r]
      /\ UNCHANGED <<count, current, last, overlapped>>
  BY Zenon DEF Rate, StoredCount
<1>2. /\ told' + missed' = told + missed + (IF overlapped THEN 0 ELSE new)
      /\ told' \in Nat /\ missed' \in Nat
  <2>1. new \in Nat
    BY MetricsAssumption, Remainder DEF RateInv, RateTyped
  <2> HIDE DEF new
  <2>2. \/ told' = (IF overlapped THEN told ELSE told + new) /\ missed' = missed
        \/ missed' = (IF overlapped THEN missed ELSE missed + new) /\ told' = told
    BY Zenon DEF Rate, new
  <2> QED
    BY <2>1, <2>2 DEF RateInv, RateTyped
<1>3. RateTyped'
  BY <1>1, <1>2, Zenon DEF RateInv, RateTyped
<1>4. ASSUME ~overlapped PROVE Serial'
  <2>1. /\ told + missed = last_count /\ last_count <= current[r] /\ current[r] <= count
        /\ last[r] = last_count /\ \A q \in Reader \ {r} : step[q] = "idle"
    BY <1>1, <1>4, Zenon DEF RateInv, Serial
  <2>2. /\ current[r] - last[r] \in Int /\ 0 <= current[r] - last[r]
        /\ current[r] - last[r] < Word
    BY <2>1, MetricsAssumption DEF RateInv, RateTyped
  <2>3. new = current[r] - last[r]
    <3>1. Word \in Nat /\ Word > 0
      BY MetricsAssumption
    <3>2. \A x \in Int : 0 <= x /\ x < Word => x % Word = x
      BY <3>1, Remainder, Zenon
    <3> QED
      BY <2>2, <3>2, Zenon
  <2> HIDE DEF new
  <2>4. told' + missed' = told + missed + new
    BY <1>2, <1>4, Zenon
  <2>5. told' + missed' = last_count'
    BY <1>1, <2>1, <2>3, <2>4 DEF RateInv, RateTyped
  <2>6. \A q \in Reader : step'[q] = "idle"
    BY <1>1, <2>1, Zenon DEF RateInv, RateTyped
  <2> QED
    BY <1>1, <2>1, <2>5, <2>6, Zenon DEF Serial
<1> QED
  BY <1>1, <1>3, <1>4, Zenon DEF RateInv

LEMMA LoadKeeps ==
  ASSUME RateInv, NEW r \in Reader, LoadCount(r) \/ LoadLastCount(r) \/ RatePanics(r)
  PROVE  RateInv'
<1>1. CASE LoadCount(r)
  <2>1. RateTyped'
    BY <1>1, Zenon DEF LoadCount, RateInv, RateTyped
  <2>2. ASSUME ~overlapped' PROVE Serial'
    <3>1. /\ ~overlapped /\ \A q \in Reader : step[q] = "idle"
          /\ UNCHANGED <<count, last_count, told, missed>>
      BY <1>1, <2>2, Zenon DEF LoadCount
    <3>2. /\ current'[r] = count /\ step'[r] = "last"
          /\ \A q \in Reader \ {r} : step'[q] = "idle"
      BY <1>1, <3>1, Zenon DEF LoadCount, RateInv, RateTyped
    <3> QED
      BY <3>1, <3>2 DEF RateInv, RateTyped, Serial
  <2> QED
    BY <2>1, <2>2, Zenon DEF RateInv
<1>2. CASE LoadLastCount(r)
  BY <1>2, Zenon DEF LoadLastCount, RateInv, RateTyped, Serial
<1>3. CASE RatePanics(r)
  BY <1>3, Zenon DEF RatePanics, RateInv, RateTyped, Serial
<1> QED
  BY <1>1, <1>2, <1>3, Zenon

LEMMA NextRateInv == RateInv /\ [MNext]_mvars => RateInv'
<1> SUFFICES ASSUME RateInv, [MNext]_mvars PROVE RateInv'
  BY Zenon
<1>1. CASE increment
  BY <1>1, MetricsAssumption DEF increment, RateInv, RateTyped, Serial
<1>2. ASSUME UNCHANGED <<count, last_count, step, current, last, overlapped, told, missed>>
      PROVE  RateInv'
  BY <1>2, Zenon DEF RateInv, RateTyped, Serial
<1>3. CASE ClockNext \/ LatencyNext \/ UNCHANGED mvars
  BY <1>2, <1>3, Zenon DEF ClockNext, SetTicks, LatencyNext, record, mvars, counter
<1> QED
  BY <1>1, <1>3, RateKeeps, LoadKeeps, Zenon DEF MNext, RateNext

\* For any number of readers and increments, and any clock: while no two calls
\* of get_rate overlap, every message counted is in one answer or still to come.
THEOREM ReadingsAddUp == MSpec => []RatesAddUp
<1>1. RateInv => RatesAddUp
  BY DEF RateInv, RateTyped, Serial, RatesAddUp
<1> QED
  BY <1>1, InitRateInv, NextRateInv, PTL DEF MSpec
-----------------------------------------------------------------------------
\* Metrics: counting values.

\* How many elements of a list are in A.
CountIn(s, A) == Len(Picked(s, {i \in DOMAIN s : s[i] \in A}))

LEMMA CountNothing == ASSUME NEW A PROVE CountIn(<<>>, A) = 0
<1>1. Len(<<>>) = 0
  OBVIOUS
<1> QED
  BY <1>1, PickedNothing, Zenon DEF CountIn

LEMMA CountAppend ==
  ASSUME NEW S, NEW s \in Seq(S), NEW x \in S, NEW A
  PROVE  /\ CountIn(s, A) \in Nat
         /\ CountIn(Append(s, x), A) = IF x \in A THEN CountIn(s, A) + 1 ELSE CountIn(s, A)
<1> DEFINE n == Len(s)
           m == Append(s, x)
           I == {i \in DOMAIN m : m[i] \in A}
           J == {i \in DOMAIN s : s[i] \in A}
           u == Picked(s, J)
<1>1. /\ DOMAIN s = 1..n /\ DOMAIN m = 1..(n + 1) /\ n + 1 \in 1..(n + 1)
      /\ \A i \in 1..n : i \in 1..(n + 1)
  BY Places, Zenon
<1>2. m[n + 1] = x /\ \A i \in 1..n : m[i] = s[i]
  BY Appended
<1> HIDE DEF n, m
<1>3. AgreeUpTo(n, I, J) /\ (n + 1 \in I <=> x \in A)
  BY <1>1, <1>2, Zenon DEF AgreeUpTo
<1> HIDE DEF I, J
<1>4. Picked(Append(s, x), I) = IF n + 1 \in I THEN Append(u, x) ELSE u
  BY <1>3, PickedAppend DEF n
<1>5. u \in Seq(S)
  BY PickedIsSeq, Zenon
<1> HIDE DEF u
<1>6. Len(u) \in Nat /\ Len(Append(u, x)) = Len(u) + 1
  BY <1>5
<1>7. CountIn(m, A) = Len(Picked(Append(s, x), I)) /\ CountIn(s, A) = Len(u)
  BY Zenon DEF CountIn, I, J, m, u
<1> QED
  BY <1>3, <1>4, <1>6, <1>7, Zenon DEF m

\* If every element in A is in B, no more are in A than in B.
LEMMA CountBelow ==
  ASSUME NEW S, NEW s \in Seq(S), NEW A, NEW B, \A x \in Range(s) : x \in A => x \in B
  PROVE  CountIn(s, A) \in Nat /\ CountIn(s, B) \in Nat /\ CountIn(s, A) <= CountIn(s, B)
<1> DEFINE Q(r) == \A x \in Range(r) : x \in A => x \in B
           P(r) == CountIn(r, A) \in Nat /\ CountIn(r, B) \in Nat /\ CountIn(r, A) <= CountIn(r, B)
           T == {r \in Seq(S) : Q(r) => P(r)}
<1>1. <<>> \in T
  <2>1. <<>> \in Seq(S)
    OBVIOUS
  <2>2. CountIn(<<>>, A) = 0 /\ CountIn(<<>>, B) = 0
    BY CountNothing, Zenon
  <2>3. P(<<>>)
    BY <2>2
  <2> HIDE DEF P, Q
  <2> QED
    BY <2>1, <2>3, Zenon
<1>2. ASSUME NEW r \in Seq(S), NEW x \in S, Q(r) => P(r), Q(Append(r, x))
      PROVE  P(Append(r, x))
  <2> DEFINE m == Append(r, x)
  <2>2. Range(m) = Range(r) \cup {x}
    BY RangeAppend, ZenonT(30)
  <2>3. P(r) /\ (x \in A => x \in B)
    BY <1>2, <2>2, Zenon
  <2>4. /\ CountIn(m, A) = IF x \in A THEN CountIn(r, A) + 1 ELSE CountIn(r, A)
        /\ CountIn(m, B) = IF x \in B THEN CountIn(r, B) + 1 ELSE CountIn(r, B)
    BY CountAppend
  <2> HIDE DEF m, Q
  <2>5. P(m)
    BY <2>3, <2>4
  <2> QED
    BY <2>5, Zenon DEF m
<1>5. \A r \in Seq(S), x \in S : r \in T => Append(r, x) \in T
  <2>1. \A r \in Seq(S), x \in S : Append(r, x) \in Seq(S)
    OBVIOUS
  <2> HIDE DEF P, Q
  <2> QED
    BY <1>2, <2>1, Zenon
<1>3. \A r \in Seq(S) : r \in T
  <2> HIDE DEF T
  <2> QED
    BY <1>1, <1>5, ListInduction, Zenon
<1> HIDE DEF P
<1>4. P(s)
  BY <1>3, Zenon
<1> QED
  BY <1>4, Zenon DEF P

LEMMA CountNone ==
  ASSUME NEW S, NEW s \in Seq(S), NEW A, \A x \in Range(s) : x \notin A
  PROVE  CountIn(s, A) = 0
<1> DEFINE Q(r) == \A x \in Range(r) : x \notin A
           P(r) == CountIn(r, A) = 0
           T == {r \in Seq(S) : Q(r) => P(r)}
<1>1. <<>> \in T
  <2>1. <<>> \in Seq(S)
    OBVIOUS
  <2> QED
    BY <2>1, CountNothing, Zenon
<1>2. ASSUME NEW r \in Seq(S), NEW x \in S, Q(r) => P(r), Q(Append(r, x))
      PROVE  P(Append(r, x))
  <2>2. Range(Append(r, x)) = Range(r) \cup {x}
    BY RangeAppend
  <2>3. CountIn(r, A) = 0 /\ x \notin A
    BY <1>2, <2>2, Zenon
  <2>4. CountIn(Append(r, x), A) = IF x \in A THEN CountIn(r, A) + 1 ELSE CountIn(r, A)
    BY CountAppend
  <2> QED
    BY <2>3, <2>4, Zenon
<1>5. \A r \in Seq(S), x \in S : r \in T => Append(r, x) \in T
  <2>1. \A r \in Seq(S), x \in S : Append(r, x) \in Seq(S)
    OBVIOUS
  <2> HIDE DEF P, Q
  <2> QED
    BY <1>2, <2>1, Zenon
<1>3. \A r \in Seq(S) : r \in T
  <2> HIDE DEF T
  <2> QED
    BY <1>1, <1>5, ListInduction, Zenon
<1> QED
  BY <1>3, Zenon

LEMMA CountAll ==
  ASSUME NEW S, NEW s \in Seq(S)
  PROVE  CountIn(s, S) = Len(s)
<1> DEFINE T == {r \in Seq(S) : CountIn(r, S) = Len(r)}
<1>1. <<>> \in T
  <2>1. <<>> \in Seq(S) /\ Len(<<>>) = 0
    OBVIOUS
  <2> QED
    BY <2>1, CountNothing, Zenon
<1>2. \A r \in Seq(S), x \in S : r \in T => Append(r, x) \in T
  <2> SUFFICES ASSUME NEW r \in Seq(S), NEW x \in S, CountIn(r, S) = Len(r)
               PROVE  Append(r, x) \in Seq(S) /\ CountIn(Append(r, x), S) = Len(Append(r, x))
    BY Zenon
  <2>1. Append(r, x) \in Seq(S) /\ Len(Append(r, x)) = Len(r) + 1
    OBVIOUS
  <2>2. CountIn(Append(r, x), S) = IF x \in S THEN CountIn(r, S) + 1 ELSE CountIn(r, S)
    BY CountAppend
  <2> QED
    BY <2>1, <2>2, Zenon
<1>3. \A r \in Seq(S) : r \in T
  <2> HIDE DEF T
  <2> QED
    BY <1>1, <1>2, ListInduction, Zenon
<1> QED
  BY <1>3, Zenon

\* The greatest element of a list that is in A.
Tops(s, A, u) == u \in Range(s) /\ u \in A /\ \A x \in Range(s) : x \in A => x <= u

LEMMA TopExists ==
  ASSUME NEW s \in Seq(Nat), NEW A, \E x \in Range(s) : x \in A
  PROVE  \E u : Tops(s, A, u)
<1> DEFINE Q(r) == \E x \in Range(r) : x \in A
           P(r) == \E u : Tops(r, A, u)
           T == {r \in Seq(Nat) : Q(r) => P(r)}
<1>1. <<>> \in T
  <2>1. <<>> \in Seq(Nat) /\ DOMAIN <<>> = {}
    OBVIOUS
  <2>2. Range(<<>>) = {}
    BY <2>1, Zenon DEF Range
  <2> QED
    BY <2>1, <2>2, Zenon
<1>2. ASSUME NEW r \in Seq(Nat), NEW x \in Nat, Q(r) => P(r), Q(Append(r, x))
      PROVE  P(Append(r, x))
  <2> DEFINE m == Append(r, x)
  <2>1. m \in Seq(Nat) /\ x <= x
    OBVIOUS
  <2>2. Range(m) = Range(r) \cup {x}
    BY RangeAppend, ZenonT(30)
  <2>3. \A y \in Range(r) : y \in Nat
    BY DEF Range
  <2> HIDE DEF m
  <2>4. CASE ~Q(r)
    <3>1. Tops(m, A, x)
      BY <1>2, <2>1, <2>2, <2>4, Zenon DEF Tops, m
    <3> QED
      BY <2>1, <3>1, Zenon DEF m
  <2>5. CASE Q(r)
    <3>1. PICK u : Tops(r, A, u)
      BY <1>2, <2>5, Zenon
    <3>2. u \in Nat
      BY <2>3, <3>1, Zenon DEF Tops
    <3>3. CASE x \in A /\ x > u
      <4>1. \A y \in Nat : y <= u => y <= x
        BY <3>2, <3>3
      <4>2. Tops(m, A, x)
        BY <2>1, <2>2, <2>3, <3>1, <3>3, <4>1, Zenon DEF Tops
      <4> QED
        BY <2>1, <4>2, Zenon DEF m
    <3>4. CASE x \notin A \/ ~(x > u)
      <4>1. x \in A => x <= u
        BY <3>2, <3>4
      <4>2. Tops(m, A, u)
        BY <2>2, <3>1, <4>1, Zenon DEF Tops
      <4> QED
        BY <2>1, <4>2, Zenon DEF m
    <3> QED
      BY <3>3, <3>4, Zenon
  <2> QED
    BY <2>4, <2>5, Zenon
<1>5. \A r \in Seq(Nat), x \in Nat : r \in T => Append(r, x) \in T
  <2>1. \A r \in Seq(Nat), x \in Nat : Append(r, x) \in Seq(Nat)
    OBVIOUS
  <2> HIDE DEF P, Q
  <2> QED
    BY <1>2, <2>1, Zenon
<1>3. \A r \in Seq(Nat) : r \in T
  <2> HIDE DEF T
  <2> QED
    BY <1>1, <1>5, ListInduction, Zenon
<1> HIDE DEF P
<1>4. P(s)
  BY <1>3, Zenon
<1> QED
  BY <1>4, Zenon DEF P
-----------------------------------------------------------------------------
\* Metrics: buckets.

LEMMA FirstIs ==
  ASSUME NEW I \in SUBSET Nat, I # {}
  PROVE  First(I) \in I /\ \A j \in I : First(I) <= j
<1>1. \E i \in I : \A j \in I : i <= j
  BY LeastNatural, Zenon
<1> QED
  BY <1>1, Zenon DEF First

LEMMA TotalZero ==
  ASSUME NEW s \in Seq(Nat), \A i \in 1..Len(s) : s[i] = 0
  PROVE  Total(s) = 0
<1> DEFINE n == Len(s)
<1>1. n \in Nat /\ n \in 0..n /\ 0 \in 0..n /\ \A i \in 1..n : i \in 0..n
  OBVIOUS
<1>2. PICK f : Summed(s, f) /\ Total(s) = f[n]
  BY TotalRuns, Zenon
<1> DEFINE T == {i \in 0..n : f[i] = 0}
<1>3. 0 \in T
  BY <1>1, <1>2, Zenon DEF Summed
<1>4. \A i \in 1..n : i - 1 \in T => i \in T
  <2> SUFFICES ASSUME NEW i \in 1..n, i - 1 \in T PROVE f[i] = 0
    BY <1>1, Zenon
  <2>1. f[i] = f[i - 1] + s[i] /\ f[i - 1] = 0 /\ s[i] = 0
    BY <1>2, Zenon DEF Summed
  <2> HIDE DEF T
  <2> QED
    BY <2>1
<1>5. \A i \in 0..n : i \in T
  <2> HIDE DEF T, n
  <2> QED
    BY <1>1, <1>3, <1>4, Reaches, Zenon
<1> QED
  BY <1>1, <1>2, <1>5, Zenon

N == Len(bucket_bounds)

LEMMA Bounds ==
  /\ N \in Nat /\ Bucket = 1..(N + 1) /\ DOMAIN bucket_bounds = 1..N
  /\ \A i \in 1..N : bucket_bounds[i] \in Nat
  BY MetricsAssumption DEF N, Bucket

LEMMA BucketFound ==
  ASSUME NEW v \in Nat
  PROVE  /\ BucketOf(v) \in Bucket
         /\ \A i \in 1..N : i < BucketOf(v) => bucket_bounds[i] <= v
         /\ BucketOf(v) = N + 1 \/ (BucketOf(v) \in 1..N /\ v < bucket_bounds[BucketOf(v)])
<1> DEFINE I == {i \in DOMAIN bucket_bounds : v < bucket_bounds[i]} \cup {Len(bucket_bounds) + 1}
<1>1. BucketOf(v) = First(I)
  BY Zenon DEF BucketOf
<1>2. I \in SUBSET Nat /\ I # {}
  BY Bounds DEF N
<1>3. First(I) \in I /\ \A j \in I : First(I) <= j
  <2> HIDE DEF I
  <2> QED
    BY <1>2, FirstIs, Zenon
<1>4. First(I) = N + 1 \/ (First(I) \in 1..N /\ v < bucket_bounds[First(I)])
  BY <1>3, Bounds, Zenon DEF N
<1>5. \A i \in 1..N : v < bucket_bounds[i] => First(I) <= i
  BY <1>3, Bounds, Zenon
<1> HIDE DEF I
<1>6. First(I) \in Bucket
  BY <1>4, Bounds
<1>7. \A i \in 1..N : i < First(I) => bucket_bounds[i] <= v
  BY <1>5, <1>6, Bounds
<1> QED
  BY <1>1, <1>4, <1>6, <1>7, Zenon

LEMMA BucketMonotone ==
  ASSUME NEW x \in Nat, NEW v \in Nat, x <= v
  PROVE  BucketOf(x) <= BucketOf(v)
<1> DEFINE b == BucketOf(x)
           c == BucketOf(v)
<1>1. /\ b \in Bucket /\ c \in Bucket
      /\ \A i \in 1..N : i < b => bucket_bounds[i] <= x
      /\ c = N + 1 \/ (c \in 1..N /\ v < bucket_bounds[c])
  BY BucketFound, Zenon
<1> HIDE DEF b, c
<1>2. b <= c
  BY <1>1, Bounds
<1> QED
  BY <1>2, Zenon DEF b, c

LEMMA LowerBoundNat == ASSUME NEW i \in Bucket PROVE LowerBound(i) \in Nat
  BY Bounds DEF LowerBound

LEMMA LowerBoundBelow ==
  ASSUME NEW v \in Nat
  PROVE  LowerBound(BucketOf(v)) \in Nat /\ LowerBound(BucketOf(v)) <= v
<1> DEFINE b == BucketOf(v)
<1>1. b \in Bucket /\ \A i \in 1..N : i < b => bucket_bounds[i] <= v
  BY BucketFound, Zenon
<1> HIDE DEF b
<1>2. LowerBound(b) \in Nat
  BY <1>1, LowerBoundNat, Zenon
<1>3. LowerBound(b) <= v
  BY <1>1, Bounds DEF LowerBound
<1> QED
  BY <1>2, <1>3, Zenon DEF b

\* (n * a) \div b is at most n where a / b is at most 1.
LEMMA RankBound ==
  ASSUME NEW n \in Nat, NEW a \in Nat, NEW b \in Nat \ {0}, a <= b
  PROVE  (n * a) \div b \in Nat /\ (n * a) \div b <= n
<1> DEFINE m == n * a
           q == m \div b
<1>1. m \in Nat /\ m <= n * b
  OBVIOUS
<1> HIDE DEF m
<1>2. q \in Nat /\ q * b <= m
  BY <1>1
<1> HIDE DEF q
<1>3. q <= n
  <2> SUFFICES ASSUME q > n PROVE FALSE
    BY <1>2
  <2>1. q >= n + 1
    BY <1>2
  <2>2. q * b >= (n + 1) * b
    BY <1>2, <2>1
  <2>3. (n + 1) * b = n * b + b
    OBVIOUS
  <2> QED
    BY <1>1, <1>2, <2>2, <2>3
<1> QED
  BY <1>2, <1>3, Zenon DEF m, q
-----------------------------------------------------------------------------
\* Metrics: the inductive invariant of the histogram.

\* The values that go into the first i buckets.
Within(i) == {v \in Latency : BucketOf(v) <= i}

Weights == [i \in Bucket |-> LowerBound(i) * buckets[i]]

HistogramInv ==
  /\ buckets \in [Bucket -> Nat]
  /\ samples \in Seq(Latency)
  /\ \A i \in Bucket : UpTo(i) = CountIn(samples, Within(i))
  /\ AverageSum <= Total(samples)

\* The first i buckets, as a list.
LEMMA FirstBuckets ==
  ASSUME NEW f \in [Bucket -> Nat], NEW i \in Bucket
  PROVE  /\ SubSeq(f, 1, i) \in Seq(Nat) /\ Len(SubSeq(f, 1, i)) = i
         /\ \A j \in 1..i : SubSeq(f, 1, i)[j] = f[j]
<1>1. f \in Seq(Nat) /\ Len(f) = N + 1 /\ i \in 1..(N + 1)
  BY Bounds
<1> QED
  BY <1>1, Bounds

LEMMA BucketList == ASSUME NEW f \in [Bucket -> Nat] PROVE f \in Seq(Nat) /\ Len(f) = N + 1
  BY Bounds

LEMMA SamplesNat == ASSUME NEW s \in Seq(Latency) PROVE s \in Seq(Nat)
<1> DEFINE n == Len(s)
<1>1. n \in Nat /\ s \in [1..n -> Latency]
  OBVIOUS
<1> HIDE DEF n
<1>2. s \in [1..n -> Nat]
  BY <1>1, MetricsAssumption, Zenon
<1> QED
  BY <1>1, <1>2

LEMMA HistogramInvInit == MInit => HistogramInv
<1> SUFFICES ASSUME MInit PROVE HistogramInv
  BY Zenon
<1>1. buckets = [i \in Bucket |-> 0] /\ samples = <<>>
  BY Zenon DEF MInit
<1>2. /\ buckets \in [Bucket -> Nat] /\ samples \in Seq(Latency)
      /\ \A i \in Bucket : buckets[i] = 0
  BY <1>1
<1>3. ASSUME NEW i \in Bucket PROVE UpTo(i) = 0
  <2> DEFINE s == SubSeq(buckets, 1, i)
  <2>1. s \in Seq(Nat) /\ Len(s) = i /\ \A j \in 1..i : s[j] = buckets[j]
    BY <1>2, FirstBuckets, Zenon
  <2>2. \A j \in 1..i : j \in Bucket
    BY Bounds
  <2> HIDE DEF s
  <2>3. Total(s) = 0
    BY <1>2, <2>1, <2>2, TotalZero, Zenon
  <2> QED
    BY <2>3, Zenon DEF UpTo, s
<1>4. AverageSum = 0
  <2>1. \A i \in Bucket : LowerBound(i) * buckets[i] = 0
    BY <1>2, LowerBoundNat
  <2>2. Weights \in [Bucket -> Nat] /\ \A i \in Bucket : Weights[i] = 0
    BY <2>1 DEF Weights
  <2>3. Weights \in Seq(Nat) /\ Len(Weights) = N + 1
    BY <2>2, BucketList, Zenon
  <2>4. Total(Weights) = 0
    BY <2>2, <2>3, Bounds, TotalZero, Zenon
  <2> QED
    BY <2>4, Zenon DEF AverageSum, Weights
<1>5. \A i \in Bucket : UpTo(i) = CountIn(samples, Within(i))
  BY <1>1, <1>3, CountNothing, Zenon
<1>6. AverageSum <= Total(samples)
  <2>1. Total(samples) = 0
    BY <1>1, TotalNothing, Zenon
  <2> QED
    BY <1>4, <2>1
<1> QED
  BY <1>2, <1>5, <1>6, Zenon DEF HistogramInv

\* record counts the value in its bucket and every sum from there on.
LEMMA UpToGrows ==
  ASSUME buckets \in [Bucket -> Nat], NEW b \in Bucket,
         buckets' = [buckets EXCEPT ![b] = @ + 1], NEW i \in Bucket
  PROVE  /\ UpTo(i) \in Nat
         /\ UpTo(i)' = IF b <= i THEN UpTo(i) + 1 ELSE UpTo(i)
<1> DEFINE s == SubSeq(buckets, 1, i)
           q == SubSeq(buckets', 1, i)
<1>1. /\ buckets' \in [Bucket -> Nat] /\ buckets[b] \in Nat /\ buckets'[b] = buckets[b] + 1
      /\ \A j \in Bucket : j # b => buckets'[j] = buckets[j]
  OBVIOUS
<1>2. /\ s \in Seq(Nat) /\ Len(s) = i /\ \A j \in 1..i : s[j] = buckets[j]
      /\ q \in Seq(Nat) /\ Len(q) = i /\ \A j \in 1..i : q[j] = buckets'[j]
  BY <1>1, FirstBuckets, Zenon
<1>3. /\ i \in Nat /\ b \in Nat /\ \A j \in 1..i : j \in Bucket
      /\ b <= i => b \in 1..i
  BY Bounds
<1>4. UpTo(i) = Total(s) /\ UpTo(i)' = Total(q)
  BY Zenon DEF UpTo
<1> HIDE DEF s, q
<1>5. Total(s) \in Nat /\ Total(q) \in Nat
  BY <1>2, TotalNat, Zenon
<1>6. CASE b <= i
  <2>1. Apart(b, s, q)
    BY <1>1, <1>2, <1>3, <1>6, Zenon DEF Apart
  <2>2. Total(s) + q[b] = Total(q) + s[b]
    BY <1>2, <2>1, TotalChanged, Zenon
  <2>3. s[b] = buckets[b] /\ q[b] = buckets[b] + 1
    BY <1>1, <1>2, <1>3, <1>6, Zenon
  <2>4. Total(q) = Total(s) + 1
    BY <1>1, <1>5, <2>2, <2>3
  <2> QED
    BY <1>4, <1>5, <1>6, <2>4, Zenon
<1>7. CASE ~(b <= i)
  <2>1. b \notin 1..i
    BY <1>3, <1>7
  <2>2. \A j \in 1..i : q[j] = s[j]
    BY <1>1, <1>2, <1>3, <2>1, Zenon
  <2>3. q = s
    BY <1>2, <2>2
  <2> QED
    BY <1>4, <1>5, <1>7, <2>3, Zenon
<1> QED
  BY <1>6, <1>7, Zenon

LEMMA AverageGrows ==
  ASSUME buckets \in [Bucket -> Nat], NEW b \in Bucket,
         buckets' = [buckets EXCEPT ![b] = @ + 1]
  PROVE  AverageSum \in Nat /\ AverageSum' = AverageSum + LowerBound(b)
<1>1. /\ buckets' \in [Bucket -> Nat] /\ buckets[b] \in Nat /\ buckets'[b] = buckets[b] + 1
      /\ \A j \in Bucket : j # b => buckets'[j] = buckets[j]
  OBVIOUS
<1>2. \A i \in Bucket : LowerBound(i) \in Nat /\ LowerBound(i)' = LowerBound(i)
  BY LowerBoundNat, Zenon DEF LowerBound
<1> DEFINE s == Weights
           q == Weights'
<1>3. /\ s = [i \in Bucket |-> LowerBound(i) * buckets[i]]
      /\ q = [i \in Bucket |-> LowerBound(i) * buckets'[i]]
  BY <1>2, Zenon DEF Weights
<1>4. \A i \in Bucket : LowerBound(i) * buckets[i] \in Nat /\ LowerBound(i) * buckets'[i] \in Nat
  BY <1>1, <1>2
<1> HIDE DEF s, q
<1>5. s \in [Bucket -> Nat] /\ q \in [Bucket -> Nat]
  BY <1>3, <1>4, Zenon
<1>6. s \in Seq(Nat) /\ q \in Seq(Nat) /\ Len(s) = N + 1 /\ Len(q) = N + 1
  BY <1>5, BucketList, Zenon
<1>7. \A i \in Bucket : i # b => s[i] = q[i]
  BY <1>1, <1>3, Zenon
<1>8. Apart(b, s, q)
  BY <1>6, <1>7, Bounds, Zenon DEF Apart
<1>9. Total(s) + q[b] = Total(q) + s[b]
  BY <1>6, <1>8, TotalChanged, Zenon
<1>10. q[b] = s[b] + LowerBound(b) /\ s[b] \in Nat
  <2>1. \A l, x \in Nat : l * (x + 1) = l * x + l
    OBVIOUS
  <2>2. s[b] = LowerBound(b) * buckets[b] /\ q[b] = LowerBound(b) * (buckets[b] + 1)
    BY <1>1, <1>3, Zenon
  <2>3. LowerBound(b) * (buckets[b] + 1) = LowerBound(b) * buckets[b] + LowerBound(b)
    BY <1>1, <1>2, <2>1, Zenon
  <2> QED
    BY <1>5, <2>2, <2>3, Zenon
<1>11. Total(s) \in Nat /\ Total(q) \in Nat /\ LowerBound(b) \in Nat
  BY <1>2, <1>6, TotalNat, Zenon
<1>12. Total(q) = Total(s) + LowerBound(b)
  BY <1>9, <1>10, <1>11
<1>13. AverageSum = Total(s) /\ AverageSum' = Total(q)
  BY Zenon DEF AverageSum, Weights, s, q
<1> QED
  BY <1>11, <1>12, <1>13, Zenon

LEMMA HistogramInvRecord ==
  ASSUME HistogramInv, NEW v \in Latency, record(v)
  PROVE  HistogramInv'
<1> DEFINE b == BucketOf(v)
<1>1. /\ buckets \in [Bucket -> Nat] /\ samples \in Seq(Latency)
      /\ \A i \in Bucket : UpTo(i) = CountIn(samples, Within(i))
      /\ AverageSum <= Total(samples)
  BY Zenon DEF HistogramInv
<1>2. buckets' = [buckets EXCEPT ![b] = @ + 1] /\ samples' = Append(samples, v)
  BY Zenon DEF record
<1>3. v \in Nat
  BY MetricsAssumption, Zenon
<1>4. b \in Bucket /\ LowerBound(b) \in Nat /\ LowerBound(b) <= v
  BY <1>3, BucketFound, LowerBoundBelow, Zenon
<1>5. \A i \in Bucket : v \in Within(i) <=> b <= i
  BY Zenon DEF Within
<1> HIDE DEF b
<1>6. buckets' \in [Bucket -> Nat] /\ samples' \in Seq(Latency)
  BY <1>1, <1>2, <1>4
<1>7. \A i \in Bucket : UpTo(i)' = CountIn(samples', Within(i))
  <2> SUFFICES ASSUME NEW i \in Bucket PROVE UpTo(i)' = CountIn(samples', Within(i))
    BY Zenon
  <2>1. UpTo(i)' = IF b <= i THEN UpTo(i) + 1 ELSE UpTo(i)
    BY <1>1, <1>2, <1>4, UpToGrows, Zenon
  <2>2. CountIn(Append(samples, v), Within(i)) =
          IF v \in Within(i) THEN CountIn(samples, Within(i)) + 1 ELSE CountIn(samples, Within(i))
    BY <1>1, CountAppend
  <2> QED
    BY <1>1, <1>2, <1>5, <2>1, <2>2, Zenon
<1>8. AverageSum' <= Total(samples')
  <2>1. AverageSum \in Nat /\ AverageSum' = AverageSum + LowerBound(b)
    BY <1>1, <1>2, <1>4, AverageGrows, Zenon
  <2>2. samples \in Seq(Nat)
    BY <1>1, SamplesNat, Zenon
  <2>3. Total(samples') = Total(samples) + v /\ Total(samples) \in Nat
    BY <1>2, <1>3, <2>2, TotalAppend, TotalNat, Zenon
  <2>4. AverageSum <= Total(samples)
    BY <1>1, Zenon
  <2> QED
    BY <1>3, <1>4, <2>1, <2>3, <2>4
<1>9. \A i \in Bucket : Within(i)' = Within(i)
  BY Zenon DEF Within, BucketOf
<1> QED
  BY <1>6, <1>7, <1>8, <1>9, Zenon DEF HistogramInv

LEMMA HistogramInvStep == HistogramInv /\ [MNext]_mvars => HistogramInv'
<1> SUFFICES ASSUME HistogramInv, [MNext]_mvars PROVE HistogramInv'
  BY Zenon
<1>1. CASE LatencyNext
  BY <1>1, HistogramInvRecord, Zenon DEF LatencyNext
<1>2. CASE RateNext \/ UNCHANGED mvars
  <2>1. buckets' = buckets /\ samples' = samples
    BY <1>2, Zenon DEF RateNext, ClockNext, increment, LoadCount, LoadLastCount, Rate,
       RatePanics, SetTicks, mvars, histogram
  <2>2. \A i \in Bucket : UpTo(i)' = UpTo(i)
    BY <2>1, Zenon DEF UpTo
  <2>3. AverageSum' = AverageSum
    BY <2>1, Zenon DEF AverageSum, LowerBound
  <2>4. \A i \in Bucket : Within(i)' = Within(i)
    BY Zenon DEF Within, BucketOf
  <2> QED
    BY <2>1, <2>2, <2>3, <2>4, Zenon DEF HistogramInv
<1> QED
  BY <1>1, <1>2, Zenon DEF MNext

\* The value of rank k, and the bucket that the running sum finds for it.
LEMMA Ranked ==
  ASSUME HistogramInv, NEW k \in Nat, k > 0, k <= Len(samples)
  PROVE  \E v \in Latency : /\ AtMost(v) >= k
                            /\ \A w \in Latency : w < v => AtMost(w) < k
                            /\ First({i \in Bucket : UpTo(i) >= k}) = BucketOf(v)
<1> DEFINE Upto(v) == {x \in Latency : x <= v}
           V == {v \in Latency : AtMost(v) >= k}
           I == {i \in Bucket : UpTo(i) >= k}
<1>1. /\ samples \in Seq(Latency) /\ samples \in Seq(Nat) /\ Latency \subseteq Nat
      /\ \A i \in Bucket : UpTo(i) = CountIn(samples, Within(i))
  BY SamplesNat, MetricsAssumption, Zenon DEF HistogramInv
<1>2. Range(samples) \subseteq Latency /\ Len(samples) \in Nat
  BY <1>1 DEF Range
<1>3. \A v \in Latency : AtMost(v) = CountIn(samples, Upto(v))
  <2> SUFFICES ASSUME NEW v \in Latency PROVE AtMost(v) = CountIn(samples, Upto(v))
    BY Zenon
  <2>1. \A i \in DOMAIN samples : samples[i] \in Latency
    BY <1>1
  <2>2. {i \in DOMAIN samples : samples[i] <= v} = {i \in DOMAIN samples : samples[i] \in Upto(v)}
    BY <2>1, Zenon
  <2> QED
    BY <2>2, Zenon DEF AtMost, CountIn
<1>4. \A A, B : (\A x \in Range(samples) : x \in A => x \in B) =>
        /\ CountIn(samples, A) \in Nat /\ CountIn(samples, B) \in Nat
        /\ CountIn(samples, A) <= CountIn(samples, B)
  BY <1>1, CountBelow, Zenon
<1>5. CountIn(samples, Latency) = Len(samples)
  BY <1>1, CountAll, Zenon
<1>6. \E v \in Latency : v \in V
  <2>1. \E x \in Range(samples) : x \in Latency
    <3>1. 1 \in DOMAIN samples
      BY <1>1
    <3> QED
      BY <1>2, <3>1, Zenon DEF Range
  <2>2. PICK u : Tops(samples, Latency, u)
    BY <1>1, <2>1, TopExists, Zenon
  <2>3. u \in Latency /\ \A x \in Range(samples) : x \in Latency => x \in Upto(u)
    BY <2>2, Zenon DEF Tops
  <2> HIDE DEF Upto
  <2>4. AtMost(u) \in Nat /\ Len(samples) <= AtMost(u)
    <3>1. /\ CountIn(samples, Upto(u)) \in Nat
          /\ CountIn(samples, Latency) <= CountIn(samples, Upto(u))
      BY <1>4, <2>3, Zenon
    <3>2. AtMost(u) = CountIn(samples, Upto(u))
      BY <1>3, <2>3, Zenon
    <3> QED
      BY <1>5, <3>1, <3>2
  <2>5. AtMost(u) >= k
    BY <1>2, <2>4
  <2> QED
    BY <2>3, <2>5, Zenon
<1> HIDE DEF Upto
<1>7. PICK v \in V : \A w \in V : v <= w
  <2>1. V \in SUBSET Nat /\ V # {}
    BY <1>1, <1>6, Zenon
  <2> HIDE DEF V
  <2> QED
    BY <2>1, LeastNatural, Zenon
<1>8. v \in Latency /\ v \in Nat /\ AtMost(v) >= k
  BY <1>1, <1>7, Zenon
<1>9. ASSUME NEW w \in Latency, w < v PROVE AtMost(w) < k
  <2>1. ~(AtMost(w) >= k)
    <3>1. w \in Nat
      BY <1>1, Zenon
    <3>2. ~(v <= w)
      BY <1>8, <1>9, <3>1
    <3> QED
      BY <1>7, <3>2, Zenon
  <2>2. AtMost(w) \in Nat
    BY <1>3, <1>4, Zenon
  <2> QED
    BY <2>1, <2>2
<1> DEFINE b == BucketOf(v)
<1>10. b \in Bucket /\ UpTo(b) >= k
  <2>1. b \in Bucket
    BY <1>8, BucketFound, Zenon
  <2>2. \A x \in Range(samples) : x \in Upto(v) => x \in Within(b)
    BY <1>1, <1>8, BucketMonotone, Zenon DEF Upto, Within
  <2>3. AtMost(v) <= UpTo(b) /\ AtMost(v) \in Nat /\ UpTo(b) \in Nat
    BY <1>1, <1>3, <1>4, <1>8, <2>1, <2>2, Zenon
  <2> HIDE DEF b
  <2> QED
    BY <1>8, <2>1, <2>3
<1> HIDE DEF b
<1>11. ASSUME NEW j \in Bucket, j < b PROVE UpTo(j) < k
  <2> DEFINE A == Within(j)
  <2>1. UpTo(j) = CountIn(samples, A)
    BY <1>1, Zenon
  <2>2. CASE \A x \in Range(samples) : x \notin A
    <3>1. CountIn(samples, A) = 0
      <4> HIDE DEF A
      <4> QED
        BY <1>1, <2>2, CountNone, Zenon
    <3> QED
      BY <2>1, <3>1
  <2>3. CASE \E x \in Range(samples) : x \in A
    <3>1. PICK u : Tops(samples, A, u)
      <4> HIDE DEF A
      <4> QED
        BY <1>1, <2>3, TopExists, Zenon
    <3>2. /\ u \in Latency /\ u \in Nat /\ BucketOf(u) <= j
          /\ \A x \in Range(samples) : x \in A => x \in Upto(u)
      BY <1>1, <1>2, <3>1, Zenon DEF Tops, Within, Upto
    <3>3. u < v
      <4>1. BucketOf(u) \in Bucket
        BY <3>2, BucketFound, Zenon
      <4>2. ~(b <= BucketOf(u))
        BY <1>10, <1>11, <3>2, <4>1, Bounds
      <4>3. ~(v <= u)
        BY <1>8, <3>2, <4>2, BucketMonotone, Zenon DEF b
      <4> QED
        BY <1>8, <3>2, <4>3
    <3>4. AtMost(u) < k
      BY <1>9, <3>2, <3>3, Zenon
    <3>5. CountIn(samples, A) <= AtMost(u) /\ CountIn(samples, A) \in Nat /\ AtMost(u) \in Nat
      BY <1>3, <1>4, <3>2, Zenon
    <3> HIDE DEF A
    <3> QED
      BY <2>1, <3>4, <3>5
  <2> QED
    BY <2>2, <2>3, Zenon
<1>12. First(I) = b
  <2>1. I \in SUBSET Nat /\ I # {} /\ b \in I
    BY <1>10, Bounds
  <2>2. First(I) \in I /\ First(I) <= b
    <3> HIDE DEF I
    <3> QED
      BY <2>1, FirstIs, Zenon
  <2> DEFINE f == First(I)
  <2>3. f \in Bucket /\ UpTo(f) >= k /\ f <= b
    BY <2>2, Zenon
  <2> HIDE DEF f
  <2>4. UpTo(f) \in Nat
    BY <1>1, <1>4, <2>3, Zenon
  <2>5. ~(f < b)
    BY <1>11, <2>3, <2>4
  <2>6. f = b
    BY <1>10, <2>3, <2>5, Bounds
  <2> QED
    BY <2>6, Zenon DEF f
<1> QED
  BY <1>8, <1>9, <1>12, Zenon DEF b

\* Whatever is recorded, get_percentile answers the lower bound of the bucket
\* of the value of that rank, and get_average is at most the true average.
THEOREM PercentileIsRankedAlways == MSpec => []PercentileIsRanked
<1>1. HistogramInv => PercentileIsRanked
  <2> SUFFICES ASSUME HistogramInv PROVE PercentileIsRanked
    BY Zenon
  <2> DEFINE n == Len(samples)
  <2>1. /\ samples \in Seq(Latency) /\ buckets \in [Bucket -> Nat]
        /\ \A i \in Bucket : UpTo(i) = CountIn(samples, Within(i))
        /\ AverageSum <= Total(samples)
    BY Zenon DEF HistogramInv
  <2>2. n \in Nat
    BY <2>1
  <2>3. UpTo(Len(buckets)) = n
    <3>1. Len(buckets) = N + 1 /\ N + 1 \in Bucket
      BY <2>1, Bounds
    <3>2. Within(N + 1) = Latency
      <4>1. \A v \in Latency : BucketOf(v) \in Bucket
        BY MetricsAssumption, BucketFound, Zenon
      <4>2. \A i \in Bucket : i <= N + 1
        BY Bounds
      <4> QED
        BY <4>1, <4>2, Zenon DEF Within
    <3>3. CountIn(samples, Latency) = n
      BY <2>1, CountAll, Zenon
    <3> QED
      BY <2>1, <3>1, <3>2, <3>3, Zenon
  <2> SUFFICES ASSUME NEW p \in Percentile
               PROVE  LET rank == (n * p[1]) \div p[2]
                      IN  IF rank = 0 THEN get_percentile(p) = 0
                          ELSE \E v \in Latency :
                                 /\ AtMost(v) >= rank
                                 /\ \A w \in Latency : w < v => AtMost(w) < rank
                                 /\ get_percentile(p) = LowerBound(BucketOf(v))
    BY <2>1, Zenon DEF PercentileIsRanked
  <2> DEFINE rank == (n * p[1]) \div p[2]
  <2>4. rank \in Nat /\ rank <= n
    <3>1. p[1] \in Nat /\ p[2] \in Nat \ {0} /\ p[1] <= p[2]
      BY MetricsAssumption, Zenon
    <3> HIDE DEF n
    <3> QED
      BY <2>2, <3>1, RankBound, Zenon
  <2>5. get_percentile(p) = IF n = 0 THEN 0 ELSE LowerBound(First({i \in Bucket : UpTo(i) >= rank}))
    BY <2>3, Zenon DEF get_percentile
  <2> HIDE DEF rank, n
  <2>6. CASE rank = 0
    <3> DEFINE I == {i \in Bucket : UpTo(i) >= rank}
    <3>1. I \in SUBSET Nat /\ 1 \in I
      <4>1. UpTo(1) \in Nat /\ 1 \in Bucket
        <5>1. 1 \in Bucket
          BY Bounds
        <5>2. SubSeq(buckets, 1, 1) \in Seq(Nat)
          BY <2>1, <5>1, FirstBuckets, Zenon
        <5> QED
          BY <5>1, <5>2, TotalNat, Zenon DEF UpTo
      <4>2. UpTo(1) >= rank
        BY <2>6, <4>1
      <4> QED
        BY <4>1, <4>2, Bounds
    <3>2. First(I) \in I /\ First(I) <= 1
      <4> HIDE DEF I
      <4> QED
        BY <3>1, FirstIs, Zenon
    <3>3. First(I) \in Bucket
      BY <3>2, Zenon
    <3> HIDE DEF I
    <3>4. First(I) = 1
      BY <3>2, <3>3, Bounds
    <3>5. LowerBound(1) = 0
      BY DEF LowerBound
    <3> QED
      BY <2>5, <2>6, <3>4, <3>5, Zenon DEF I, rank
  <2>7. CASE rank # 0
    <3>1. rank > 0 /\ n # 0
      BY <2>2, <2>4, <2>7
    <3>2. PICK v \in Latency : /\ AtMost(v) >= rank
                               /\ \A w \in Latency : w < v => AtMost(w) < rank
                               /\ First({i \in Bucket : UpTo(i) >= rank}) = BucketOf(v)
      BY <2>4, <3>1, Ranked, Zenon DEF n
    <3>3. get_percentile(p) = LowerBound(BucketOf(v))
      BY <2>5, <3>1, <3>2, Zenon
    <3> QED
      BY <2>7, <3>2, <3>3, Zenon DEF rank
  <2> QED
    BY <2>6, <2>7, Zenon
<1> QED
  BY <1>1, HistogramInvInit, HistogramInvStep, PTL DEF MSpec
=============================================================================

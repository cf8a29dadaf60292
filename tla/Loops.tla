------------------------------- MODULE Loops --------------------------------
(***************************************************************************)
(* Induction for the proofs about code that loops.  A set of numbers that  *)
(* holds 0 and with every number the next is reached in the place of an    *)
(* induction hypothesis; LoopRuns says that a function defined by          *)
(* recursion over the rounds of a loop exists, so that its equations may   *)
(* be used.  What Flatten returns follows from both.                       *)
(***************************************************************************)
EXTENDS Integers, Lists, WellFoundedInduction, TLAPS

\* Every set of naturals has a least element: the well-ordering that takes the
\* place of induction below.
LEMMA LeastNatural ==
  ASSUME NEW T \in SUBSET Nat, T # {}
  PROVE  \E x \in T : \A y \in T : x <= y
<1> DEFINE R == OpToRel(<, Nat)
<1>1. IsWellFoundedOn(R, Nat)
  BY NatLessThanWellFounded, Zenon
<1>2. \A x, y \in Nat : <<y, x>> \in R <=> y < x
  BY Zenon DEF OpToRel
<1> HIDE DEF R
<1>3. PICK x \in T : \A y \in T : ~(<<y, x>> \in R)
  BY <1>1, WFMin, Zenon
<1>4. x \in Nat /\ \A y \in T : y \in Nat /\ ~(y < x)
  BY <1>2, <1>3, Zenon
<1> QED
  BY <1>4

\* Induction up to n, over the numbers in a set.
LEMMA Reaches ==
  ASSUME NEW n \in Nat, NEW T, 0 \in T, \A i \in 1..n : i - 1 \in T => i \in T
  PROVE  \A i \in 0..n : i \in T
<1> DEFINE Out == {i \in 0..n : i \notin T}
<1>1. CASE Out # {}
  <2>1. Out \in SUBSET Nat
    OBVIOUS
  <2>2. PICK i \in Out : \A j \in Out : i <= j
    <3> HIDE DEF Out
    <3> QED
      BY <1>1, <2>1, LeastNatural, Zenon
  <2>3. i \in 1..n /\ i \notin T
    OBVIOUS
  <2>4. i - 1 \in 0..n /\ i - 1 \notin Out
    BY <2>2, <2>3
  <2> QED
    BY <2>3, <2>4, Zenon
<1> QED
  BY <1>1, Zenon

\* The values a loop from 1 to n runs through, from a on, with g its body.
Loop(S, a, n, g, f) ==
  f \in [0..n -> S] /\ f[0] = a /\ \A i \in 1..n : f[i] = g[i][f[i - 1]]

\* Every loop runs through some values.
LEMMA LoopRuns ==
  ASSUME NEW S, NEW a \in S, NEW n \in Nat, NEW g \in [1..n -> [S -> S]]
  PROVE  \E f : Loop(S, a, n, g, f)
<1> DEFINE Runs(k) == \E f \in [0..k -> S] : f[0] = a /\ \A i \in 1..k : f[i] = g[i][f[i - 1]]
           T == {k \in 0..n : Runs(k)}
<1>1. Runs(0)
  <2> DEFINE f == [i \in 0..0 |-> a]
  <2>1. f \in [0..0 -> S] /\ f[0] = a /\ \A i \in 1..0 : f[i] = g[i][f[i - 1]]
    OBVIOUS
  <2> QED
    BY <2>1, Zenon
<1>2. ASSUME NEW k \in 1..n, Runs(k - 1) PROVE Runs(k)
  <2>1. PICK f \in [0..(k - 1) -> S] : f[0] = a /\ \A i \in 1..(k - 1) : f[i] = g[i][f[i - 1]]
    BY <1>2, Zenon
  <2> DEFINE h == [i \in 0..k |-> IF i = k THEN g[k][f[k - 1]] ELSE f[i]]
  <2>2. f[k - 1] \in S /\ g[k][f[k - 1]] \in S
    OBVIOUS
  <2>3. h \in [0..k -> S]
    BY <2>2
  <2>4. h[0] = a
    BY <2>1
  <2>5. ASSUME NEW i \in 1..k PROVE h[i] = g[i][h[i - 1]]
    <3>1. h[i - 1] = f[i - 1]
      OBVIOUS
    <3>2. CASE i = k
      <4>1. h[k] = g[k][f[k - 1]]
        OBVIOUS
      <4> HIDE DEF h
      <4> QED
        BY <3>1, <3>2, <4>1, Zenon
    <3>3. CASE i # k
      BY <2>1, <3>1, <3>3
    <3> QED
      BY <3>2, <3>3, Zenon
  <2> HIDE DEF h
  <2> QED
    BY <2>3, <2>4, <2>5, Zenon
<1> HIDE DEF Runs
<1>3. 0 \in T /\ \A i \in 1..n : i - 1 \in T => i \in T
  BY <1>1, <1>2
<1>4. \A i \in 0..n : i \in T
  <2> HIDE DEF T
  <2> QED
    BY <1>3, Reaches, Zenon
<1> QED
  BY <1>4 DEF Runs, Loop

\* Two sums that begin alike and grow alike are alike.
LEMMA SameSum ==
  ASSUME NEW n \in Nat, NEW f, NEW g, \A i \in 0..n : f[i] \in Int /\ g[i] \in Int,
         f[0] = g[0], \A i \in 1..n : f[i] - f[i - 1] = g[i] - g[i - 1]
  PROVE  f[n] = g[n]
<1> DEFINE T == {i \in 0..n : f[i] = g[i]}
<1>1. 0 \in T
  OBVIOUS
<1>2. \A i \in 1..n : i - 1 \in T => i \in T
  <2> SUFFICES ASSUME NEW i \in 1..n, i - 1 \in T PROVE i \in T
    BY Zenon
  <2>1. f[i] \in Int /\ f[i - 1] \in Int /\ g[i] \in Int /\ g[i - 1] \in Int
    OBVIOUS
  <2>2. f[i - 1] = g[i - 1]
    BY Zenon
  <2> QED
    BY <2>1, <2>2
<1> HIDE DEF T
<1>3. \A i \in 0..n : i \in T
  BY <1>1, <1>2, Reaches, Zenon
<1> QED
  BY <1>3 DEF T

\* f[i] is what the first i lists hold.
Flattened(lists, f) ==
  f[0] = <<>> /\ \A i \in 1..Len(lists) : f[i] = f[i - 1] \o lists[i]

LEMMA FlattenRuns ==
  ASSUME NEW S, NEW lists \in Seq(Seq(S))
  PROVE  \E f : /\ Flattened(lists, f) /\ Flatten(lists) = f[Len(lists)]
                /\ \A i \in 0..Len(lists) : f[i] \in Seq(S)
<1> DEFINE n == Len(lists)
           V == Seq(S)
           g == [i \in 1..n |-> [x \in V |-> x \o lists[i]]]
           F(f) == [i \in 0..Len(lists) |-> IF i = 0 THEN <<>> ELSE f[i - 1] \o lists[i]]
<1>1. n \in Nat /\ \A i \in 1..n : lists[i] \in V
  OBVIOUS
<1>2. <<>> \in V /\ \A x, y \in V : x \o y \in V
  OBVIOUS
<1> HIDE DEF V, n
<1>3. PICK f : Loop(V, <<>>, n, g, f)
  <2>1. g \in [1..n -> [V -> V]]
    BY <1>1, <1>2, Zenon
  <2> HIDE DEF g
  <2> QED
    BY <1>1, <1>2, <2>1, LoopRuns, Zenon
<1>4. f \in [0..n -> V] /\ f[0] = <<>> /\ \A i \in 1..n : f[i] = g[i][f[i - 1]]
  BY <1>3, Zenon DEF Loop
<1>5. 0 \in 0..n /\ \A i \in 1..n : i - 1 \in 0..n /\ i \in 0..n /\ i # 0
  BY <1>1
<1>6. \A i \in 0..n : i = 0 \/ i \in 1..n
  BY <1>1
<1>7. \A i \in 1..n : f[i] = f[i - 1] \o lists[i]
  BY <1>1, <1>4, <1>5, Zenon
<1>8. \A i \in 0..n : f[i] = IF i = 0 THEN <<>> ELSE f[i - 1] \o lists[i]
  BY <1>4, <1>6, <1>7, Zenon
<1>9. f = F(f)
  BY <1>4, <1>8, Zenon DEF n
<1> DEFINE h == CHOOSE h : h = F(h)
<1>10. h = F(h)
  <2> HIDE DEF F
  <2> QED
    BY <1>9, Zenon
<1>11. Flatten(lists) = h[n]
  BY Zenon DEF Flatten, n
<1> HIDE DEF h, g
<1>12. \A i \in 0..n : h[i] = IF i = 0 THEN <<>> ELSE h[i - 1] \o lists[i]
  BY <1>10, Zenon DEF n
<1>13. h[0] = <<>> /\ \A i \in 1..n : h[i] = h[i - 1] \o lists[i]
  BY <1>5, <1>12, Zenon
<1> DEFINE T == {i \in 0..n : h[i] \in V}
<1>14. 0 \in T /\ \A i \in 1..n : i - 1 \in T => i \in T
  BY <1>1, <1>2, <1>5, <1>13, Zenon
<1>15. \A i \in 0..n : i \in T
  <2> HIDE DEF T
  <2> QED
    BY <1>1, <1>14, Reaches, Zenon
<1> QED
  BY <1>11, <1>13, <1>15, Zenon DEF Flattened, n, V

LEMMA FlattenIsSeq ==
  ASSUME NEW S, NEW lists \in Seq(Seq(S))
  PROVE  Flatten(lists) \in Seq(S)
<1>1. Len(lists) \in 0..Len(lists)
  OBVIOUS
<1> QED
  BY <1>1, FlattenRuns, Zenon

LEMMA FlattenNothing == Flatten(<<>>) = <<>>
<1>1. <<>> \in Seq(Seq({})) /\ Len(<<>>) = 0
  OBVIOUS
<1>2. PICK f : Flattened(<<>>, f) /\ Flatten(<<>>) = f[Len(<<>>)]
  BY <1>1, FlattenRuns
<1> QED
  BY <1>1, <1>2, Zenon DEF Flattened

\* Two lists that begin alike hold the same as far as they do.
Alike(n, f, h) ==
  f[0] = h[0] /\ \A i \in 1..n : \E s : f[i] = f[i - 1] \o s /\ h[i] = h[i - 1] \o s

LEMMA SameBegin ==
  ASSUME NEW n \in Nat, NEW f, NEW h, Alike(n, f, h)
  PROVE  f[n] = h[n]
<1> USE DEF Alike
<1> DEFINE T == {i \in 0..n : f[i] = h[i]}
<1>1. 0 \in 0..n /\ n \in 0..n /\ \A i \in 1..n : i \in 0..n
  OBVIOUS
<1>2. 0 \in T /\ \A i \in 1..n : i - 1 \in T => i \in T
  BY <1>1, Zenon
<1>3. \A i \in 0..n : i \in T
  <2> HIDE DEF T
  <2> QED
    BY <1>2, Reaches, Zenon
<1> QED
  BY <1>1, <1>3, Zenon

\* A further list adds its elements at the end.
LEMMA FlattenAppend ==
  ASSUME NEW S, NEW lists \in Seq(Seq(S)), NEW s \in Seq(S)
  PROVE  Flatten(Append(lists, s)) = Flatten(lists) \o s
<1> DEFINE n == Len(lists)
           more == Append(lists, s)
<1>1. /\ n \in Nat /\ more \in Seq(Seq(S)) /\ Len(more) = n + 1 /\ more[n + 1] = s
      /\ \A i \in 1..n : more[i] = lists[i]
  OBVIOUS
<1>2. PICK f : Flattened(lists, f) /\ Flatten(lists) = f[n]
  BY FlattenRuns, Zenon
<1> HIDE DEF more
<1>3. PICK h : Flattened(more, h) /\ Flatten(more) = h[Len(more)]
  BY <1>1, FlattenRuns, Zenon
<1>4. h[n + 1] = h[n] \o s
  <2>1. n + 1 \in 1..Len(more) /\ (n + 1) - 1 = n
    BY <1>1
  <2> QED
    BY <1>1, <1>3, <2>1, Zenon DEF Flattened
<1>5. h[n] = f[n]
  <2>1. \A i \in 1..n : i \in 1..Len(more)
    BY <1>1
  <2> HIDE DEF n
  <2>2. Alike(n, f, h)
    BY <1>1, <1>2, <1>3, <2>1, Zenon DEF Flattened, Alike, n
  <2>3. f[n] = h[n]
    BY <1>1, <2>2, SameBegin, Zenon
  <2> QED
    BY <2>3, Zenon
<1> QED
  BY <1>1, <1>2, <1>3, <1>4, <1>5, Zenon DEF more

Associative(V) == \A x, y, z \in V : (x \o y) \o z = x \o (y \o z)

LEMMA ListsAssociative == ASSUME NEW S PROVE Associative(Seq(S))
<1> SUFFICES ASSUME NEW x \in Seq(S), NEW y \in Seq(S), NEW z \in Seq(S)
             PROVE  (x \o y) \o z = x \o (y \o z)
  BY DEF Associative
<1>1. Len((x \o y) \o z) = Len(x \o (y \o z)) /\ Len(x \o (y \o z)) \in Nat
  OBVIOUS
<1>2. (x \o y) \o z \in Seq(S) /\ x \o (y \o z) \in Seq(S)
  OBVIOUS
<1>3. \A i \in 1..Len(x \o (y \o z)) : ((x \o y) \o z)[i] = (x \o (y \o z))[i]
  OBVIOUS
<1> DEFINE l == (x \o y) \o z
           r == x \o (y \o z)
<1>4. /\ l \in Seq(S) /\ r \in Seq(S) /\ Len(l) = Len(r) /\ Len(r) \in Nat
      /\ \A i \in 1..Len(r) : l[i] = r[i]
  BY <1>1, <1>2, <1>3, Zenon
<1> HIDE DEF l, r
<1>5. l = r
  BY <1>4, SMTT(20)
<1> QED
  BY <1>5, Zenon DEF l, r

\* What Append does.
LEMMA Appended ==
  ASSUME NEW S, NEW x \in Seq(S), NEW m \in S
  PROVE  LET n == Len(x)
             y == Append(x, m)
         IN  /\ n \in Nat /\ y \in Seq(S) /\ Len(y) = n + 1 /\ y[n + 1] = m
             /\ y \in [1..(n + 1) -> S] /\ \A i \in 1..n : y[i] = x[i]
<1> DEFINE n == Len(x)
           y == Append(x, m)
<1>1. /\ n \in Nat /\ y \in Seq(S) /\ Len(y) = n + 1 /\ y[n + 1] = m
      /\ \A i \in 1..n : y[i] = x[i]
  OBVIOUS
<1> HIDE DEF y
<1>2. y \in [1..(n + 1) -> S]
  BY <1>1
<1> QED
  BY <1>1, <1>2, Zenon DEF y

\* The last element, and another one in its place.
LEMMA LastReplaced ==
  ASSUME NEW S, NEW x \in Seq(S), x # <<>>, NEW s \in S
  PROVE  LET n == Len(x)
             front == SubSeq(x, 1, n - 1)
         IN  /\ front \in Seq(S) /\ x[n] \in S /\ x = Append(front, x[n])
             /\ [x EXCEPT ![n] = s] = Append(front, s)
<1> DEFINE n == Len(x)
           front == SubSeq(x, 1, n - 1)
           y == [x EXCEPT ![n] = s]
           z == Append(front, s)
<1>1. n \in Nat /\ n > 0 /\ x[n] \in S
  OBVIOUS
<1>2. front \in Seq(S) /\ Len(front) = n - 1 /\ \A i \in 1..(n - 1) : front[i] = x[i]
  <2> DEFINE k == n - 1
  <2>1. k \in Nat /\ \A i \in 1..k : x[i] \in S
    BY <1>1
  <2> HIDE DEF k
  <2> DEFINE f == SubSeq(x, 1, k)
  <2>2. /\ f \in Seq(S) /\ Len(f) = IF 1 <= k THEN k - 1 + 1 ELSE 0
        /\ \A i \in 1..(k - 1 + 1) : f[i] = x[1 + i - 1]
    <3>1. k <= Len(x)
      BY <1>1 DEF k
    <3> QED
      BY <2>1, <3>1
  <2> HIDE DEF f
  <2>3. f \in Seq(S) /\ Len(f) = k /\ \A i \in 1..k : f[i] = x[i]
    BY <2>1, <2>2
  <2> QED
    BY <2>3, Zenon DEF f, k
<1>3. x = Append(front, x[n])
  BY <1>1
<1>4. y \in Seq(S) /\ Len(y) = n /\ \A i \in 1..n : y[i] = IF i = n THEN s ELSE x[i]
  BY <1>1
<1> HIDE DEF n, front
<1>5. /\ z \in Seq(S) /\ Len(z) = Len(front) + 1 /\ z[Len(front) + 1] = s
      /\ \A i \in 1..Len(front) : z[i] = front[i]
  BY <1>2, Appended
<1> HIDE DEF y, z
<1>6. z \in Seq(S) /\ Len(z) = n /\ \A i \in 1..n : z[i] = IF i = n THEN s ELSE x[i]
  BY <1>1, <1>2, <1>5
<1>7. y = z
  BY <1>1, <1>4, <1>6
<1> QED
  BY <1>1, <1>2, <1>3, <1>7, Zenon DEF n, front, y, z

\* A list that is longer by an element at its end.
LEMMA ConcatAppend ==
  ASSUME NEW S, NEW x \in Seq(S), NEW y \in Seq(S), NEW m \in S
  PROVE  x \o Append(y, m) = Append(x \o y, m)
  OBVIOUS

\* The two parts of a list, element by element.
LEMMA Parts ==
  ASSUME NEW S, NEW x \in Seq(S), NEW k \in 0..Len(x)
  PROVE  /\ SubSeq(x, 1, k) = [i \in 1..k |-> x[i]]
         /\ SubSeq(x, k + 1, Len(x)) = [i \in 1..(Len(x) - k) |-> x[i + k]]
<1> DEFINE n == Len(x)
<1>1. n \in Nat /\ k \in Nat /\ k <= n /\ \A i \in 1..n : x[i] \in S
  OBVIOUS
<1>2. SubSeq(x, 1, k) = [i \in 1..k |-> x[i]]
  BY <1>1
<1>3. SubSeq(x, k + 1, n) = [i \in 1..(n - k) |-> x[i + k]]
  BY <1>1
<1> QED
  BY <1>2, <1>3, Zenon

\* Lists split in two hold what the first part holds and then the rest.
LEMMA FlattenSplit ==
  ASSUME NEW S, NEW lists \in Seq(Seq(S)), NEW k \in 0..Len(lists)
  PROVE  Flatten(lists) =
           Flatten(SubSeq(lists, 1, k)) \o Flatten(SubSeq(lists, k + 1, Len(lists)))
<1> DEFINE n == Len(lists)
           m == n - k
           a == SubSeq(lists, 1, k)
           b == SubSeq(lists, k + 1, n)
<1>1. n \in Nat /\ k \in Nat /\ m \in Nat /\ n = k + m /\ \A i \in 1..n : lists[i] \in Seq(S)
  OBVIOUS
<1>2. /\ a \in Seq(Seq(S)) /\ Len(a) = k /\ \A i \in 1..k : a[i] = lists[i]
      /\ b \in Seq(Seq(S)) /\ Len(b) = m /\ \A i \in 1..m : b[i] = lists[k + i]
  OBVIOUS
<1>3. PICK f : /\ Flattened(lists, f) /\ Flatten(lists) = f[n]
               /\ \A i \in 0..n : f[i] \in Seq(S)
  BY FlattenRuns, Zenon
<1> HIDE DEF a, b, m
<1>4. PICK p : Flattened(a, p) /\ Flatten(a) = p[k]
  BY <1>2, FlattenRuns, Zenon
<1>5. PICK q : /\ Flattened(b, q) /\ Flatten(b) = q[m]
               /\ \A i \in 0..m : q[i] \in Seq(S)
  BY <1>2, FlattenRuns, Zenon
<1> HIDE DEF n
<1>6. f[k] = p[k]
  <2>1. \A i \in 1..k : i \in 1..n
    BY <1>1
  <2>2. f[0] = <<>> /\ \A i \in 1..k : f[i] = f[i - 1] \o lists[i]
    BY <1>3, <2>1, Zenon DEF Flattened, n
  <2>3. p[0] = <<>> /\ \A i \in 1..k : p[i] = p[i - 1] \o a[i]
    BY <1>2, <1>4, Zenon DEF Flattened
  <2>4. Alike(k, f, p)
    <3> SUFFICES ASSUME NEW i \in 1..k
                 PROVE  \E x : f[i] = f[i - 1] \o x /\ p[i] = p[i - 1] \o x
      BY <2>2, <2>3, Zenon DEF Alike
    <3>1. f[i] = f[i - 1] \o a[i] /\ p[i] = p[i - 1] \o a[i]
      BY <1>2, <2>2, <2>3, Zenon
    <3> QED
      BY <3>1, Zenon
  <2> QED
    BY <1>1, <2>4, SameBegin, Zenon
<1> DEFINE T == {i \in 0..m : f[k + i] = f[k] \o q[i]}
<1>7. f[k] \in Seq(S) /\ 0 \in 0..m /\ m \in 0..m
  <2>1. k \in 0..n /\ 0 \in 0..m /\ m \in 0..m
    BY <1>1
  <2> QED
    BY <1>3, <2>1, Zenon
<1>8. 0 \in T
  <2>1. k + 0 = k
    BY <1>1
  <2>2. f[k] \o <<>> = f[k]
    BY <1>7
  <2> QED
    BY <1>5, <1>7, <2>1, <2>2, Zenon DEF Flattened
<1>9. \A i \in 1..m : i - 1 \in T => i \in T
  <2> SUFFICES ASSUME NEW i \in 1..m, i - 1 \in T PROVE i \in T
    BY Zenon
  <2>1. /\ k + i \in 1..n /\ (k + i) - 1 = k + (i - 1)
        /\ i - 1 \in 0..m /\ i \in 0..m
    BY <1>1
  <2>2. f[k + i] = f[k + (i - 1)] \o lists[k + i]
    BY <1>3, <2>1, Zenon DEF Flattened, n
  <2>3. q[i] = q[i - 1] \o b[i] /\ b[i] = lists[k + i]
    BY <1>2, <1>5, Zenon DEF Flattened
  <2>4. f[k + (i - 1)] = f[k] \o q[i - 1]
    BY Zenon
  <2>5. q[i - 1] \in Seq(S) /\ b[i] \in Seq(S)
    BY <1>1, <1>5, <2>1, <2>3, Zenon
  <2>6. f[k + i] = f[k] \o q[i]
    <3> DEFINE V == Seq(S)
    <3>1. Associative(V)
      BY ListsAssociative, Zenon
    <3>2. f[k] \in V /\ q[i - 1] \in V /\ b[i] \in V
      BY <1>7, <2>5, Zenon
    <3>3. f[k + i] = (f[k] \o q[i - 1]) \o b[i] /\ q[i] = q[i - 1] \o b[i]
      BY <2>2, <2>3, <2>4, Zenon
    <3>4. (f[k] \o q[i - 1]) \o b[i] = f[k] \o (q[i - 1] \o b[i])
      <4> HIDE DEF V, T
      <4> QED
        BY <3>1, <3>2, Zenon DEF Associative
    <3> QED
      BY <3>3, <3>4, Zenon
  <2> QED
    BY <2>1, <2>6, Zenon
<1>10. f[k + m] = f[k] \o q[m]
  <2>1. \A i \in 0..m : i \in T
    <3> HIDE DEF T
    <3> QED
      BY <1>1, <1>8, <1>9, Reaches, Zenon
  <2> QED
    BY <1>7, <2>1, Zenon
<1> QED
  BY <1>1, <1>3, <1>4, <1>5, <1>6, <1>10, Zenon DEF a, b, n

\* Induction over lists, over those in a set.
LEMMA ListInduction ==
  ASSUME NEW S, NEW T, <<>> \in T,
         \A s \in Seq(S), x \in S : s \in T => Append(s, x) \in T
  PROVE  \A s \in Seq(S) : s \in T
<1> SUFFICES ASSUME NEW s \in Seq(S) PROVE s \in T
  BY Zenon
<1> DEFINE n == Len(s)
           U == {i \in 0..n : SubSeq(s, 1, i) \in T}
<1>1. n \in Nat
  OBVIOUS
<1>2. 0 \in U
  <2>1. SubSeq(s, 1, 0) = <<>> /\ 0 \in 0..n
    OBVIOUS
  <2> QED
    BY <2>1, Zenon
<1>3. \A i \in 1..n : i - 1 \in U => i \in U
  <2> SUFFICES ASSUME NEW i \in 1..n, i - 1 \in U PROVE i \in U
    BY Zenon
  <2> DEFINE p == SubSeq(s, 1, i - 1)
  <2>1. i \in 0..n /\ s[i] \in S
    OBVIOUS
  <2>2. p \in Seq(S)
    OBVIOUS
  <2>3. SubSeq(s, 1, i) = Append(p, s[i])
    OBVIOUS
  <2>4. p \in T
    BY Zenon
  <2> HIDE DEF p, U
  <2> QED
    BY <2>1, <2>2, <2>3, <2>4, Zenon DEF U
<1>4. SubSeq(s, 1, n) = s /\ n \in 0..n
  OBVIOUS
<1>5. \A i \in 0..n : i \in U
  <2> HIDE DEF U, n
  <2> QED
    BY <1>1, <1>2, <1>3, Reaches, Zenon
<1> QED
  BY <1>4, <1>5, Zenon

\* f[i] is the sum of the first i numbers.
Summed(s, f) ==
  f[0] = 0 /\ \A i \in 1..Len(s) : f[i] = f[i - 1] + s[i]

LEMMA TotalRuns ==
  ASSUME NEW s \in Seq(Nat)
  PROVE  \E f : /\ Summed(s, f) /\ Total(s) = f[Len(s)]
                /\ \A i \in 0..Len(s) : f[i] \in Nat
<1> DEFINE n == Len(s)
           g == [i \in 1..n |-> [x \in Nat |-> x + s[i]]]
           F(f) == [i \in 0..Len(s) |-> IF i = 0 THEN 0 ELSE f[i - 1] + s[i]]
<1>1. n \in Nat /\ \A i \in 1..n : s[i] \in Nat
  OBVIOUS
<1>2. 0 \in Nat /\ \A x, y \in Nat : x + y \in Nat
  OBVIOUS
<1> HIDE DEF n
<1>3. PICK f : Loop(Nat, 0, n, g, f)
  <2>1. g \in [1..n -> [Nat -> Nat]]
    BY <1>1, <1>2, Zenon
  <2> HIDE DEF g
  <2> QED
    BY <1>1, <1>2, <2>1, LoopRuns, Zenon
<1>4. f \in [0..n -> Nat] /\ f[0] = 0 /\ \A i \in 1..n : f[i] = g[i][f[i - 1]]
  BY <1>3, Zenon DEF Loop
<1>5. 0 \in 0..n /\ \A i \in 1..n : i - 1 \in 0..n /\ i \in 0..n /\ i # 0
  BY <1>1
<1>6. \A i \in 0..n : i = 0 \/ i \in 1..n
  BY <1>1
<1>7. \A i \in 1..n : f[i] = f[i - 1] + s[i]
  BY <1>1, <1>4, <1>5, Zenon
<1>8. \A i \in 0..n : f[i] = IF i = 0 THEN 0 ELSE f[i - 1] + s[i]
  BY <1>4, <1>6, <1>7, Zenon
<1>9. f = F(f)
  BY <1>4, <1>8, Zenon DEF n
<1> DEFINE h == CHOOSE h : h = F(h)
<1>10. h = F(h)
  <2> HIDE DEF F
  <2> QED
    BY <1>9, Zenon
<1>11. Total(s) = h[n]
  BY Zenon DEF Total, n
<1> HIDE DEF h, g
<1>12. \A i \in 0..n : h[i] = IF i = 0 THEN 0 ELSE h[i - 1] + s[i]
  BY <1>10, Zenon DEF n
<1>13. h[0] = 0 /\ \A i \in 1..n : h[i] = h[i - 1] + s[i]
  BY <1>5, <1>12, Zenon
<1> DEFINE T == {i \in 0..n : h[i] \in Nat}
<1>14. 0 \in T /\ \A i \in 1..n : i - 1 \in T => i \in T
  BY <1>1, <1>2, <1>5, <1>13, Zenon
<1>15. \A i \in 0..n : i \in T
  <2> HIDE DEF T
  <2> QED
    BY <1>1, <1>14, Reaches, Zenon
<1> QED
  BY <1>11, <1>13, <1>15, Zenon DEF Summed, n

LEMMA TotalNat ==
  ASSUME NEW s \in Seq(Nat)
  PROVE  Total(s) \in Nat
<1>1. Len(s) \in 0..Len(s)
  OBVIOUS
<1> QED
  BY <1>1, TotalRuns, Zenon

LEMMA TotalNothing == Total(<<>>) = 0
<1>1. <<>> \in Seq(Nat) /\ Len(<<>>) = 0
  OBVIOUS
<1>2. PICK f : Summed(<<>>, f) /\ Total(<<>>) = f[Len(<<>>)]
  BY <1>1, TotalRuns
<1> QED
  BY <1>1, <1>2, Zenon DEF Summed

\* A further number is added.
LEMMA TotalAppend ==
  ASSUME NEW s \in Seq(Nat), NEW x \in Nat
  PROVE  Total(Append(s, x)) = Total(s) + x
<1> DEFINE n == Len(s)
           more == Append(s, x)
<1>1. /\ n \in Nat /\ more \in Seq(Nat) /\ Len(more) = n + 1 /\ more[n + 1] = x
      /\ \A i \in 1..n : more[i] = s[i]
  OBVIOUS
<1>2. PICK f : Summed(s, f) /\ Total(s) = f[n] /\ \A i \in 0..n : f[i] \in Nat
  BY TotalRuns, Zenon
<1> HIDE DEF more
<1>3. PICK h : /\ Summed(more, h) /\ Total(more) = h[Len(more)]
               /\ \A i \in 0..Len(more) : h[i] \in Nat
  BY <1>1, TotalRuns, Zenon
<1>4. h[n + 1] = h[n] + x
  <2>1. n + 1 \in 1..Len(more) /\ (n + 1) - 1 = n
    BY <1>1
  <2> QED
    BY <1>1, <1>3, <2>1, Zenon DEF Summed
<1> DEFINE T == {i \in 0..n : h[i] = f[i]}
<1>5. 0 \in T /\ \A i \in 1..n : i - 1 \in T => i \in T
  <2>1. 0 \in 0..n /\ \A i \in 1..n : i \in 1..Len(more) /\ i \in 0..n
    BY <1>1
  <2>2. f[0] = 0 /\ h[0] = 0
    BY <1>2, <1>3, Zenon DEF Summed
  <2>3. \A i \in 1..n : f[i] = f[i - 1] + s[i] /\ h[i] = h[i - 1] + s[i]
    BY <1>1, <1>2, <1>3, <2>1, Zenon DEF Summed
  <2> QED
    BY <2>1, <2>2, <2>3, Zenon
<1>6. \A i \in 0..n : i \in T
  <2> HIDE DEF T, n
  <2> QED
    BY <1>1, <1>5, Reaches, Zenon
<1>7. n \in 0..n
  BY <1>1
<1> QED
  BY <1>1, <1>2, <1>3, <1>4, <1>6, <1>7, Zenon DEF more

\* Two lists that differ in the k-th element only.
Apart(k, a, b) ==
  k \in 1..Len(a) /\ Len(a) = Len(b) /\ \A i \in 1..Len(a) : i # k => a[i] = b[i]

LEMMA TotalChanged ==
  ASSUME NEW a \in Seq(Nat), NEW b \in Seq(Nat), NEW k, Apart(k, a, b)
  PROVE  Total(a) + b[k] = Total(b) + a[k]
<1> DEFINE n == Len(a)
<1>12. k \in 1..n /\ Len(b) = n
  BY Zenon DEF Apart
<1>1. n \in Nat /\ k \in 1..n /\ \A i \in 1..n : a[i] \in Nat /\ b[i] \in Nat
  <2>1. n \in Nat /\ \A i \in 1..n : a[i] \in Nat
    OBVIOUS
  <2>2. \A i \in 1..Len(b) : b[i] \in Nat
    OBVIOUS
  <2> HIDE DEF n
  <2> QED
    BY <1>12, <2>1, <2>2, Zenon
<1>2. PICK f : Summed(a, f) /\ Total(a) = f[n] /\ \A i \in 0..n : f[i] \in Nat
  BY TotalRuns, Zenon
<1>3. PICK h : Summed(b, h) /\ Total(b) = h[n] /\ \A i \in 0..n : h[i] \in Nat
  BY <1>12, TotalRuns, Zenon
<1>4. /\ f[0] = 0 /\ h[0] = 0
      /\ \A i \in 1..n : f[i] = f[i - 1] + a[i] /\ h[i] = h[i - 1] + b[i]
  BY <1>2, <1>3, <1>12, Zenon DEF Summed
<1>5. \A i \in 1..n : i # k => a[i] = b[i]
  BY Zenon DEF Apart
<1> HIDE DEF n
<1> DEFINE P(i) == IF i < k THEN f[i] = h[i] ELSE f[i] + b[k] = h[i] + a[k]
           T == {i \in 0..n : P(i)}
<1>6. 0 \in T
  BY <1>1, <1>4
<1>7. ASSUME NEW i \in 1..n, P(i - 1) PROVE P(i)
  <2>1. /\ f[i] = f[i - 1] + a[i] /\ h[i] = h[i - 1] + b[i]
        /\ a[i] \in Nat /\ b[i] \in Nat /\ a[k] \in Nat /\ b[k] \in Nat
    BY <1>1, <1>4, Zenon
  <2>2. i \in 0..n /\ i - 1 \in 0..n /\ i \in Nat /\ k \in Nat
    BY <1>1
  <2>3. f[i] \in Nat /\ f[i - 1] \in Nat /\ h[i] \in Nat /\ h[i - 1] \in Nat
    BY <1>2, <1>3, <2>2, Zenon
  <2>4. IF i - 1 < k THEN f[i - 1] = h[i - 1] ELSE f[i - 1] + b[k] = h[i - 1] + a[k]
    BY <1>7, Zenon
  <2>5. i # k => a[i] = b[i]
    BY <1>5, Zenon
  <2>6. f[i - 1] \in Nat /\ h[i - 1] \in Nat /\ a[i] \in Nat /\ b[i] \in Nat
    BY <2>1, <2>3, Zenon
  <2>8. a[k] \in Nat /\ b[k] \in Nat
    BY <2>1, Zenon
  <2> HIDE DEF P
  <2>7. IF i < k THEN f[i] = h[i] ELSE f[i] + b[k] = h[i] + a[k]
    <3>4. \A p, x, y \in Nat : (p + x) + y = (p + y) + x
      OBVIOUS
    <3>1. CASE i < k
      BY <2>1, <2>2, <2>3, <2>4, <2>5, <3>1
    <3>2. CASE i = k
      <4>1. f[i - 1] = h[i - 1] /\ ~(i < k)
        BY <2>2, <2>4, <3>2
      <4>3. (f[i - 1] + a[i]) + b[i] = (f[i - 1] + b[i]) + a[i]
        BY <2>6, <3>4, ZenonT(30)
      <4>4. f[i] + b[i] = h[i] + a[i]
        BY <2>1, <4>1, <4>3, Zenon
      <4> QED
        BY <3>2, <4>1, <4>4, Zenon
    <3>3. CASE i > k
      <4>1. f[i - 1] + b[k] = h[i - 1] + a[k] /\ ~(i < k) /\ a[i] = b[i]
        BY <2>2, <2>4, <2>5, <3>3
      <4>2. (f[i - 1] + a[i]) + b[k] = (f[i - 1] + b[k]) + a[i]
        <5>1. f[i - 1] \in Nat /\ a[i] \in Nat /\ b[k] \in Nat
          BY <2>6, <2>8, Zenon
        <5> QED
          BY <3>4, <5>1, Zenon
      <4>3. (h[i - 1] + a[i]) + a[k] = (h[i - 1] + a[k]) + a[i]
        <5>1. h[i - 1] \in Nat /\ a[i] \in Nat /\ a[k] \in Nat
          BY <2>6, <2>8, Zenon
        <5> QED
          BY <3>4, <5>1, Zenon
      <4>4. f[i] + b[k] = h[i] + a[k]
        BY <2>1, <4>1, <4>2, <4>3, Zenon
      <4> QED
        BY <4>1, <4>4, Zenon
    <3> QED
      BY <2>2, <3>1, <3>2, <3>3
  <2> QED
    BY <2>7, Zenon DEF P
<1>8. n \in 0..n /\ ~(n < k) /\ \A i \in 1..n : i \in 0..n
  BY <1>1
<1>9. \A i \in 1..n : i - 1 \in T => i \in T
  <2> HIDE DEF P
  <2> QED
    BY <1>7, <1>8, Zenon
<1>10. \A i \in 0..n : i \in T
  <2> HIDE DEF T
  <2> QED
    BY <1>1, <1>6, <1>9, Reaches, Zenon
<1>11. f[n] + b[k] = h[n] + a[k]
  BY <1>8, <1>10, Zenon
<1> QED
  BY <1>2, <1>3, <1>11, Zenon

\* g finds for every number of a one of its own in b, at least as large.
Below(a, b, g) ==
  /\ g \in [1..Len(a) -> 1..Len(b)]
  /\ \A i, j \in 1..Len(a) : g[i] = g[j] => i = j
  /\ \A i \in 1..Len(a) : a[i] <= b[g[i]]

LEMMA TotalBelow ==
  ASSUME NEW a \in Seq(Nat), NEW b \in Seq(Nat), NEW g, Below(a, b, g)
  PROVE  Total(a) <= Total(b)
<1> DEFINE P(r) == \A s \in Seq(Nat) : \A f : Below(r, s, f) => Total(r) <= Total(s)
           T == {r \in Seq(Nat) : P(r)}
<1>1. <<>> \in T
  <2>1. \A s \in Seq(Nat) : Total(s) \in Nat
    BY TotalNat, Zenon
  <2>2. \A s \in Seq(Nat) : Total(<<>>) <= Total(s)
    BY <2>1, TotalNothing
  <2>3. <<>> \in Seq(Nat)
    OBVIOUS
  <2> QED
    BY <2>2, <2>3, Zenon
<1>2. ASSUME NEW r \in Seq(Nat), NEW x \in Nat, P(r) PROVE P(Append(r, x))
  <2> DEFINE n == Len(r)
             more == Append(r, x)
  <2> SUFFICES ASSUME NEW s \in Seq(Nat), NEW f, Below(more, s, f)
               PROVE  Total(more) <= Total(s)
    BY Zenon
  <2> DEFINE k == f[n + 1]
             q == [s EXCEPT ![k] = 0]
             e == [i \in 1..n |-> f[i]]
  <2>1. /\ n \in Nat /\ Len(more) = n + 1 /\ more[n + 1] = x
        /\ \A i \in 1..n : more[i] = r[i] /\ r[i] \in Nat
    BY SMTT(30)
  <2> HIDE DEF more
  <2>2. /\ f \in [1..(n + 1) -> 1..Len(s)]
        /\ \A i, j \in 1..(n + 1) : f[i] = f[j] => i = j
        /\ \A i \in 1..(n + 1) : more[i] <= s[f[i]]
    BY <2>1, Zenon DEF Below
  <2>3. n + 1 \in 1..(n + 1) /\ \A i \in 1..n : i \in 1..(n + 1) /\ i # n + 1
    BY <2>1
  <2> HIDE DEF n
  <2>4. k \in 1..Len(s) /\ x <= s[k] /\ \A i \in 1..n : f[i] # k /\ f[i] \in 1..Len(s)
    BY <2>1, <2>2, <2>3, Zenon
  <2> HIDE DEF k
  <2>5. /\ q \in Seq(Nat) /\ Len(q) = Len(s) /\ s[k] \in Nat
        /\ \A i \in 1..n : q[f[i]] = s[f[i]]
    <3>1. q \in Seq(Nat) /\ Len(q) = Len(s)
      BY <2>4
    <3>2. s[k] \in Nat
      <4>1. \A i \in 1..Len(s) : s[i] \in Nat
        OBVIOUS
      <4> QED
        BY <2>4, <4>1, Zenon
    <3>3. DOMAIN s = 1..Len(s)
      OBVIOUS
    <3>4. \A i \in 1..Len(s) : i # k => q[i] = s[i]
      BY <3>3, Zenon
    <3>5. \A i \in 1..n : q[f[i]] = s[f[i]]
      BY <2>4, <3>4, Zenon
    <3> QED
      BY <3>1, <3>2, <3>5, Zenon
  <2>11. q[k] = 0 /\ \A i \in 1..Len(s) : i # k => s[i] = q[i]
    BY <2>4
  <2> HIDE DEF q
  <2>6. Total(s) + q[k] = Total(q) + s[k]
    <3>1. Apart(k, s, q)
      BY <2>4, <2>5, <2>11, Zenon DEF Apart
    <3> QED
      BY <2>5, <3>1, TotalChanged, Zenon
  <2>7. Below(r, q, e)
    <3>1. e \in [1..n -> 1..Len(q)] /\ \A i \in 1..n : e[i] = f[i]
      BY <2>4, <2>5, Zenon
    <3>2. \A i \in 1..n : r[i] <= q[e[i]]
      BY <2>1, <2>2, <2>3, <2>5, <3>1, Zenon
    <3> QED
      BY <2>2, <2>3, <3>1, <3>2, Zenon DEF Below, n
  <2>8. Total(r) <= Total(q)
    BY <1>2, <2>5, <2>7, Zenon
  <2>9. Total(more) = Total(r) + x /\ Total(r) \in Nat /\ Total(q) \in Nat
    BY <2>5, TotalAppend, TotalNat, Zenon DEF more
  <2>12. Total(s) \in Nat
    BY TotalNat, Zenon
  <2>10. x <= s[k] /\ s[k] \in Nat
    BY <2>4, <2>5, Zenon
  <2> QED
    <3> DEFINE u == Total(s)
               v == Total(q)
               y == Total(r)
               z == s[k]
    <3>1. u + 0 = v + z /\ y <= v /\ x <= z
      BY <2>6, <2>8, <2>10, <2>11, Zenon
    <3>2. u \in Nat /\ v \in Nat /\ y \in Nat /\ z \in Nat
      BY <2>9, <2>10, <2>12, Zenon
    <3>3. y + x <= u
      <4> HIDE DEF u, v, y, z
      <4> QED
        BY <3>1, <3>2
    <3> QED
      BY <2>9, <3>3, Zenon
<1>3. \A r \in Seq(Nat), x \in Nat : r \in T => Append(r, x) \in T
  <2>1. \A r \in Seq(Nat), x \in Nat : Append(r, x) \in Seq(Nat)
    OBVIOUS
  <2> HIDE DEF P
  <2> QED
    BY <1>2, <2>1, Zenon
<1>4. \A r \in Seq(Nat) : r \in T
  <2> HIDE DEF T
  <2> QED
    BY <1>1, <1>3, ListInduction, Zenon
<1> QED
  BY <1>4, Zenon

\* f[i] is what is picked of the first i elements.
Picking(s, I, f) ==
  /\ f[0] = <<>>
  /\ \A i \in 1..Len(s) : f[i] = IF i \in I THEN Append(f[i - 1], s[i]) ELSE f[i - 1]

LEMMA PickedRuns ==
  ASSUME NEW S, NEW s \in Seq(S), NEW I
  PROVE  \E f : /\ Picking(s, I, f) /\ Picked(s, I) = f[Len(s)]
                /\ \A i \in 0..Len(s) : f[i] \in Seq(S)
<1> DEFINE n == Len(s)
           V == Seq(S)
           Pick(i, x) == IF i \in I THEN Append(x, s[i]) ELSE x
           g == [i \in 1..n |-> [x \in V |-> Pick(i, x)]]
           F(f) == [i \in 0..Len(s) |->
                      IF i = 0 THEN <<>>
                      ELSE IF i \in I THEN Append(f[i - 1], s[i]) ELSE f[i - 1]]
<1>1. n \in Nat /\ \A i \in 1..n : s[i] \in S
  OBVIOUS
<1>2. <<>> \in V /\ \A x \in V, y \in S : Append(x, y) \in V
  OBVIOUS
<1>3. \A i \in 1..n, x \in V : Pick(i, x) \in V
  BY <1>1, <1>2, Zenon
<1> HIDE DEF V, n
<1>4. PICK f : Loop(V, <<>>, n, g, f)
  <2>1. g \in [1..n -> [V -> V]]
    <3> HIDE DEF Pick
    <3> QED
      BY <1>3, Zenon
  <2> HIDE DEF g
  <2> QED
    BY <1>1, <1>2, <2>1, LoopRuns, Zenon
<1>5. f \in [0..n -> V] /\ f[0] = <<>> /\ \A i \in 1..n : f[i] = g[i][f[i - 1]]
  BY <1>4, Zenon DEF Loop
<1>6. 0 \in 0..n /\ \A i \in 1..n : i - 1 \in 0..n /\ i \in 0..n /\ i # 0
  BY <1>1
<1>7. \A i \in 0..n : i = 0 \/ i \in 1..n
  BY <1>1
<1>8. \A i \in 1..n : f[i] = Pick(i, f[i - 1])
  <2> HIDE DEF Pick
  <2> QED
    BY <1>5, <1>6, Zenon
<1>9. f = F(f)
  <2>1. \A i \in 0..n : f[i] = IF i = 0 THEN <<>> ELSE Pick(i, f[i - 1])
    BY <1>5, <1>7, <1>8, Zenon
  <2> QED
    BY <1>5, <2>1, Zenon DEF n
<1> DEFINE h == CHOOSE h : h = F(h)
<1>10. h = F(h)
  <2> HIDE DEF F
  <2> QED
    BY <1>9, Zenon
<1>11. Picked(s, I) = h[n]
  BY Zenon DEF Picked, n
<1> HIDE DEF h, g
<1>12. \A i \in 0..n : h[i] = IF i = 0 THEN <<>> ELSE Pick(i, h[i - 1])
  BY <1>10, Zenon DEF n
<1>13. h[0] = <<>> /\ \A i \in 1..n : h[i] = Pick(i, h[i - 1])
  BY <1>6, <1>12, Zenon
<1> DEFINE T == {i \in 0..n : h[i] \in V}
<1>14. 0 \in T /\ \A i \in 1..n : i - 1 \in T => i \in T
  <2> HIDE DEF Pick
  <2> QED
    BY <1>2, <1>3, <1>6, <1>13, Zenon
<1>15. \A i \in 0..n : i \in T
  <2> HIDE DEF T
  <2> QED
    BY <1>1, <1>14, Reaches, Zenon
<1> QED
  BY <1>11, <1>13, <1>15, Zenon DEF Picking, n, V

LEMMA PickedIsSeq ==
  ASSUME NEW S, NEW s \in Seq(S), NEW I
  PROVE  Picked(s, I) \in Seq(S)
<1>1. Len(s) \in 0..Len(s)
  OBVIOUS
<1>2. PICK f : Picked(s, I) = f[Len(s)] /\ \A i \in 0..Len(s) : f[i] \in Seq(S)
  BY PickedRuns, Zenon
<1> QED
  BY <1>1, <1>2, Zenon

LEMMA PickedNothing == ASSUME NEW I PROVE Picked(<<>>, I) = <<>>
<1>1. <<>> \in Seq({}) /\ Len(<<>>) = 0
  OBVIOUS
<1>2. PICK f : Picking(<<>>, I, f) /\ Picked(<<>>, I) = f[Len(<<>>)]
  BY <1>1, PickedRuns
<1> QED
  BY <1>1, <1>2, Zenon DEF Picking

\* I and J name the same of the first n places.
AgreeUpTo(n, I, J) == \A i \in 1..n : i \in I <=> i \in J

\* A further element is picked last or left out.
LEMMA PickedAppend ==
  ASSUME NEW S, NEW s \in Seq(S), NEW x \in S, NEW I, NEW J, AgreeUpTo(Len(s), I, J)
  PROVE  Picked(Append(s, x), I) =
           IF Len(s) + 1 \in I THEN Append(Picked(s, J), x) ELSE Picked(s, J)
<1> DEFINE n == Len(s)
           more == Append(s, x)
<1>1. /\ n \in Nat /\ more \in Seq(S) /\ Len(more) = n + 1 /\ more[n + 1] = x
      /\ \A i \in 1..n : more[i] = s[i]
  OBVIOUS
<1>2. PICK f : Picking(s, J, f) /\ Picked(s, J) = f[n]
  BY PickedRuns, Zenon
<1> HIDE DEF more
<1>3. PICK h : Picking(more, I, h) /\ Picked(more, I) = h[Len(more)]
  BY <1>1, PickedRuns, Zenon
<1>4. h[n + 1] = IF n + 1 \in I THEN Append(h[n], x) ELSE h[n]
  <2>1. n + 1 \in 1..Len(more) /\ (n + 1) - 1 = n
    BY <1>1
  <2> QED
    BY <1>1, <1>3, <2>1, Zenon DEF Picking
<1> DEFINE T == {i \in 0..n : h[i] = f[i]}
<1>5. 0 \in T /\ \A i \in 1..n : i - 1 \in T => i \in T
  <2>1. 0 \in 0..n /\ \A i \in 1..n : i \in 1..Len(more) /\ i \in 0..n
    BY <1>1
  <2>2. f[0] = <<>> /\ h[0] = <<>>
    BY <1>2, <1>3, Zenon DEF Picking
  <2>3. \A i \in 1..n : f[i] = IF i \in J THEN Append(f[i - 1], s[i]) ELSE f[i - 1]
    BY <1>2, Zenon DEF Picking
  <2>4. \A i \in 1..n : h[i] = IF i \in I THEN Append(h[i - 1], s[i]) ELSE h[i - 1]
    BY <1>1, <1>3, <2>1, Zenon DEF Picking
  <2>5. \A i \in 1..n : i \in I <=> i \in J
    BY Zenon DEF AgreeUpTo
  <2> QED
    BY <2>1, <2>2, <2>3, <2>4, <2>5, Zenon
<1>6. \A i \in 0..n : i \in T
  <2> HIDE DEF T, n
  <2> QED
    BY <1>1, <1>5, Reaches, Zenon
<1>7. n \in 0..n
  BY <1>1
<1>8. h[n] = f[n]
  BY <1>6, <1>7, Zenon
<1> QED
  BY <1>1, <1>2, <1>3, <1>4, <1>8, Zenon DEF more

\* A list one longer than y, that begins with y and ends with v.
OneMore(y, v, z) ==
  /\ z = [i \in 1..(Len(y) + 1) |-> z[i]] /\ z[Len(y) + 1] = v
  /\ \A i \in 1..Len(y) : z[i] = y[i]

LEMMA OneMoreIsAppend ==
  ASSUME NEW S, NEW y \in Seq(S), NEW v \in S, NEW z, OneMore(y, v, z)
  PROVE  z = Append(y, v)
<1> DEFINE n == Len(y)
           more == Append(y, v)
<1>1. /\ n \in Nat /\ more \in [1..(n + 1) -> S] /\ more[n + 1] = v
      /\ \A i \in 1..n : more[i] = y[i]
  BY Appended
<1>2. \A i \in 1..(n + 1) : i \in 1..n \/ i = n + 1
  BY <1>1
<1> HIDE DEF more, n
<1>3. \A i \in 1..(n + 1) : more[i] = z[i]
  BY <1>1, <1>2, Zenon DEF OneMore, n
<1>4. z = [i \in 1..(n + 1) |-> z[i]]
  BY Zenon DEF OneMore, n
<1>5. more = [i \in 1..(n + 1) |-> z[i]]
  BY <1>1, <1>3, Zenon
<1> QED
  BY <1>4, <1>5, Zenon DEF more

\* The places of a list, and of one that is longer by an element.
LEMMA Places ==
  ASSUME NEW S, NEW s \in Seq(S), NEW x \in S
  PROVE  LET n == Len(s)
         IN  /\ n \in Nat /\ DOMAIN s = 1..n /\ DOMAIN Append(s, x) = 1..(n + 1)
             /\ n + 1 \in 1..(n + 1) /\ n + 1 \notin 1..n
             /\ \A i \in 1..(n + 1) : i \in 1..n \/ i = n + 1
             /\ \A i \in 1..n : i \in 1..(n + 1)
  OBVIOUS

\* What a list with a further element holds.
LEMMA RangeAppend ==
  ASSUME NEW S, NEW s \in Seq(S), NEW x \in S
  PROVE  /\ Range(Append(s, x)) = Range(s) \cup {x}
         /\ IsInjective(Append(s, x)) <=> IsInjective(s) /\ x \notin Range(s)
<1> DEFINE n == Len(s)
           m == Append(s, x)
<1>1. /\ n \in Nat /\ DOMAIN s = 1..n /\ DOMAIN m = 1..(n + 1)
      /\ n + 1 \in 1..(n + 1) /\ n + 1 \notin 1..n
      /\ \A i \in 1..(n + 1) : i \in 1..n \/ i = n + 1
      /\ \A i \in 1..n : i \in 1..(n + 1)
  BY Places, Zenon
<1>2. m[n + 1] = x /\ \A i \in 1..n : m[i] = s[i]
  BY Appended
<1> HIDE DEF n, m
<1>3. Range(m) = Range(s) \cup {x}
  BY <1>1, <1>2, Zenon DEF Range
<1>4. IsInjective(m) => IsInjective(s) /\ x \notin Range(s)
  BY <1>1, <1>2, Zenon DEF Range, IsInjective
<1>5. IsInjective(s) /\ x \notin Range(s) => IsInjective(m)
  <2> SUFFICES ASSUME IsInjective(s), x \notin Range(s),
                      NEW a \in 1..(n + 1), NEW b \in 1..(n + 1), m[a] = m[b]
               PROVE  a = b
    BY <1>1, Zenon DEF IsInjective
  <2>1. \A i, j \in 1..n : s[i] = s[j] => i = j
    BY <1>1, Zenon DEF IsInjective
  <2>2. \A i \in 1..n : s[i] # x
    BY <1>1, Zenon DEF Range
  <2> QED
    BY <1>1, <1>2, <2>1, <2>2, Zenon
<1> QED
  BY <1>3, <1>4, <1>5, Zenon DEF m

\* What two lists hold one after the other.
EndToEnd(x, y) ==
  /\ Range(x \o y) = Range(x) \cup Range(y)
  /\ IsInjective(x \o y) <=>
       IsInjective(x) /\ IsInjective(y) /\ Range(x) \cap Range(y) = {}

LEMMA RangeConcat ==
  ASSUME NEW S, NEW x \in Seq(S), NEW y \in Seq(S)
  PROVE  EndToEnd(x, y)
<1> DEFINE T == {s \in Seq(S) : EndToEnd(x, s)}
<1>1. <<>> \in T
  <2>1. x \o <<>> = x /\ <<>> \in Seq(S) /\ DOMAIN <<>> = {}
    OBVIOUS
  <2>2. Range(<<>>) = {} /\ IsInjective(<<>>)
    BY <2>1, Zenon DEF Range, IsInjective
  <2> QED
    BY <2>1, <2>2, Zenon DEF EndToEnd
<1>2. \A s \in Seq(S), m \in S : s \in T => Append(s, m) \in T
  <2> SUFFICES ASSUME NEW s \in Seq(S), NEW m \in S, EndToEnd(x, s)
               PROVE  Append(s, m) \in Seq(S) /\ EndToEnd(x, Append(s, m))
    BY Zenon
  <2>1. x \o Append(s, m) = Append(x \o s, m)
    BY ConcatAppend
  <2>2. x \o s \in Seq(S) /\ Append(s, m) \in Seq(S)
    OBVIOUS
  <2> DEFINE xs == x \o s
  <2>3. /\ Range(Append(xs, m)) = Range(xs) \cup {m}
        /\ IsInjective(Append(xs, m)) <=> IsInjective(xs) /\ m \notin Range(xs)
    <3> HIDE DEF xs
    <3> QED
      BY <2>2, RangeAppend, Zenon DEF xs
  <2>4. /\ Range(Append(s, m)) = Range(s) \cup {m}
        /\ IsInjective(Append(s, m)) <=> IsInjective(s) /\ m \notin Range(s)
    BY RangeAppend, Zenon
  <2>5. /\ Range(xs) = Range(x) \cup Range(s)
        /\ IsInjective(xs) <=>
             IsInjective(x) /\ IsInjective(s) /\ Range(x) \cap Range(s) = {}
    BY Zenon DEF EndToEnd
  <2> DEFINE sm == Append(s, m)
             xsm == Append(xs, m)
  <2>6. x \o sm = xsm
    BY <2>1, Zenon
  <2> HIDE DEF xs, sm, xsm
  <2>7. Range(xsm) = Range(x) \cup Range(sm)
    BY <2>3, <2>4, <2>5, Zenon DEF sm, xsm
  <2>8. IsInjective(xsm) <=>
          IsInjective(x) /\ IsInjective(sm) /\ Range(x) \cap Range(sm) = {}
    BY <2>3, <2>4, <2>5, Zenon DEF sm, xsm
  <2> QED
    BY <2>2, <2>6, <2>7, <2>8, Zenon DEF EndToEnd, sm
<1>3. \A s \in Seq(S) : s \in T
  <2> HIDE DEF T
  <2> QED
    BY <1>1, <1>2, ListInduction, Zenon
<1> QED
  BY <1>3, Zenon

\* What is picked are the elements at those places, each as often as before.
PickedRight(s, I) ==
  /\ Range(Picked(s, I)) = {s[i] : i \in {j \in DOMAIN s : j \in I}}
  /\ IsInjective(s) => IsInjective(Picked(s, I))

LEMMA PickedKeeps ==
  ASSUME NEW S, NEW s \in Seq(S), NEW I
  PROVE  PickedRight(s, I)
<1> DEFINE T == {r \in Seq(S) : PickedRight(r, I)}
<1>1. <<>> \in T
  <2>1. <<>> \in Seq(S) /\ DOMAIN <<>> = {}
    OBVIOUS
  <2>2. Range(<<>>) = {} /\ IsInjective(<<>>)
    BY <2>1, Zenon DEF Range, IsInjective
  <2> QED
    BY <2>1, <2>2, PickedNothing, Zenon DEF PickedRight
<1>2. \A r \in Seq(S), x \in S : r \in T => Append(r, x) \in T
  <2> SUFFICES ASSUME NEW r \in Seq(S), NEW x \in S, PickedRight(r, I)
               PROVE  Append(r, x) \in Seq(S) /\ PickedRight(Append(r, x), I)
    BY Zenon
  <2> DEFINE n == Len(r)
             m == Append(r, x)
             u == Picked(r, I)
             w == Picked(m, I)
             At(q) == {q[i] : i \in {j \in DOMAIN q : j \in I}}
  <2>1. /\ DOMAIN r = 1..n /\ DOMAIN m = 1..(n + 1) /\ n + 1 \in 1..(n + 1)
        /\ \A i \in 1..(n + 1) : i \in 1..n \/ i = n + 1
        /\ \A i \in 1..n : i \in 1..(n + 1)
    BY Places, Zenon
  <2>2. m \in Seq(S) /\ m[n + 1] = x /\ \A i \in 1..n : m[i] = r[i]
    BY Appended
  <2>3. u \in Seq(S)
    BY PickedIsSeq, Zenon
  <2>4. w = IF n + 1 \in I THEN Append(u, x) ELSE u
    <3>1. AgreeUpTo(Len(r), I, I)
      BY Zenon DEF AgreeUpTo
    <3> QED
      BY <3>1, PickedAppend
  <2>5. Range(u) = At(r) /\ (IsInjective(r) => IsInjective(u))
    BY Zenon DEF PickedRight
  <2>6. /\ Range(m) = Range(r) \cup {x}
        /\ IsInjective(m) <=> IsInjective(r) /\ x \notin Range(r)
    BY RangeAppend, Zenon
  <2>7. /\ Range(Append(u, x)) = Range(u) \cup {x}
        /\ IsInjective(Append(u, x)) <=> IsInjective(u) /\ x \notin Range(u)
    <3> HIDE DEF u
    <3> QED
      BY <2>3, RangeAppend, Zenon
  <2>8. At(m) = IF n + 1 \in I THEN At(r) \cup {x} ELSE At(r)
    <3> HIDE DEF n, m
    <3> QED
      BY <2>1, <2>2, Zenon
  <2>9. At(r) \subseteq Range(r)
    BY Zenon DEF Range
  <2> HIDE DEF n, m, u, w, At
  <2>10. Range(w) = At(m) /\ (IsInjective(m) => IsInjective(w))
    BY <2>4, <2>5, <2>6, <2>7, <2>8, <2>9, Zenon
  <2> QED
    BY <2>2, <2>10, Zenon DEF PickedRight, m, w, At
<1>3. \A r \in Seq(S) : r \in T
  <2> HIDE DEF T
  <2> QED
    BY <1>1, <1>2, ListInduction, Zenon
<1> QED
  BY <1>3, Zenon
=============================================================================

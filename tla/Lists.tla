-------------------------------- MODULE Lists --------------------------------
(***************************************************************************)
(* What loops over lists compute: the elements of lists one after the      *)
(* other, a sum, what VecDeque::retain leaves.  They are FlattenSeq,       *)
(* FoldSeq and SelectSeq of the libraries, by recursion from the empty     *)
(* list on, so that the rounds of the loop can be reasoned about.          *)
(***************************************************************************)
EXTENDS Integers, Sequences, FiniteSets, Functions

Flatten(lists) ==
  LET upTo[i \in 0..Len(lists)] == IF i = 0 THEN <<>> ELSE upTo[i - 1] \o lists[i]
  IN  upTo[Len(lists)]

Total(numbers) ==
  LET upTo[i \in 0..Len(numbers)] == IF i = 0 THEN 0 ELSE upTo[i - 1] + numbers[i]
  IN  upTo[Len(numbers)]

\* The elements at the places in I.
Picked(list, I) ==
  LET upTo[i \in 0..Len(list)] ==
        IF i = 0 THEN <<>>
        ELSE IF i \in I THEN Append(upTo[i - 1], list[i])
        ELSE upTo[i - 1]
  IN  upTo[Len(list)]

\* The first of some places: what Iterator::position finds.
First(I) == CHOOSE i \in I : \A j \in I : i <= j

\* The lists that hold each member of S once: the orders a HashMap may give.
Orders(S) == UNION {Bijection(1..n, S) : n \in 0..Cardinality(S)}
=============================================================================

------------------------------ MODULE MCRouting ------------------------------
(* b knows a by its bootstrap list, a knows nobody. *)
EXTENDS Routing, TLC

CONSTANTS a, b, p

MCBootstrap == (a :> {}) @@ (b :> {a})
MCHome == [x \in Publisher |-> b]
=============================================================================

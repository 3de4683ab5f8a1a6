-------------------------------- MODULE Places --------------------------------
(***************************************************************************)
(* Sequences filtered by place: what the filter of an array returns.       *)
(***************************************************************************)
EXTENDS Naturals, Sequences, FiniteSets

\* The n-th of some places of a sequence, and what is at those places, in its order.
Nth(places, n)  == CHOOSE i \in places : Cardinality({j \in places : j <= i}) = n
At(seq, places) == [n \in 1 .. Cardinality(places) |-> seq[Nth(places, n)]]
=============================================================================

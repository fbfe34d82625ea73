------------------------------- MODULE InOrder -------------------------------
(* A finite set of numbers as a sequence. *)
EXTENDS Naturals, FiniteSets

\* How many members of S are up to k.
Rank(S, k) == Cardinality({m \in S : m <= k})

\* The members of S, smallest first.
InOrder(S) == [n \in 1 .. Cardinality(S) |-> CHOOSE k \in S : Rank(S, k) = n]
=============================================================================

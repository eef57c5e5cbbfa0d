-------------------------------- MODULE Ranks --------------------------------
(* Numbers in their order. *)
EXTENDS Integers, FiniteSets

\* The k-th of a set of numbers.
Nth(S, k) == CHOOSE i \in S : Cardinality({j \in S : j < i}) = k - 1
=============================================================================

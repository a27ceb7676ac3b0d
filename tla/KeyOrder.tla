------------------------------ MODULE KeyOrder ------------------------------
(* A finite set of keys in ascending order, as ORDER BY on the primary key *)
(* delivers it (external): the i-th key is the one with i - 1 before it.   *)
EXTENDS Naturals, FiniteSets

Before(S, k) == {j \in S : j < k}
InOrder(S) == [i \in 1..Cardinality(S) |-> CHOOSE k \in S : Cardinality(Before(S, k)) = i - 1]
=============================================================================

------------------------------ MODULE Ordering ------------------------------
(***************************************************************************)
(* The order in which a loop over indices, or over a std::set of numbers,  *)
(* visits them.                                                            *)
(***************************************************************************)
EXTENDS Integers, FiniteSets

\* The numbers K in increasing order.
Ascending(K) ==
    LET nth(i) == CHOOSE k \in K : Cardinality({l \in K : l < k}) = i - 1
    IN  [i \in 1..Cardinality(K) |-> nth(i)]
=============================================================================

-------------------------- MODULE SequentialCollect --------------------------
(***************************************************************************)
(* What CollectStatistics promises, with neither threads nor loops: the    *)
(* equal sets are taken one after the other, and each adds, in one step,   *)
(* the complete summaries of those of its subsets that had none.  Nothing  *)
(* is ever changed or removed.                                             *)
(***************************************************************************)
EXTENDS Naturals

CONSTANTS
    Sets,        \* the numbers of the equal sets
    SubsetsOf,   \* SubsetsOf[i]: the keys equal set i asks for
    VectorsOf    \* VectorsOf[i]: the count vectors equal set i has

VARIABLES
    known,   \* the complete summaries, by key
    next,    \* the equal set to take next
    ended

vars == <<known, next, ended>>

Summary(i) == [from |-> i, added |-> [m \in VectorsOf[i] |-> 1]]

Init ==
    /\ known = <<>>
    /\ next = 1
    /\ ended = FALSE

CollectNext ==
    /\ next \in Sets
    /\ next' = next + 1
    /\ known' = [k \in DOMAIN known \cup SubsetsOf[next] |->
                    IF k \in DOMAIN known THEN known[k] ELSE Summary(next)]
    /\ UNCHANGED ended

End ==
    /\ next \notin Sets
    /\ ended' = TRUE
    /\ UNCHANGED <<known, next>>

Next == CollectNext \/ End

Spec == Init /\ [][Next]_vars
=============================================================================

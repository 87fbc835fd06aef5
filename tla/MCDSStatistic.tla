---------------------------- MODULE MCDSStatistic ----------------------------
(***************************************************************************)
(* Instances of DSStatistic.  Chain: three tables, two stars that share    *)
(* the middle one.  LongChain: a third star, merged to the result of the   *)
(* first merge.  FilteredMiddle: the filter of the shared table is applied *)
(* in both stars; FilteredEnd: that of a table in one of them.             *)
(* SplitInTwo, SplitInThree: pieces of one star.                           *)
(***************************************************************************)
EXTENDS DSStatistic

CONSTANTS x, y, z, MultChain, MultLong, MultSplit, MultFiltered

Merging(i, j, t) == [to |-> i, from |-> j, on |-> t]

Chain ==
    [cols |-> (1 :> {x}) @@ (2 :> {x, y}) @@ (3 :> {y}),
     pieces |-> <<[attr |-> x, tables |-> {1, 2}], [attr |-> y, tables |-> {2, 3}]>>,
     filters |-> {},
     steps |-> <<Merging(1, 2, 2)>>,
     mult |-> MultChain]

FilteredMiddle ==
    [Chain EXCEPT !.filters = {2},
                  !.steps = <<Merging(1, Filter, 2), Merging(2, Filter, 2)>> \o @,
                  !.mult = MultFiltered]

FilteredEnd ==
    [Chain EXCEPT !.filters = {1},
                  !.steps = <<Merging(1, Filter, 1)>> \o @,
                  !.mult = MultFiltered]

LongChain ==
    [cols |-> (1 :> {x}) @@ (2 :> {x, y}) @@ (3 :> {y, z}) @@ (4 :> {z}),
     pieces |-> <<[attr |-> x, tables |-> {1, 2}], [attr |-> y, tables |-> {2, 3}],
                  [attr |-> z, tables |-> {3, 4}]>>,
     filters |-> {},
     steps |-> <<Merging(1, 2, 2), Merging(1, 3, 3)>>,
     mult |-> MultLong]

SplitInTwo ==
    [cols |-> [t \in 1..4 |-> {x}],
     pieces |-> <<[attr |-> x, tables |-> {1, 2}], [attr |-> x, tables |-> {3, 4}]>>,
     filters |-> {},
     steps |-> <<Merging(1, 2, Center)>>,
     mult |-> MultSplit]

SplitInThree ==
    [cols |-> [t \in 1..7 |-> {x}],
     pieces |-> <<[attr |-> x, tables |-> {1, 2, 3}], [attr |-> x, tables |-> {4, 5}],
                  [attr |-> x, tables |-> {6, 7}]>>,
     filters |-> {},
     steps |-> <<Merging(1, 2, Center), Merging(1, 3, Center)>>,
     mult |-> {1}]

\* The default of CompressPrecision in the experiments.
OneAndAHalf == [num |-> 3, den |-> 2]

AcyclicPlans == {Chain, LongChain, FilteredMiddle, FilteredEnd, SplitInTwo}
ThreePieces == {SplitInThree}

\* The two key values are interchangeable.
ValueSymmetry == Permutations(Value)
=============================================================================

------------------------------ MODULE Estimate ------------------------------
(***************************************************************************)
(* StatisticManager::EstimateCardinality, step by step: the summaries of   *)
(* the stars are looked up, the filters of their relations are applied,    *)
(* stars that share a relation are merged with a union-find over their     *)
(* indices, and the cardinalities of the roots are multiplied.  Session    *)
(* takes this as one step.                                                 *)
(*                                                                         *)
(* A cardinality is represented by how many times each relation is a       *)
(* factor of it; a summary (DSStatistic) by its cardinality, whose factors *)
(* are its tables, and by the filters merged into it.  UseSubqueryCard is  *)
(* FALSE and nothing is recorded.                                          *)
(***************************************************************************)
EXTENDS Stars

CONSTANTS
    Inputs,             \* what EstimateCardinality is called with
    Known,              \* keys of StatisticManager::statistics
    SingleCards,        \* <<table, filter>> pairs in singleQueryCard
    UseSingleTableCard,
    EnableStarSplit, MaxStarSize,
    PredMethod

\* An attribute of a star, the column 0 of a relation on its own included.
StarAttr == (Nat \ {0}) \X Nat

\* The stars GetAttrEsetFromRels finds for rels, tableName and filterString.
Input == [stars : Seq(SUBSET StarAttr), tableName : Seq(Nat), filters : Seq(STRING)]

ASSUME InputsAssumption ==
    /\ Inputs \subseteq Input
    /\ \A in \in Inputs :
          /\ in.stars # <<>>
          /\ \A k \in DOMAIN in.stars :
                /\ in.stars[k] # {} /\ IsFiniteSet(in.stars[k])
                /\ RelsOf(in.stars[k]) \subseteq DOMAIN in.tableName

VARIABLES
    input,
    phase,              \* the loop EstimateCardinality is in
    i, j,               \* its loop variables
    todo,               \* attributes of star i whose filter is to be applied
    attrEsets, parent, dsStats,
    root1, root2,
    card,
    outcome

vars == <<input, phase, i, j, todo, attrEsets, parent, dsStats, root1, root2,
          card, outcome>>

Stars == DOMAIN input.stars
N == Len(input.stars)
Rels == UNION {RelsOf(input.stars[k]) : k \in Stars}

Summary == [card : [Rels -> Nat], filters : SUBSET Nat]

\* DSStatistic::tables
Tables(s) == {r \in DOMAIN s.card : s.card[r] > 0}
-----------------------------------------------------------------------------
Init ==
    /\ input \in Inputs
    /\ phase = "lookup"
    /\ i = 1 /\ j = 1
    /\ todo = {}
    /\ attrEsets = input.stars
    /\ parent = [k \in Stars |-> k]
    /\ dsStats = <<>>
    /\ root1 = 1 /\ root2 = 1
    /\ card = [r \in Rels |-> 0]
    /\ outcome = "none"

\* An exception leaves EstimateCardinality.
Throw(what) ==
    /\ phase' = "done"
    /\ outcome' = what
    /\ UNCHANGED <<input, i, j, todo, attrEsets, parent, dsStats, root1, root2, card>>

\* What GetStatisticsFromEset needs for the key.
StatisticsKnown(key) ==
    IF EnableStarSplit THEN MaxStarSize >= 3 /\ Split(key, MaxStarSize) \subseteq Known
    ELSE key \in Known

\* The summary of a star whose relations are rels.
Collected(rels) ==
    [card |-> [r \in Rels |-> IF r \in rels THEN 1 ELSE 0], filters |-> {}]

LookUp ==
    /\ phase = "lookup"
    /\ i <= N
    /\ LET key == GetEqualSetFromAttrEset(input.tableName, attrEsets[i])
           rels == Range(TableIdx(input.tableName, attrEsets[i]))
       IN  \/ /\ StatisticsKnown(key)
              /\ dsStats' = Append(dsStats, Collected(rels))
              /\ i' = i + 1
              /\ UNCHANGED <<input, phase, j, todo, attrEsets, parent, root1, root2,
                             card, outcome>>
           \/ ~StatisticsKnown(key) /\ Throw("statistics")

StartFilters ==
    /\ phase = "lookup"
    /\ i > N
    /\ phase' = "filter"
    /\ i' = 1
    /\ todo' = attrEsets[1]
    /\ UNCHANGED <<input, j, attrEsets, parent, dsStats, root1, root2, card, outcome>>
-----------------------------------------------------------------------------
\* filterString.at(r), then GetTableCard(r) if the filter is not empty.  The
\* GetNDV that follows has succeeded once, in AddTable.
FilterThrows(r) ==
    r \in DOMAIN input.filters =>
        /\ UseSingleTableCard
        /\ input.filters[r] # NoFilter
        /\ <<input.tableName[r], input.filters[r]>> \notin SingleCards

\* The next attribute in std::set order, and its relation.
NextAttr == CHOOSE a \in todo : \A b \in todo : ~Before(b, a)
NextRel == NextAttr[1]

\* One attribute is done.
Filtered(stats) ==
    /\ dsStats' = stats
    /\ todo' = todo \ {NextAttr}
    /\ UNCHANGED <<input, phase, i, j, attrEsets, parent, root1, root2, card, outcome>>

NoFilterToApply ==
    /\ phase = "filter" /\ todo # {}
    /\ ~FilterThrows(NextRel)
    /\ input.filters[NextRel] = NoFilter
    /\ Filtered(dsStats)

(***************************************************************************)
(* Methods 0 and 2 merge the summary with a one-table summary of the       *)
(* relation, which must be one of its tables; method 1 scales the summary. *)
(***************************************************************************)
ApplyFilter ==
    /\ phase = "filter" /\ todo # {}
    /\ ~FilterThrows(NextRel)
    /\ input.filters[NextRel] # NoFilter
    /\ PredMethod \in {0, 2} => NextRel \in Tables(dsStats[i])
    /\ Filtered([dsStats EXCEPT ![i].filters = @ \cup {NextRel}])

\* ds.at(table) throws in method 0; method 2 creates an empty sequence for
\* the relation and then indexes beyond the tables of the summary.
FilterMisses ==
    /\ phase = "filter" /\ todo # {}
    /\ ~FilterThrows(NextRel)
    /\ input.filters[NextRel] # NoFilter
    /\ PredMethod \in {0, 2}
    /\ NextRel \notin Tables(dsStats[i])
    /\ Throw(IF PredMethod = 0 THEN "out_of_range" ELSE "undefined")

FilterFails ==
    /\ phase = "filter" /\ todo # {}
    /\ FilterThrows(NextRel)
    /\ Throw("filter")

NextStar ==
    /\ phase = "filter" /\ todo = {}
    /\ \/ /\ i < N
          /\ i' = i + 1 /\ j' = j
          /\ todo' = attrEsets[i + 1]
          /\ phase' = phase
       \/ /\ i = N
          /\ phase' = "merge"
          /\ i' = 1 /\ j' = 2
          /\ todo' = todo
    /\ UNCHANGED <<input, attrEsets, parent, dsStats, root1, root2, card, outcome>>
-----------------------------------------------------------------------------
\* A mutant of NextPair: the inner loop runs one index too far.
NextPairTooFar == /\ i' = IF j <= N THEN i ELSE i + 1
                  /\ j' = IF j <= N THEN j + 1 ELSE i + 2

\* The next pair of the loops over i < j.
NextPair == /\ i' = IF j < N THEN i ELSE i + 1
            /\ j' = IF j < N THEN j + 1 ELSE i + 2

SkipPair ==
    /\ phase = "merge" /\ i < N
    /\ ~CanMerge(attrEsets[i], attrEsets[j])
    /\ NextPair
    /\ UNCHANGED <<input, phase, todo, attrEsets, parent, dsStats, root1, root2, card,
                   outcome>>

MergePair ==
    /\ phase = "merge" /\ i < N
    /\ CanMerge(attrEsets[i], attrEsets[j])
    /\ phase' = "find"
    /\ root1' = i /\ root2' = j
    /\ UNCHANGED <<input, i, j, todo, attrEsets, parent, dsStats, card, outcome>>

\* A mutant of Climb: the second loop is a copy of the first.
ClimbFirstTwice ==
    /\ phase = "find"
    /\ parent[root1] # root1 \/ parent[root2] # root2
    /\ root1' = parent[root1]
    /\ UNCHANGED <<input, phase, i, j, todo, attrEsets, parent, dsStats, root2, card,
                   outcome>>

\* One iteration of a while loop: root1's first.
Climb ==
    /\ phase = "find"
    /\ \/ /\ parent[root1] # root1
          /\ root1' = parent[root1]
          /\ UNCHANGED root2
       \/ /\ parent[root1] = root1
          /\ parent[root2] # root2
          /\ root2' = parent[root2]
          /\ UNCHANGED root1
    /\ UNCHANGED <<input, phase, i, j, todo, attrEsets, parent, dsStats, card, outcome>>

RootsFound == phase = "find" /\ parent[root1] = root1 /\ parent[root2] = root2

SameRoot ==
    /\ RootsFound
    /\ root1 = root2
    /\ phase' = "merge"
    /\ NextPair
    /\ UNCHANGED <<input, todo, attrEsets, parent, dsStats, root1, root2, card, outcome>>

\* A mutant of Linked: the indices of the pair are linked, not their roots.
LinkedPair == [parent EXCEPT ![j] = i]

Linked == [parent EXCEPT ![root2] = root1]

\* A mutant of Merged: the filters of the second summary are lost.
MergedTables(s1, s2, rel) ==
    [s1 EXCEPT !.card = [r \in Rels |-> @[r] + s2.card[r] - (IF r = rel THEN 1 ELSE 0)]]

\* DSStatistic::Merge.  The summaries are joined on rel alone: any other
\* relation of both stays a factor of either.
Merged(s1, s2, rel) ==
    [card |-> [r \in Rels |-> s1.card[r] + s2.card[r] - (IF r = rel THEN 1 ELSE 0)],
     filters |-> s1.filters \cup s2.filters]

MergeRoots ==
    /\ RootsFound
    /\ root1 # root2
    /\ LET commonRel == GetCommonRelation(attrEsets[root1], attrEsets[root2])
           found == commonRel \in Tables(dsStats[root1]) \cap Tables(dsStats[root2])
       IN  \/ /\ found
              /\ parent' = Linked
              /\ attrEsets' = [attrEsets EXCEPT ![root1] = @ \cup attrEsets[root2]]
              /\ dsStats' = [dsStats EXCEPT
                                ![root1] = Merged(dsStats[root1], dsStats[root2], commonRel)]
              /\ phase' = "merge"
              /\ NextPair
              /\ UNCHANGED <<input, todo, root1, root2, card, outcome>>
           \/ ~found /\ Throw("out_of_range")

StartProduct ==
    /\ phase = "merge" /\ i >= N
    /\ phase' = "product"
    /\ i' = 1
    /\ UNCHANGED <<input, j, todo, attrEsets, parent, dsStats, root1, root2, card, outcome>>
-----------------------------------------------------------------------------
\* card *= dsStats[i].card for the roots.
Multiply ==
    /\ phase = "product" /\ i <= N
    /\ card' = IF parent[i] = i
               THEN [r \in Rels |-> card[r] + dsStats[i].card[r]]
               ELSE card
    /\ i' = i + 1
    /\ UNCHANGED <<input, phase, j, todo, attrEsets, parent, dsStats, root1, root2, outcome>>

ReturnCard ==
    /\ phase = "product" /\ i > N
    /\ phase' = "done"
    /\ outcome' = "ok"
    /\ UNCHANGED <<input, i, j, todo, attrEsets, parent, dsStats, root1, root2, card>>

Returned == phase = "done" /\ UNCHANGED vars

Step == \/ LookUp \/ StartFilters
        \/ NoFilterToApply \/ ApplyFilter \/ FilterMisses \/ FilterFails \/ NextStar
        \/ SkipPair \/ MergePair \/ Climb \/ SameRoot \/ MergeRoots \/ StartProduct
        \/ Multiply \/ ReturnCard

Next == Step \/ Returned

Spec == Init /\ [][Next]_vars
FairSpec == Spec /\ WF_vars(Step)
-----------------------------------------------------------------------------
(***************************************************************************)
(* Type invariant.                                                         *)
(***************************************************************************)
TypeOK ==
    /\ input \in Input
    /\ phase \in {"lookup", "filter", "merge", "find", "product", "done"}
    /\ i \in Nat \ {0} /\ j \in Nat \ {0}
    /\ phase = "filter" \/ phase = "find" \/ (phase = "merge" /\ i < N) => i \in Stars
    /\ phase = "find" \/ (phase = "merge" /\ i < N) => j \in Stars /\ i < j
    /\ todo \subseteq StarAttr
    /\ attrEsets \in [Stars -> SUBSET StarAttr]
    /\ parent \in [Stars -> Stars]
    /\ dsStats \in Seq(Summary)
    /\ root1 \in Stars /\ root2 \in Stars
    /\ card \in [Rels -> Nat]
    /\ outcome \in {"none", "ok", "statistics", "filter", "out_of_range", "undefined"}

\* No star has two relations over the same table.
NoSelfJoin ==
    \A k \in Stars : \A r, s \in RelsOf(input.stars[k]) :
        input.tableName[r] = input.tableName[s] => r = s

(***************************************************************************)
(* What Session says of this call: it throws when a star has no summary,   *)
(* then when a filter is missing, and for no other reason.  In particular  *)
(* the roots of two stars with a common relation have a common relation    *)
(* that is a table of both summaries, so that Merge's ds.at(commonRel)     *)
(* finds it (starce.hpp:850-874).                                          *)
(***************************************************************************)
KeyOf(k) == GetEqualSetFromAttrEset(input.tableName, input.stars[k])

OutcomeAsInSession ==
    phase = "done" /\ NoSelfJoin =>
        outcome = IF \E k \in Stars : ~StatisticsKnown(KeyOf(k)) THEN "statistics"
                  ELSE IF \E r \in Rels : FilterThrows(r) THEN "filter"
                  ELSE "ok"

(***************************************************************************)
(* The join graph is Berge-acyclic: with a node for every star and every   *)
(* relation and an edge between a star and each of its relations, it is a  *)
(* forest, any part of which has fewer edges than nodes.                   *)
(***************************************************************************)
StarSizes == [k \in Stars |-> Cardinality(RelsOf(input.stars[k]))]

Edges(K) == SumFunctionOnSet(StarSizes, K)

BergeAcyclic ==
    \A K \in SUBSET Stars : K # {} =>
        Edges(K) < Cardinality(K) + Cardinality(UNION {RelsOf(input.stars[k]) : k \in K})

(***************************************************************************)
(* Every relation is a factor of the estimate: the roots have no relation  *)
(* in common when the pair loop ends, in whatever order the stars that     *)
(* share relations come.  In a Berge-acyclic graph it is one exactly once: *)
(* the pair loop merges on one relation of two roots (GetCommonRelation),  *)
(* however many stars they have become, and they never share another       *)
(* (starce.hpp:850-883).                                                   *)
(***************************************************************************)
EachRelationOnce ==
    outcome = "ok" /\ NoSelfJoin =>
        \A r \in Rels : card[r] >= 1 /\ (BergeAcyclic => card[r] = 1)

(***************************************************************************)
(* The filters that went into a root are those of all its relations.       *)
(***************************************************************************)
FiltersCounted ==
    outcome = "ok" =>
        \A k \in Stars : parent[k] = k =>
            dsStats[k].filters =
                {r \in RelsOf(attrEsets[k]) : input.filters[r] # NoFilter}

(***************************************************************************)
(* "estimates Berge-acyclic join queries": no relation of the query is     *)
(* left out of its estimate.                                               *)
(***************************************************************************)
NoRelationLost == outcome = "ok" => \A r \in Rels : card[r] >= 1

(***************************************************************************)
(* The call ends: no chain of parents is a cycle.                          *)
(***************************************************************************)
EstimateEnds == <>(phase = "done")
-----------------------------------------------------------------------------
(***************************************************************************)
(* The inductive invariant behind OutcomeAsInSession.                      *)
(* f gives the root of every index; the pair loop makes it agree on the    *)
(* stars that share a relation, pair by pair.                              *)
(***************************************************************************)
IsRootMap(f) ==
    /\ f \in [Stars -> Stars]
    /\ \A k \in Stars : /\ parent[f[k]] = f[k]
                        /\ f[parent[k]] = f[k]
                        /\ parent[k] = k => f[k] = k

\* A root has the relations of the stars below it and no others.
RootsHold(f) ==
    /\ \A k \in Stars : /\ RelsOf(input.stars[k]) \subseteq RelsOf(attrEsets[k])
                        /\ RelsOf(attrEsets[k]) \subseteq RelsOf(attrEsets[f[k]])
    /\ \A k \in Stars : \A r \in RelsOf(attrEsets[k]) :
          \E l \in Stars : f[l] = f[k] /\ r \in RelsOf(input.stars[l])

\* The loops over i and j have passed the pair.
Passed(a, b) ==
    \/ phase = "product"
    \/ phase \in {"merge", "find"} /\ (a < i \/ (a = i /\ b < j))

SharedMerged(f) ==
    \A a, b \in Stars :
        a < b /\ Passed(a, b) /\ CanMerge(input.stars[a], input.stars[b]) => f[a] = f[b]

MergeInv ==
    \E f \in [Stars -> Stars] :
        /\ IsRootMap(f) /\ RootsHold(f) /\ SharedMerged(f)
        /\ phase = "find" => f[root1] = f[i] /\ f[root2] = f[j]

\* The summaries so far are those of the stars.
StatsInv ==
    /\ phase = "lookup" => Len(dsStats) = i - 1 /\ i <= N + 1
    /\ phase \notin {"lookup", "done"} => Len(dsStats) = N
    /\ phase # "done" => \A k \in DOMAIN dsStats : StatisticsKnown(KeyOf(k))
    /\ NoSelfJoin /\ phase # "done" =>
          \A k \in DOMAIN dsStats : Tables(dsStats[k]) = RelsOf(attrEsets[k])

\* No filter that has been passed throws.
FiltersInv ==
    /\ phase \in {"lookup", "filter"} => attrEsets = input.stars
    /\ phase = "filter" =>
          /\ todo \subseteq attrEsets[i]
          /\ \A k \in Stars : k < i =>
                \A r \in RelsOf(attrEsets[k]) : ~FilterThrows(r)
          /\ \A r \in RelsOf(attrEsets[i] \ todo) : ~FilterThrows(r)
    /\ phase \in {"merge", "find", "product"} =>
          \A r \in Rels : ~FilterThrows(r)

CardInv ==
    /\ phase = "find" => CanMerge(attrEsets[i], attrEsets[j])
    /\ phase \in {"lookup", "filter", "merge", "find"} => \A r \in Rels : card[r] = 0
    /\ NoSelfJoin /\ phase = "product" =>
          \A r \in Rels :
              card[r] > 0 <=> \E k \in Stars : /\ k < i /\ parent[k] = k
                                               /\ r \in RelsOf(attrEsets[k])

EstimateInv ==
    /\ TypeOK
    /\ input \in Inputs
    /\ outcome = "none" <=> phase # "done"
    /\ MergeInv /\ StatsInv /\ FiltersInv /\ CardInv
    /\ OutcomeAsInSession
    /\ outcome = "ok" /\ NoSelfJoin => \A r \in Rels : card[r] > 0

(***************************************************************************)
(* The strengthening of EachRelationOnce.  Together, the stars below a     *)
(* root and its relations are connected: they have at most one node more   *)
(* than edges.  So two roots of a Berge-acyclic graph have no more than    *)
(* one relation in common.                                                 *)
(***************************************************************************)
Below(f, k) == {l \in Stars : f[l] = k}

RootsConnected(f) ==
    \A k \in Stars :
        parent[k] = k => Cardinality(RelsOf(attrEsets[k])) + Cardinality(Below(f, k))
                            <= 1 + Edges(Below(f, k))

OnceInv ==
    NoSelfJoin /\ BergeAcyclic =>
        /\ phase # "done" =>
              \E f \in [Stars -> Stars] : IsRootMap(f) /\ RootsHold(f) /\ RootsConnected(f)
        /\ phase # "done" =>
              \A k \in DOMAIN dsStats, r \in Rels : dsStats[k].card[r] <= 1
        /\ phase = "product" \/ outcome = "ok" => \A r \in Rels : card[r] <= 1

(***************************************************************************)
(* The strengthening of FiltersCounted: the filters of a summary are those *)
(* of the attributes passed, and of its whole star once the filter loop is *)
(* over.                                                                   *)
(***************************************************************************)
FiltersOf(star) == {r \in RelsOf(star) : input.filters[r] # NoFilter}

AttrsPassed(k) == IF k < i THEN attrEsets[k]
                  ELSE IF k = i THEN attrEsets[k] \ todo ELSE {}

SummaryFiltersInv ==
    /\ phase = "lookup" => \A k \in DOMAIN dsStats : dsStats[k].filters = {}
    /\ phase = "filter" =>
          \A k \in Stars : dsStats[k].filters = FiltersOf(AttrsPassed(k))
    /\ phase \in {"merge", "find", "product"} \/ outcome = "ok" =>
          \A k \in Stars : dsStats[k].filters = FiltersOf(attrEsets[k])
=============================================================================

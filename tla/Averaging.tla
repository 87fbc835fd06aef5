------------------------------ MODULE Averaging ------------------------------
(***************************************************************************)
(* What EstimateCardinality does to degree sequences before it merges them *)
(* (statistic.hpp, starce.hpp): AdjustToAverage moves the degrees towards  *)
(* their average, NormalizeSubOneDegrees rounds degrees below 1, and a     *)
(* filter is a sequence of its own.  The degrees become fractions; they    *)
(* are kept as integers, in units of 1 / Unit(ndv), for the one row count  *)
(* ndv that a table has in all its summaries.                              *)
(***************************************************************************)
EXTENDS DegreeSequence

CONSTANT RateDen   \* the adjust rates are k / RateDen, for k in 0..RateDen

ASSUME RateAssumption == RateDen \in Nat \ {0}

Rates == 0..RateDen

Unit(ndv) == RateDen * ndv

\* A degree that is a whole number of tuples, in units.
InUnits(s, unit) == [i \in DOMAIN s |-> [s[i] EXCEPT !.maxDegree = @ * unit]]
-----------------------------------------------------------------------------
\* A mutant of AdjustToAverage: rows of degree 0 get no share.
AdjustWithoutTail(s, card, ndv, k) ==
    LimitDsToCard([i \in DOMAIN s |->
                      [maxDegree |-> s[i].maxDegree * k * ndv + card * (RateDen - k),
                       count |-> s[i].count]], card * Unit(ndv))

\* A mutant of AdjustToAverage: k weighs the average.
AdjustTheOtherWay(s, card, ndv, k) ==
    LET rest == ndv - GetNDV(s)
        share == card * k
    IN  LimitDsToCard([i \in DOMAIN s |->
                          [maxDegree |-> s[i].maxDegree * (RateDen - k) * ndv + share,
                           count |-> s[i].count]]
                      \o (IF rest > 0 /\ share > 0
                          THEN <<[maxDegree |-> share, count |-> rest]>> ELSE <<>>),
                      card * Unit(ndv))

(***************************************************************************)
(* The degrees d of s become d * k + (card / ndv) * (1 - k), rows that are *)
(* not in s get the average's part, and the sum is cut at card.            *)
(***************************************************************************)
AdjustToAverage(s, card, ndv, k) ==
    LET avgDegree == card * (RateDen - k)
        zero_count == ndv - GetNDV(s)
        moved == [i \in DOMAIN s |->
                     [maxDegree |-> s[i].maxDegree * k * ndv + avgDegree,
                      count |-> s[i].count]]
        tail == IF zero_count > 0 /\ avgDegree > 0
                THEN <<[maxDegree |-> avgDegree, count |-> zero_count]>> ELSE <<>>
    IN  LimitDsToCard(moved \o tail, card * Unit(ndv))

\* A mutant of NormalizeSubOneDegrees: the count is rounded down.
NormalizeDown(s, unit) ==
    [i \in DOMAIN s |->
        IF s[i].maxDegree >= unit THEN s[i]
        ELSE [maxDegree |-> unit,
              count |-> Max({1, (s[i].count * s[i].maxDegree) \div unit})]]

NormalizeSubOneDegrees(s, unit) ==
    [i \in DOMAIN s |->
        IF s[i].maxDegree >= unit THEN s[i]
        ELSE [maxDegree |-> unit,
              count |-> Max({1, CeilDiv(s[i].count * s[i].maxDegree, unit)})]]
-----------------------------------------------------------------------------
\* The sequence of a filter that rows rows of its table pass.
SingleSequence(rows) == <<[maxDegree |-> 1, count |-> rows]>>

\* A mutant of WeightedFilter: only the first bucket's rows are weighted.
WeightedFilterNoTail(ndvOfDs, rows, ndv, k) ==
    <<[maxDegree |-> rows * (RateDen - k) + k * ndv, count |-> Min({rows, ndvOfDs})]>>

(***************************************************************************)
(* The filter of PredMethod 2, for a sequence of ndvOfDs rows of which the *)
(* first `rows' overlap with the filter.  No factor exceeds 1, so that     *)
(* AddDegree puts both into its first bucket, and FinishCollection leaves  *)
(* as many rows at the larger factor as their sum needs.                   *)
(***************************************************************************)
WeightedFilter(ndvOfDs, rows, ndv, k) ==
    LET overlap_factor == rows * (RateDen - k) + k * ndv
        tail_factor == rows * (RateDen - k)
        overlap == Min({rows, ndvOfDs})
        tail == IF tail_factor > 0 THEN ndvOfDs - overlap ELSE 0
    IN  IF overlap = 0 THEN NoDegrees
        ELSE <<Tightened([maxDegree |-> overlap_factor,
                          count |-> overlap + tail,
                          sum |-> overlap_factor * overlap + tail_factor * tail])>>
-----------------------------------------------------------------------------
(***************************************************************************)
(* newCard of Merge: the degrees of both sides multiplied, in order.       *)
(***************************************************************************)
MergedCard(s, t) ==
    MapThenSumSet(LAMBDA p : Max({0, Overlap(s, p[1], t, p[2])})
                             * s[p[1]].maxDegree * t[p[2]].maxDegree,
                  (DOMAIN s) \X (DOMAIN t))
=============================================================================

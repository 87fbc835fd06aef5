--------------------------- MODULE DegreeSequence ---------------------------
(***************************************************************************)
(* The class DegreeSequence (statistic.hpp): how many rows (or key values) *)
(* have which degree, compressed into buckets whose bounds grow by the     *)
(* factor CompressPrecision.  maxDegree, count and sum, three vectors in   *)
(* the code, are the fields of a bucket here, buckets are numbered from 1. *)
(*                                                                         *)
(* Degrees are integers.  They are doubles in the code, but collection,    *)
(* Merge and dot only add and multiply counts, so that as long as no       *)
(* filter or average has been applied every double is integral; tests      *)
(* against 1e-6 are then tests against zero.  Averaging measures fractions *)
(* in a unit small enough to make them integers again.                     *)
(***************************************************************************)
EXTENDS Ordering, Sequences, SequencesExt, FiniteSetsExt

CONSTANT CompressPrecision   \* a double, as the fraction num / den

ASSUME PrecisionAssumption == CompressPrecision \in [num : Nat, den : Nat \ {0}]

Bucket == [maxDegree : Nat, count : Nat, sum : Nat]
FinishedBucket == [maxDegree : Nat \ {0}, count : Nat \ {0}]

NoDegrees == <<>>
EmptyBucket == [maxDegree |-> 0, count |-> 0, sum |-> 0]
-----------------------------------------------------------------------------
CeilDiv(a, b) == (a + b - 1) \div b

\* The powers of precision.
Powers[k \in Nat] ==
    IF k = 0 THEN [num |-> 1, den |-> 1]
    ELSE [num |-> Powers[k - 1].num * CompressPrecision.num,
          den |-> Powers[k - 1].den * CompressPrecision.den]

Reaches(k, degree) == degree * Powers[k].den <= Powers[k].num

\* ceil(log(degree) / log(precision)): the least power not below degree.
CeilLog(degree) ==
    CHOOSE k \in 0..(degree * CompressPrecision.den) :
        Reaches(k, degree) /\ \A j \in 0..(k - 1) : ~Reaches(j, degree)

\* Positions are counted from 1.
Position(degree) ==
    IF degree <= 1 \/ CompressPrecision.num <= CompressPrecision.den THEN 1
    ELSE 1 + CeilLog(degree)

AddDegree(s, degree, count) ==
    LET pos == Position(degree)
        grown == s \o [i \in 1..Max({0, pos - Len(s)}) |-> EmptyBucket]
    IN  [grown EXCEPT ![pos] = [maxDegree |-> Max({@.maxDegree, degree}),
                                count |-> @.count + count,
                                sum |-> @.sum + degree * count]]

\* A mutant of Tightened: the quotient is rounded down.
TightenedDown(b) ==
    [maxDegree |-> b.maxDegree, count |-> Min({b.count, b.sum \div b.maxDegree})]

\* The count of a bucket is lowered to what its sum needs at maxDegree.
Tightened(b) ==
    [maxDegree |-> b.maxDegree,
     count |-> Min({b.count, CeilDiv(b.sum, b.maxDegree)})]

\* Largest degrees first, without the empty buckets; sum is gone.
FinishCollection(s) ==
    FoldLeft(LAMBDA kept, b : IF b.count # 0 /\ b.maxDegree # 0
                              THEN <<Tightened(b)>> \o kept ELSE kept,
             NoDegrees, s)
-----------------------------------------------------------------------------
GetCard(s) == MapThenSumSet(LAMBDA i : s[i].count * s[i].maxDegree, DOMAIN s)

GetNDV(s) == MapThenSumSet(LAMBDA i : s[i].count, DOMAIN s)

\* GetCard and GetNDV of the first i buckets.
CardUpTo(s, i) == GetCard(SubSeq(s, 1, i))
NDVUpTo(s, i) == GetNDV(SubSeq(s, 1, i))

\* A mutant of LimitDsToCard: the remainder is dropped.
LimitDsToCardDown(s, card) ==
    LET over == {i \in DOMAIN s : CardUpTo(s, i) > card}
    IN  IF over = {} THEN s ELSE SubSeq(s, 1, Min(over) - 1)

(***************************************************************************)
(* LimitDsToCard cuts s where its sum passes card, and lets what is left   *)
(* of card be one last degree.                                             *)
(***************************************************************************)
LimitDsToCard(s, card) ==
    LET over == {i \in DOMAIN s : CardUpTo(s, i) > card}
        i == Min(over)
        left == card - CardUpTo(s, i - 1)
        full == left \div s[i].maxDegree
        rest == left % s[i].maxDegree
    IN  IF over = {} THEN s
        ELSE SubSeq(s, 1, i - 1)
             \o (IF full = 0 THEN <<>> ELSE <<[s[i] EXCEPT !.count = full]>>)
             \o (IF rest = 0 THEN <<>> ELSE <<[maxDegree |-> rest, count |-> 1]>>)
-----------------------------------------------------------------------------
(***************************************************************************)
(* dot pairs the degrees of s and t in order, largest with largest.  Two   *)
(* buckets meet as often as the ranges of positions they occupy overlap;   *)
(* the two-pointer loop of the code visits exactly the pairs that do.      *)
(***************************************************************************)
Overlap(s, i, t, j) ==
    Min({NDVUpTo(s, i), NDVUpTo(t, j)}) - Max({NDVUpTo(s, i - 1), NDVUpTo(t, j - 1)})

Dot(s, t) ==
    LET pairs == {p \in (DOMAIN s) \X (DOMAIN t) : Overlap(s, p[1], t, p[2]) > 0}
        add(p, acc) == AddDegree(acc, s[p[1]].maxDegree * t[p[2]].maxDegree,
                                 Overlap(s, p[1], t, p[2]))
    IN  FinishCollection(FoldSet(add, NoDegrees, pairs))
-----------------------------------------------------------------------------
(***************************************************************************)
(* The reference: what a finished sequence says of the n largest degrees.  *)
(***************************************************************************)
Top(s, n) ==
    MapThenSumSet(LAMBDA i : s[i].maxDegree *
                             Max({0, Min({s[i].count, n - NDVUpTo(s, i - 1)})}),
                  DOMAIN s)
=============================================================================

----------------------------- MODULE DSStatistic -----------------------------
(***************************************************************************)
(* The class DSStatistic (statistic.hpp): the summary of a join of tables, *)
(* with its cardinality, for each table the sequence of the degrees of its *)
(* rows in the join, and for a collected summary the sequence of the       *)
(* degrees of the key values (centralDs).                                  *)
(*                                                                         *)
(* A behaviour takes a database, collects the summaries of the stars in    *)
(* plan.pieces and merges them in plan.steps, as EstimateCardinality does  *)
(* (dsStats): with the one-table summary of a filter, with another star    *)
(* over a common table (Merge), or, for the pieces of one split star, over *)
(* its key (MergeByCenter, the pieces' loop of GetStatisticsFromEset).     *)
(* Merge is modelled loop by loop.  The true join of the database, reduced *)
(* to the rows that pass the filters, is the reference.                    *)
(*                                                                         *)
(* The steps are taken at AdjustRate and PredicateAdjustRate 1, where      *)
(* AdjustToAverage and NormalizeSubOneDegrees change nothing; what they do *)
(* at other rates (module Averaging) is asked of the collected summaries.  *)
(***************************************************************************)
EXTENDS Averaging

CONSTANTS
    Value,   \* the key values
    Plans    \* what may be collected and merged, see PlanAssumption

\* The table name "__star_center".
Center == 0

\* The second operand of a step that applies a filter.
Filter == 0

(***************************************************************************)
(* What the summaries of plan p stand for after n of its steps: the        *)
(* tables, and the filters that were applied.                              *)
(***************************************************************************)
AfterStep(m, st) ==
    [m EXCEPT ![st.to] =
        IF st.from = Filter
        THEN [tables |-> @.tables, filters |-> @.filters \cup {st.on}]
        ELSE [tables |-> @.tables \cup m[st.from].tables,
              filters |-> @.filters \cup m[st.from].filters]]

Meaning(p) ==
    LET after[n \in 0..Len(p.steps)] ==
            IF n = 0 THEN [i \in DOMAIN p.pieces |->
                              [tables |-> p.pieces[i].tables, filters |-> {}]]
            ELSE AfterStep(after[n - 1], p.steps[n])
    IN  after

(***************************************************************************)
(* Stars have the tables and steps the summaries they need.  Two summaries *)
(* that are merged have the table they are merged on in common and no      *)
(* other: the queries are Berge-acyclic.                                   *)
(***************************************************************************)
Schema(p) ==
    /\ DOMAIN p.cols \subseteq Nat \ {Center} /\ IsFiniteSet(DOMAIN p.cols)
    /\ \A t \in DOMAIN p.cols : IsFiniteSet(p.cols[t])
    /\ p.mult \subseteq Nat /\ IsFiniteSet(p.mult) /\ p.mult # {}
    /\ p.filters \subseteq DOMAIN p.cols

Star(p, piece) ==
    /\ piece.tables \subseteq DOMAIN p.cols /\ piece.tables # {}
    /\ \A t \in piece.tables : piece.attr \in p.cols[t]

Mergeable(p, m, st) ==
    /\ st.to \in DOMAIN p.pieces
    /\ \/ st.from = Filter /\ st.on \in p.filters \cap m[st.to].tables
       \/ /\ st.from \in DOMAIN p.pieces
          /\ st.on # Center => st.on \in DOMAIN p.cols
          /\ m[st.to].tables \cap m[st.from].tables = {st.on} \ {Center}

ASSUME ValueAssumption == IsFiniteSet(Value)

ASSUME PlanAssumption ==
    \A p \in Plans :
        /\ Schema(p)
        /\ p.pieces \in Seq(Range(p.pieces)) /\ p.steps \in Seq(Range(p.steps))
        /\ \A i \in DOMAIN p.pieces : Star(p, p.pieces[i])
        /\ \A n \in DOMAIN p.steps : Mergeable(p, Meaning(p)[n - 1], p.steps[n])

VARIABLES
    plan,      \* the schema, the stars and the order of merging
    db,        \* db[<<t, r>>]: how many rows of table t are r
    passing,   \* how many of them pass the filter of t
    next,      \* the step to be taken next
    pc,
    stats,     \* dsStats
    stat,      \* *this of Merge
    other,
    new,       \* newStat, and newCard as its card
    loop,      \* pointer, count and degree on either side
    edge,      \* per table: position, curDegree, remainRow, remainCount
    queue,     \* edge tables still to be visited in this iteration
    rownum     \* per table: tuples still to be distributed to its rows

input == <<plan, db, passing>>
vars == <<input, next, pc, stats, stat, other, new, loop, edge, queue, rownum>>
-----------------------------------------------------------------------------
(***************************************************************************)
(* The database.  A row of table t gives its columns values; plan.cols[t]  *)
(* are the join attributes t has a column for.                             *)
(***************************************************************************)
Rows(p, t) == [p.cols[t] -> Value]
Cells(p) == UNION {{t} \X Rows(p, t) : t \in DOMAIN p.cols}
FilteredCells(p) == {c \in Cells(p) : c[1] \in p.filters}

CountOf(t, attr, v) ==
    MapThenSumSet(LAMBDA r : db[<<t, r>>], {r \in Rows(plan, t) : r[attr] = v})

AttrsOf(T) == UNION {plan.cols[t] : t \in T}

\* Rows r of table t when the filters of F are applied.
RowCount(F, t, r) == IF t \in F THEN passing[<<t, r>>] ELSE db[<<t, r>>]

\* The join tuples of the tables T that agree with the assignment a.
Weight(T, F, a) ==
    MapThenFoldSet(LAMBDA x, y : x * y, 1,
                   LAMBDA t : RowCount(F, t, [c \in plan.cols[t] |-> a[c]]),
                   LAMBDA S : CHOOSE t \in S : TRUE, T)

RealCard(T, F) == MapThenSumSet(LAMBDA a : Weight(T, F, a), [AttrsOf(T) -> Value])

\* The join tuples of T that a row r of t is part of.
RealDegree(T, F, t, r) ==
    MapThenSumSet(LAMBDA a : Weight(T \ {t}, F, a),
                  {a \in [AttrsOf(T) -> Value] : \A c \in DOMAIN r : a[c] = r[c]})

\* GetNDV: the rows of a table.  GetTableCard: those that pass its filter.
TableRows(t) == MapThenSumSet(LAMBDA r : db[<<t, r>>], Rows(plan, t))
GetTableCard(t) == MapThenSumSet(LAMBDA r : passing[<<t, r>>], Rows(plan, t))
-----------------------------------------------------------------------------
(***************************************************************************)
(* Collection of one summary.                                              *)
(***************************************************************************)
Tables(st) == DOMAIN st.ds

NewStat(T) == [card |-> 0, centralDs |-> NoDegrees, ds |-> [t \in T |-> NoDegrees]]

Product(m) == MapThenFoldSet(LAMBDA x, y : x * y, 1, LAMBDA t : m[t],
                             LAMBDA S : CHOOSE t \in S : TRUE, DOMAIN m)

\* m gives for each table how many rows hold a key, n keys share it.
AddDegrees(st, m, n) ==
    IF Product(m) = 0 THEN st
    ELSE [card |-> st.card + Product(m) * n,
          centralDs |-> AddDegree(st.centralDs, Product(m), n),
          ds |-> [t \in Tables(st) |->
                     AddDegree(st.ds[t], Product(m) \div m[t], m[t] * n)]]

LimitAllDsToCard(st) ==
    [st EXCEPT !.ds = [t \in Tables(st) |-> LimitDsToCard(st.ds[t], st.card)]]

FinishStat(st) ==
    LET closed == [st EXCEPT !.ds = [t \in Tables(st) |-> FinishCollection(st.ds[t])],
                             !.centralDs = FinishCollection(st.centralDs)]
    IN  [LimitAllDsToCard(closed) EXCEPT !.centralDs = LimitDsToCard(@, st.card)]

CountVector(piece, v) == [t \in piece.tables |-> CountOf(t, piece.attr, v)]

CollectPiece(piece) ==
    LET vectors == {CountVector(piece, v) : v \in Value}
        add(m, st) == AddDegrees(st, m,
                          Cardinality({v \in Value : CountVector(piece, v) = m}))
    IN  FinishStat(FoldSet(add, NewStat(piece.tables), vectors))

(***************************************************************************)
(* singleDS and the bound that FinishCollection of StatisticManager forms  *)
(* from it for a star: the dot product over its tables in order.           *)
(***************************************************************************)
SingleDS(t, attr) ==
    LET add(v, s) == IF CountOf(t, attr, v) = 0 THEN s
                     ELSE AddDegree(s, CountOf(t, attr, v), 1)
    IN  FinishCollection(FoldSet(add, NoDegrees, Value))

Singles(piece) ==
    LET order == Ascending(piece.tables)
    IN  [i \in DOMAIN order |-> SingleDS(order[i], piece.attr)]

UppCard(piece) == GetCard(FoldLeft(Dot, Head(Singles(piece)), Tail(Singles(piece))))

(***************************************************************************)
(* avg_card, a fraction: the product of the cards, divided at each further *)
(* table by the larger NDV.  Two empty sequences make it 0 / 0.            *)
(***************************************************************************)
AvgCard(piece) ==
    LET add(acc, s) == [num |-> acc.num * GetCard(s),
                        den |-> acc.den * Max({GetNDV(acc.ds), GetNDV(s)}),
                        ds |-> Dot(acc.ds, s)]
        first == Head(Singles(piece))
    IN  FoldLeft(add, [num |-> GetCard(first), den |-> 1, ds |-> first],
                 Tail(Singles(piece)))

\* A mutant of AdjustK: upp_card < avg_card is tested.
AdjustKSkipsBelow(piece) ==
    LET avg == AvgCard(piece)
        range == UppCard(piece) * avg.den - avg.num
        over == CollectPiece(piece).card * avg.den - avg.num
    IN  IF avg.den = 0 THEN [counts |-> TRUE, num |-> 0, den |-> 1]
        ELSE [counts |-> range >= 0, num |-> Max({0, over}), den |-> range]

(***************************************************************************)
(* The k of a star, a fraction, and whether it counts: upp_card <= avg_card*)
(* skips a star, and is false of 0 / 0; std::max turns 0 / 0 into 0.       *)
(***************************************************************************)
AdjustK(piece) ==
    LET avg == AvgCard(piece)
        range == UppCard(piece) * avg.den - avg.num
        over == CollectPiece(piece).card * avg.den - avg.num
    IN  IF avg.den = 0 THEN [counts |-> TRUE, num |-> 0, den |-> 1]
        ELSE [counts |-> range > 0, num |-> Max({0, over}), den |-> range]
-----------------------------------------------------------------------------
NoLoop == [p1 |-> 0, c1 |-> 0, d1 |-> 0, p2 |-> 0, c2 |-> 0, d2 |-> 0]

NewEdge == [pos |-> 1, curDegree |-> 0, remainRow |-> 0, remainCount |-> 0]

Init ==
    /\ plan \in Plans
    /\ db \in [Cells(plan) -> plan.mult]
    /\ \E f \in [FilteredCells(plan) -> 0..Max(plan.mult)] :
           /\ \A c \in DOMAIN f : f[c] <= db[c]
           /\ passing = [c \in Cells(plan) |-> IF c \in DOMAIN f THEN f[c] ELSE db[c]]
    /\ stats = [i \in DOMAIN plan.pieces |-> NewStat(plan.pieces[i].tables)]
    /\ next = 1
    /\ pc = "collect"
    /\ stat = NewStat({})
    /\ other = NewStat({})
    /\ new = NewStat({})
    /\ loop = NoLoop
    /\ edge = <<>>
    /\ queue = <<>>
    /\ rownum = <<>>

CollectStatistics ==
    /\ pc = "collect"
    /\ stats' = [i \in DOMAIN plan.pieces |-> CollectPiece(plan.pieces[i])]
    /\ pc' = "ready"
    /\ UNCHANGED <<input, next, stat, other, new, loop, edge, queue, rownum>>

Step == plan.steps[next]
MergeTable == Step.on

\* The summary of a filtered table, as its constructor leaves it.
SingleStat(t) ==
    [card |-> GetTableCard(t), centralDs |-> NoDegrees,
     ds |-> [u \in {t} |-> SingleSequence(GetTableCard(u))]]

\* MergeByCenter: the key takes part in Merge as a table.
WithCenter(st) ==
    IF MergeTable = Center
    THEN [st EXCEPT !.ds = [t \in Tables(st) \cup {Center} |->
                               IF t = Center THEN st.centralDs ELSE @[t]]]
    ELSE st

WithoutCenter(st) == [st EXCEPT !.ds = [t \in Tables(st) \ {Center} |-> @[t]]]

EdgeTables(st) == Tables(st) \ {MergeTable}

BeginMerge ==
    /\ pc = "ready"
    /\ next <= Len(plan.steps)
    /\ stat' = WithCenter(stats[Step.to])
    /\ other' = IF Step.from = Filter THEN SingleStat(MergeTable)
                ELSE WithCenter(stats[Step.from])
    /\ new' = NewStat(Tables(stat') \cup Tables(other'))
    /\ loop' = NoLoop
    /\ edge' = [t \in DOMAIN new'.ds \ {MergeTable} |-> NewEdge]
    /\ pc' = "loop"
    /\ UNCHANGED <<input, stats, next, queue, rownum>>

\* One side of the loop head: a used up bucket is replaced by the next.
Loaded(count, pointer, s) == count > 0 \/ pointer < Len(s)

Remaining(count, pointer, s) == IF count > 0 THEN count ELSE s[pointer + 1].count
DegreeNow(count, degree, pointer, s) ==
    IF count > 0 THEN degree ELSE s[pointer + 1].maxDegree

\* A mutant of PointerNow: the pointer stays.
PointerStays(count, pointer) == pointer

PointerNow(count, pointer) == IF count > 0 THEN pointer ELSE pointer + 1

Exhausted ==
    \/ ~Loaded(loop.c1, loop.p1, stat.ds[MergeTable])
    \/ ~Loaded(loop.c2, loop.p2, other.ds[MergeTable])

\* The rows of t's side, and the degree they are multiplied by.
RowsFor(t, lp, n) == IF t \in Tables(stat) THEN lp.d1 * n ELSE lp.d2 * n

Iterate ==
    /\ pc = "loop"
    /\ ~Exhausted
    /\ LET s1 == stat.ds[MergeTable]
           s2 == other.ds[MergeTable]
           n1 == Remaining(loop.c1, loop.p1, s1)
           n2 == Remaining(loop.c2, loop.p2, s2)
           n == Min({n1, n2})
           lp == [p1 |-> PointerNow(loop.c1, loop.p1), c1 |-> n1 - n,
                  d1 |-> DegreeNow(loop.c1, loop.d1, loop.p1, s1),
                  p2 |-> PointerNow(loop.c2, loop.p2), c2 |-> n2 - n,
                  d2 |-> DegreeNow(loop.c2, loop.d2, loop.p2, s2)]
       IN  /\ loop' = lp
           /\ new' = [new EXCEPT !.card = @ + n * lp.d1 * lp.d2,
                                 !.ds[MergeTable] = AddDegree(@, lp.d1 * lp.d2, n)]
           /\ queue' = Ascending(EdgeTables(stat)) \o Ascending(EdgeTables(other))
           /\ rownum' = [t \in DOMAIN edge |-> RowsFor(t, lp, n)]
    /\ pc' = "edges"
    /\ UNCHANGED <<input, stats, next, stat, other, edge>>
-----------------------------------------------------------------------------
(***************************************************************************)
(* MergeEdgeDegreeSequences, one pass of its inner loop per step, for the  *)
(* first table in the queue.  e is where the previous iteration stopped: a *)
(* row of the bucket at pos that has remainRow more tuples to come (and    *)
(* curDegree so far), and remainCount rows of that bucket untouched.       *)
(***************************************************************************)
Current == Head(queue)
OldDs == IF Current \in Tables(stat) THEN stat.ds[Current] ELSE other.ds[Current]
Degree == IF Current \in Tables(stat) THEN loop.d2 ELSE loop.d1

Visiting == pc = "edges" /\ queue # <<>>
AtBucket == Visiting /\ edge[Current].pos <= Len(OldDs)

Emit(degree, count) ==
    new' = [new EXCEPT !.ds[Current] = AddDegree(@, degree, count)]

StayWith(e, rows) ==
    /\ edge' = [edge EXCEPT ![Current] = e]
    /\ rownum' = [rownum EXCEPT ![Current] = rows]
    /\ queue' = queue

LeaveWith(e) ==
    /\ edge' = [edge EXCEPT ![Current] = e]
    /\ rownum' = [rownum EXCEPT ![Current] = 0]
    /\ queue' = Tail(queue)

Frame == UNCHANGED <<input, stats, next, pc, stat, other, loop>>

\* rownum > remainRow > 0: the row begun earlier is complete.
CompleteRow ==
    /\ AtBucket
    /\ LET e == edge[Current] IN
        /\ e.remainRow > 0 /\ rownum[Current] > e.remainRow
        /\ Emit(e.curDegree + e.remainRow * Degree, 1)
        /\ StayWith([e EXCEPT !.remainRow = 0, !.curDegree = 0,
                              !.pos = IF e.remainCount = 0 THEN @ + 1 ELSE @],
                    rownum[Current] - e.remainRow)
    /\ Frame

\* rownum <= remainRow: all of rownum goes to the row begun earlier.
ExtendRow ==
    /\ AtBucket
    /\ LET e == edge[Current]
           row == e.remainRow - rownum[Current]
           degree == e.curDegree + rownum[Current] * Degree
       IN
        /\ e.remainRow > 0 /\ rownum[Current] <= e.remainRow
        /\ IF row = 0 THEN Emit(degree, 1) ELSE UNCHANGED new
        /\ LeaveWith([e EXCEPT !.remainRow = row,
                               !.curDegree = IF row = 0 THEN 0 ELSE degree,
                               !.pos = IF row = 0 /\ e.remainCount = 0
                                       THEN @ + 1 ELSE @])
    /\ Frame

\* Rows of the bucket nothing was taken from yet; all of them if the
\* bucket is new.
Untouched(e) == IF e.remainCount > 0 THEN e.remainCount ELSE OldDs[e.pos].count

TakesWholeBucket(e) ==
    LET tuples == Untouched(e) * OldDs[e.pos].maxDegree
    IN  IF e.remainCount > 0 THEN rownum[Current] > tuples
        ELSE rownum[Current] >= tuples

TakeBucket ==
    /\ AtBucket
    /\ LET e == edge[Current]
           b == OldDs[e.pos]
       IN
        /\ e.remainRow = 0 /\ TakesWholeBucket(e)
        /\ Emit(b.maxDegree * Degree, Untouched(e))
        /\ StayWith([e EXCEPT !.remainCount = 0, !.pos = @ + 1],
                    rownum[Current] - Untouched(e) * b.maxDegree)
    /\ Frame

\* A mutant of SplitBucket: the started row stays among the untouched.
SplitBucketKeepingRow(e, b, rows) ==
    LET usedRow == rows % b.maxDegree
    IN  [e EXCEPT !.remainCount = Untouched(e) - (rows \div b.maxDegree),
                  !.remainRow = IF usedRow = 0 THEN 0 ELSE b.maxDegree - usedRow,
                  !.curDegree = @ + usedRow * Degree]

\* A mutant of SplitBucket: a row is always begun.
SplitBucketAlwaysStarts(e, b, rows) ==
    LET usedRow == rows % b.maxDegree
    IN  [e EXCEPT !.remainCount = Untouched(e) - (rows \div b.maxDegree) - 1,
                  !.remainRow = b.maxDegree - usedRow,
                  !.curDegree = @ + usedRow * Degree]

\* Where a bucket is left of which rows tuples were used.
SplitBucket(e, b, rows) ==
    LET usedRow == rows % b.maxDegree
        started == IF usedRow > 0 THEN 1 ELSE 0
    IN  [e EXCEPT !.remainCount = Untouched(e) - (rows \div b.maxDegree) - started,
                  !.remainRow = started * (b.maxDegree - usedRow),
                  !.curDegree = @ + usedRow * Degree]

PartOfBucket ==
    /\ AtBucket
    /\ LET e == edge[Current]
           b == OldDs[e.pos]
           used == rownum[Current] \div b.maxDegree
           after == SplitBucket(e, b, rownum[Current])
           over == e.remainCount > 0 /\ after.remainCount = 0 /\ after.remainRow = 0
       IN
        /\ e.remainRow = 0 /\ ~TakesWholeBucket(e)
        /\ IF used > 0 THEN Emit(b.maxDegree * Degree, used) ELSE UNCHANGED new
        /\ LeaveWith([after EXCEPT !.pos = IF over THEN @ + 1 ELSE @])
    /\ Frame

\* No bucket is left for rownum.
BeyondBuckets ==
    /\ Visiting
    /\ edge[Current].pos > Len(OldDs)
    /\ queue' = Tail(queue)
    /\ UNCHANGED <<new, edge, rownum>> /\ Frame

EdgesDone ==
    /\ pc = "edges" /\ queue = <<>>
    /\ pc' = "loop"
    /\ UNCHANGED <<input, stats, next, stat, other, new, loop, edge, queue, rownum>>
-----------------------------------------------------------------------------
\* Rows begun and not completed; a degree of 0 is added, too.
AddCurDegree(st) ==
    [st EXCEPT !.ds = [t \in Tables(st) |->
        IF t = MergeTable THEN st.ds[t] ELSE AddDegree(st.ds[t], edge[t].curDegree, 1)]]

EndMerge ==
    /\ pc = "loop"
    /\ Exhausted
    /\ stats' = [stats EXCEPT ![Step.to] =
                   WithoutCenter(LimitAllDsToCard(FinishStat(AddCurDegree(new))))]
    /\ next' = next + 1
    /\ pc' = "ready"
    /\ UNCHANGED <<input, stat, other, new, loop, edge, queue, rownum>>

Done == pc = "ready" /\ next > Len(plan.steps)

Terminated == Done /\ UNCHANGED vars

Next == \/ CollectStatistics
        \/ BeginMerge \/ Iterate \/ EndMerge \/ EdgesDone \/ BeyondBuckets
        \/ CompleteRow \/ ExtendRow \/ TakeBucket \/ PartOfBucket \/ Terminated

Spec == Init /\ [][Next]_vars
-----------------------------------------------------------------------------
Edge == [pos : Nat \ {0}, curDegree : Nat, remainRow : Nat, remainCount : Nat]

Covered(i) == Meaning(plan)[next - 1][i].tables
Filtered(i) == Meaning(plan)[next - 1][i].filters

\* The summaries that have just been collected or merged.
Fresh == IF pc # "ready" THEN {}
         ELSE IF next = 1 THEN DOMAIN stats ELSE {plan.steps[next - 1].to}

(***************************************************************************)
(* Types: summaries outside Merge are finished, over the tables merged so  *)
(* far, and what MergeEdgeDegreeSequences keeps between two calls never    *)
(* becomes negative.                                                       *)
(***************************************************************************)
TypeOK ==
    /\ plan \in Plans
    /\ db \in [Cells(plan) -> plan.mult] /\ passing \in [Cells(plan) -> Nat]
    /\ next \in 1..(Len(plan.steps) + 1)
    /\ pc \in {"collect", "ready", "loop", "edges"}
    /\ \A i \in DOMAIN stats :
           /\ Tables(stats[i]) = Covered(i)
           /\ \A t \in Covered(i) : stats[i].ds[t] \in Seq(FinishedBucket)
    /\ \A t \in Tables(new) : new.ds[t] \in Seq(Bucket)
    /\ \A t \in DOMAIN edge : edge[t] \in Edge
    /\ \A t \in DOMAIN rownum : rownum[t] \in Nat

(***************************************************************************)
(* What Merge should give an edge table, row by row.  The rows of the      *)
(* merge table, and of the edge table, come in the order of their degrees; *)
(* the tuples of the old join are dealt out to both in that order, and a   *)
(* tuple in the m-th row of the merge table becomes as many tuples of the  *)
(* new join as that row has on the other side.                             *)
(***************************************************************************)
DegreeOf(s, r) == Top(s, r) - Top(s, r - 1)

NewTuples(mine, others, n) ==
    MapThenSumSet(LAMBDA m : DegreeOf(others, m) *
                      Max({0, Min({DegreeOf(mine, m), n - Top(mine, m - 1)})}),
                  1..Min({GetNDV(mine), GetNDV(others)}))

RowByRow(mine, others, s) ==
    LET degree(r) == NewTuples(mine, others, Top(s, r))
                     - NewTuples(mine, others, Top(s, r - 1))
    IN  FoldSet(LAMBDA r, acc : AddDegree(acc, degree(r), 1), NoDegrees,
                {r \in 1..GetNDV(s) : degree(r) > 0})

(***************************************************************************)
(* When the loop of Merge ends, the buckets built in one pass with the     *)
(* three values carried between calls of MergeEdgeDegreeSequences are      *)
(* those of the row by row reference: no row is lost, begun twice or       *)
(* given tuples of another.                                                *)
(***************************************************************************)
EdgesExact ==
    pc = "loop" /\ Exhausted =>
        \A t \in DOMAIN edge :
            LET built == IF edge[t].curDegree = 0 THEN new.ds[t]
                         ELSE AddDegree(new.ds[t], edge[t].curDegree, 1)
                s1 == stat.ds[MergeTable]
                s2 == other.ds[MergeTable]
            IN  built = IF t \in Tables(stat) THEN RowByRow(s1, s2, stat.ds[t])
                        ELSE RowByRow(s2, s1, other.ds[t])

(***************************************************************************)
(* The sequences of a summary all add up to its card, in spite of the      *)
(* rounding of FinishCollection and the cuts of LimitDsToCard.             *)
(***************************************************************************)
SumsToCard ==
    \A i \in Fresh : \A t \in Covered(i) : GetCard(stats[i].ds[t]) = stats[i].card

(***************************************************************************)
(* A summary never underestimates: card is at least the size of the join   *)
(* of the filtered tables, and any group of rows of a table is part of at  *)
(* most as many join tuples as the sequence of that table has for as many  *)
(* rows.  A filter that was applied in two stars before they were merged   *)
(* (starce.hpp, the loop over attrEsets) is no exception at rate 1.        *)
(***************************************************************************)
UpperBound ==
    \A i \in Fresh :
        LET T == Covered(i)
            F == Filtered(i)
        IN  /\ RealCard(T, F) <= stats[i].card
            /\ \A t \in T : \A G \in SUBSET Rows(plan, t) :
                   MapThenSumSet(LAMBDA r : RowCount(F, t, r) * RealDegree(T, F, t, r), G)
                   <= Top(stats[i].ds[t], MapThenSumSet(LAMBDA r : RowCount(F, t, r), G))

(***************************************************************************)
(* A star whose rate is counted has a k, between 0 and 1, so that          *)
(* AdjustRate, the mean of their roots, is a weight: FinishCollection of   *)
(* StatisticManager (starce.hpp: avg_card, upp_card, real_card).  Empty    *)
(* tables, for which avg_card is 0 / 0, are no exception.                  *)
(***************************************************************************)
RateAtMostOne ==
    pc = "ready" /\ next = 1 =>
        \A i \in DOMAIN plan.pieces :
            LET k == AdjustK(plan.pieces[i])
            IN  k.counts => k.den > 0 /\ k.num <= k.den

(***************************************************************************)
(* Before MergeByCenter, centralDs of the star merged so far is a degree   *)
(* sequence of its keys (statistic.hpp: "using centralDs as its degree     *)
(* sequence").                                                             *)
(***************************************************************************)
CenterKnown ==
    pc = "ready" /\ next <= Len(plan.steps) /\ MergeTable = Center =>
        GetCard(stats[Step.to].centralDs) = stats[Step.to].card
-----------------------------------------------------------------------------
(***************************************************************************)
(* Averages, filters and their merges at every rate, for collected         *)
(* summaries.  A database is taken once, whatever passes its filters.      *)
(***************************************************************************)
Collected == IF pc = "ready" /\ next = 1 /\ passing = db THEN DOMAIN stats ELSE {}

Average(i, t, k) == AdjustToAverage(stats[i].ds[t], stats[i].card, TableRows(t), k)

\* Two stars and a table with rows they have in common.
Meetings == {m \in Collected \X Collected \X DOMAIN plan.cols :
                /\ m[1] < m[2]
                /\ m[3] \in Covered(m[1]) \cap Covered(m[2])
                /\ TableRows(m[3]) > 0}

(***************************************************************************)
(* AdjustToAverage neither adds nor loses tuples, at any rate: the new     *)
(* sequence adds up to card, even when relNDV is not the number of rows    *)
(* (GetNDV takes it from the equal set that was collected first, without   *)
(* the rows that are NULL there) and the sequence has more rows than it.   *)
(***************************************************************************)
AverageKeepsCard ==
    \A i \in Collected : \A t \in Covered(i), k \in Rates :
        \A ndv \in 1..(TableRows(t) + 1) :
            GetCard(AdjustToAverage(stats[i].ds[t], stats[i].card, ndv, k))
                = stats[i].card * Unit(ndv)

(***************************************************************************)
(* What EstimateCardinality merges for star i on table t, and the rates at *)
(* which NormalizeSubOneDegrees has nothing to round.                      *)
(***************************************************************************)
Adjusted(i, t, k) == NormalizeSubOneDegrees(Average(i, t, k), Unit(TableRows(t)))

Unrounded(i, t) == {k \in Rates : Adjusted(i, t, k) = Average(i, t, k)}

(***************************************************************************)
(* AdjustRate leads from independence to the upper bound: where no degree  *)
(* falls below 1, two adjusted stars merge to card * card / rows at rate 0 *)
(* and to more at a higher rate; at rate 1 nothing is ever rounded, and    *)
(* they merge to what the unchanged ones do.  Where degrees are rounded    *)
(* the estimate may exceed that of rate 1: when a table has two rows, and  *)
(* one tuple in each star, rate 1/2 makes 3/4 and 1/4 of 1 and 0, rounding *)
(* 1 and 1, and the estimate is 2 instead of 1.  A filter's                *)
(* PredicateAdjustRate, after which nothing is rounded, leads from         *)
(* card * rows that pass / rows to the tuples of the largest degrees.      *)
(***************************************************************************)
Interpolates(estimate, rates, low, high) ==
    /\ 0 \in rates => estimate[0] = low
    /\ RateDen \in rates /\ estimate[RateDen] = high
    /\ \A k, l \in rates : k <= l => estimate[k] <= estimate[l]

RateInterpolates ==
    /\ \A m \in Meetings :
           LET i == m[1]  j == m[2]  t == m[3]
               unit == Unit(TableRows(t))
           IN  Interpolates([k \in Rates |-> MergedCard(Adjusted(i, t, k), Adjusted(j, t, k))],
                            Unrounded(i, t) \cap Unrounded(j, t),
                            stats[i].card * stats[j].card * RateDen * unit,
                            MergedCard(stats[i].ds[t], stats[j].ds[t]) * unit * unit)
    /\ \A i \in Collected : \A t \in Covered(i) : \A rows \in 1..TableRows(t) :
           LET filter(k) == AdjustToAverage(SingleSequence(rows), rows, TableRows(t), k)
           IN  Interpolates([k \in Rates |-> MergedCard(stats[i].ds[t], filter(k))],
                            Rates,
                            stats[i].card * rows * RateDen,
                            Top(stats[i].ds[t], rows) * Unit(TableRows(t)))

(***************************************************************************)
(* Rounding never takes an estimate below independence: what               *)
(* EstimateCardinality merges, the averaged stars with their degrees below *)
(* 1 rounded, gives at least card * card / rows at every rate.             *)
(***************************************************************************)
NeverBelowIndependence ==
    \A m \in Meetings, k \in Rates :
        LET i == m[1]  j == m[2]  t == m[3]
        IN  MergedCard(Adjusted(i, t, k), Adjusted(j, t, k))
                >= stats[i].card * stats[j].card * RateDen * Unit(TableRows(t))

(***************************************************************************)
(* The filter of PredMethod 2 is meant as the weighted mean of scaling     *)
(* everything by the selectivity and of keeping the largest degrees        *)
(* (starce.hpp: "weighted average").  Both factors fall into one bucket,   *)
(* and its last rows are dropped: at rates between 0 and 1 the tail is not *)
(* preserved, as the code's comment says it is.  The estimate is still at  *)
(* least that mean.                                                        *)
(***************************************************************************)
WeightedFilterCovers ==
    \A i \in Collected : \A t \in Covered(i), k \in Rates :
        \A rows \in 1..TableRows(t) :
            LET s == stats[i].ds[t]
                ndv == TableRows(t)
            IN  MergedCard(s, WeightedFilter(GetNDV(s), rows, ndv, k))
                >= k * ndv * Top(s, rows) + (RateDen - k) * rows * stats[i].card
-----------------------------------------------------------------------------
(***************************************************************************)
(* The loops of Merge end (statistic.hpp, the while (true) of Merge and    *)
(* the for of MergeEdgeDegreeSequences, whose index does not move in every *)
(* pass): every step brings the work left, read lexicographically, down.   *)
(* What goes down stays a natural, and a state without a step is Done.     *)
(***************************************************************************)
\* Rows and buckets, as a bucket may be without rows.
RowsLeft(count, pointer, s) ==
    count + GetNDV(s) - NDVUpTo(s, pointer) + Len(s) - pointer

If(b) == IF b THEN 1 ELSE 0

WorkLeft ==
    <<If(pc = "collect"),
      2 * (Len(plan.steps) + 1 - next) + If(pc = "ready"),
      IF pc \in {"collect", "ready"} THEN 0
      ELSE RowsLeft(loop.c1, loop.p1, stat.ds[MergeTable])
           + RowsLeft(loop.c2, loop.p2, other.ds[MergeTable]),
      Len(queue),
      IF queue = <<>> THEN 0
      ELSE 2 * (Len(OldDs) + 1 - edge[Current].pos) + If(edge[Current].remainRow > 0),
      If(pc = "edges")>>

Below(w, u) ==
    \E i \in DOMAIN u : /\ 0 <= w[i] /\ w[i] < u[i]
                       /\ \A j \in 1..(i - 1) : w[j] = u[j]

WorkShrinks == [][Below(WorkLeft', WorkLeft)]_vars
-----------------------------------------------------------------------------
(***************************************************************************)
(* The inductive invariant.  A sequence that is being collected adds up to *)
(* AddedUp; no bucket's sum exceeds what FinishCollection makes of it, and *)
(* none is lost by it.                                                     *)
(***************************************************************************)
AddedUp(s) == MapThenSumSet(LAMBDA i : s[i].sum, DOMAIN s)

Collecting(s) ==
    /\ s \in Seq(Bucket)
    /\ \A i \in DOMAIN s : s[i].sum <= s[i].count * s[i].maxDegree

\* Only degrees, or only counts, above 0 have been added.
PositiveDegrees(s) == \A i \in DOMAIN s : s[i].count > 0 => s[i].sum > 0
PositiveCounts(s) == \A i \in DOMAIN s : s[i].maxDegree > 0 => s[i].sum > 0

Finished(s, card) == s \in Seq(FinishedBucket) /\ GetCard(s) = card

IsStat(st) == st = [card |-> st.card, centralDs |-> st.centralDs, ds |-> st.ds]

\* What is kept between two merges.
StatOK(st) ==
    /\ IsStat(st) /\ st.card \in Nat
    /\ \A t \in Tables(st) : Finished(st.ds[t], st.card)
    /\ st.centralDs \in Seq(FinishedBucket) /\ GetCard(st.centralDs) <= st.card

StatsInv ==
    /\ stats = [i \in DOMAIN plan.pieces |-> stats[i]]
    /\ pc # "collect" => \A i \in DOMAIN stats : StatOK(stats[i])
    /\ pc \in {"collect", "ready"} => queue = <<>>
    /\ pc = "collect" => next = 1

(***************************************************************************)
(* An operand of Merge.  The sequence of the merge table may be a filter's *)
(* that nothing passes, or the empty one of a key that was merged before.  *)
(***************************************************************************)
RowBucket == [maxDegree : Nat \ {0}, count : Nat]

OperandOK(st) ==
    /\ st.card \in Nat
    /\ Tables(st) \subseteq Nat /\ IsFiniteSet(Tables(st))
    /\ \A t \in EdgeTables(st) : Finished(st.ds[t], st.card)
    /\ MergeTable \in Tables(st)
    /\ st.ds[MergeTable] \in Seq(RowBucket)
    /\ GetCard(st.ds[MergeTable]) <= st.card

\* Where the loop of Merge is in the sequence s of one side.
LoopOK(count, pointer, degree, s) ==
    /\ pointer \in 0..Len(s) /\ count \in Nat /\ degree \in Nat
    /\ pointer = 0 => count = 0
    /\ pointer > 0 => degree = s[pointer].maxDegree /\ count <= s[pointer].count

\* The tuples the loop has dealt with on one side.
Used(count, pointer, degree, s) == CardUpTo(s, pointer) - count * degree

(***************************************************************************)
(* Where MergeEdgeDegreeSequences is in the sequence s of a table, and the *)
(* tuples of s that are still to come.                                     *)
(***************************************************************************)
EdgeOK(e, s) ==
    /\ e \in Edge /\ e.pos <= Len(s) + 1
    /\ e.pos > Len(s) => e.remainRow = 0 /\ e.remainCount = 0
    /\ e.pos <= Len(s) => /\ e.remainRow < s[e.pos].maxDegree
                          /\ e.remainCount + If(e.remainRow > 0) <= s[e.pos].count

InBucket(e, b) ==
    IF e.remainRow = 0 /\ e.remainCount = 0 THEN b.count * b.maxDegree
    ELSE e.remainCount * b.maxDegree + e.remainRow

ToCome(e, s) ==
    IF e.pos > Len(s) THEN 0
    ELSE GetCard(s) - CardUpTo(s, e.pos) + InBucket(e, s[e.pos])

OldOf(t) == IF t \in Tables(stat) THEN stat.ds[t] ELSE other.ds[t]
DegreeFor(t) == IF t \in Tables(stat) THEN loop.d2 ELSE loop.d1
UsedFor(t) == IF t \in Tables(stat)
              THEN Used(loop.c1, loop.p1, loop.d1, stat.ds[MergeTable])
              ELSE Used(loop.c2, loop.p2, loop.d2, other.ds[MergeTable])

\* Tuples the loop has counted and table t has not been given yet.
Pending(t) == IF pc = "edges" /\ t \in Range(queue) THEN rownum[t] ELSE 0

(***************************************************************************)
(* Every table has been given the tuples the merge table has, and what its *)
(* rows have been given adds up to newCard.                                *)
(***************************************************************************)
EdgeInv(t) ==
    LET s == OldOf(t)
    IN  /\ EdgeOK(edge[t], s)
        /\ ToCome(edge[t], s) = GetCard(s) - UsedFor(t) + Pending(t)
        /\ Collecting(new.ds[t]) /\ PositiveCounts(new.ds[t])
        /\ AddedUp(new.ds[t]) + edge[t].curDegree + Pending(t) * DegreeFor(t) = new.card

InMerge == pc \in {"loop", "edges"}

MergeInv ==
    InMerge =>
        /\ next \in DOMAIN plan.steps
        /\ OperandOK(stat) /\ OperandOK(other)
        /\ Tables(stat) \cap Tables(other) = {MergeTable}
        /\ Covered(Step.to) \cup (IF Step.from = Filter THEN {} ELSE Covered(Step.from))
              = (Tables(stat) \cup Tables(other)) \ {Center}
        /\ LoopOK(loop.c1, loop.p1, loop.d1, stat.ds[MergeTable])
        /\ LoopOK(loop.c2, loop.p2, loop.d2, other.ds[MergeTable])
        /\ IsStat(new) /\ new.card \in Nat /\ Tables(new) = Tables(stat) \cup Tables(other)
        /\ new.centralDs = NoDegrees
        /\ Collecting(new.ds[MergeTable]) /\ PositiveDegrees(new.ds[MergeTable])
        /\ AddedUp(new.ds[MergeTable]) = new.card
        /\ DOMAIN edge = Tables(new) \ {MergeTable}
        /\ \A t \in DOMAIN edge : EdgeInv(t)
        /\ pc = "edges" => /\ loop.p1 > 0 /\ loop.p2 > 0
                           /\ queue \in Seq(DOMAIN edge) /\ IsInjective(queue)
                           /\ rownum \in [DOMAIN edge -> Nat]
        /\ pc = "loop" => queue = <<>>

DSInv == TypeOK /\ StatsInv /\ MergeInv
=============================================================================

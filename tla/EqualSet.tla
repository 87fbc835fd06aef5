------------------------------ MODULE EqualSet ------------------------------
(***************************************************************************)
(* Equal sets (equalset.hpp): a set of join columns that the schema says   *)
(* hold the same key.  An entry is a pair <<table, column>> of naturals    *)
(* ordered as TableColumn::operator< orders the names: by table, then by   *)
(* column.  Column 0 stands for the empty name "" that marks an entry as   *)
(* "the whole table", columns of the schema are 1, 2, ...                  *)
(***************************************************************************)
EXTENDS Ordering, FiniteSetsExt

NoColumn == 0

EntryTable(e) == e[1]

Before(e, f) == \/ e[1] < f[1]
                \/ e[1] = f[1] /\ e[2] < f[2]

\* Position of e in the iteration over the std::set E, from 0.
Rank(E, e) == Cardinality({f \in E : Before(f, e)})

TablesOf(E) == {EntryTable(e) : e \in E}

(***************************************************************************)
(* A one-entry subset loses its column: the summaries of a single table    *)
(* are kept under {<<table, "">>}.                                         *)
(***************************************************************************)
Collapse(E) ==
    IF Cardinality(E) = 1 THEN {<<t, NoColumn>> : t \in TablesOf(E)} ELSE E

\* The entries whose bit is set in the mask s.
Masked(E, s) == {e \in E : (s \div 2^Rank(E, e)) % 2 = 1}

\* 1 << Entries.size()
NumMasks(E) == Cardinality(SUBSET E)

\* One subset per mask, in the order of the masks, the empty one first.
GetAllSubset(E) ==
    [i \in 1..NumMasks(E) |-> Collapse(Masked(E, i - 1))]

\* The masks that are kept, in increasing order, collapsed.
KeptSubsets(E, kept) ==
    LET masks == Ascending(kept)
    IN  [i \in DOMAIN masks |-> Collapse(Masked(E, masks[i]))]

\* A mutant of GetAllSubsetLimitSize: the limit itself is excluded.
GetAllSubsetBelowSize(E, sizeLimit) ==
    KeptSubsets(E, {s \in 0..(NumMasks(E) - 1) :
                       Cardinality(Masked(E, s)) < sizeLimit})

\* The subsets of at most sizeLimit entries.
GetAllSubsetLimitSize(E, sizeLimit) ==
    KeptSubsets(E, {s \in 0..(NumMasks(E) - 1) :
                       Cardinality(Masked(E, s)) <= sizeLimit})

\* A mutant of Split: the single entry left over is taken into the last piece.
SplitWithLeftover(E, maxSize) ==
    LET n == Cardinality(E)
        take(i) == IF (n - i) - maxSize = 1 THEN maxSize + 1 ELSE maxSize
        starts[i \in 0..n] ==
            IF i = n THEN {} ELSE {i} \cup starts[Min({n, i + take(i)})]
        piece(i) == {e \in E : Rank(E, e) \in i..(i + take(i) - 1)}
    IN  {Collapse(piece(i)) : i \in starts[0]}

(***************************************************************************)
(* Split cuts the entries, in order, into pieces of maxSize; when exactly  *)
(* one entry would be left over after the next piece, that piece takes one *)
(* entry less.  starts holds the ranks at which the pieces begin.          *)
(***************************************************************************)
Split(E, maxSize) ==
    LET n == Cardinality(E)
        take(i) == IF (n - i) - maxSize = 1 THEN maxSize - 1 ELSE maxSize
        starts[i \in 0..n] ==
            IF i = n THEN {} ELSE {i} \cup starts[Min({n, i + take(i)})]
        piece(i) == {e \in E : Rank(E, e) \in i..(i + take(i) - 1)}
    IN  {Collapse(piece(i)) : i \in starts[0]}
=============================================================================

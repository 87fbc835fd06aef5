-------------------------------- MODULE Stars --------------------------------
(***************************************************************************)
(* The join graph of a query as StatisticManager sees it (starce.hpp).  An *)
(* attribute is a pair <<relation, column>>; an AttrEset, or star, is a    *)
(* set of attributes that the query's equality predicates make equal;      *)
(* attrEsets is the vector of the stars found so far.                      *)
(***************************************************************************)
EXTENDS EqualSet, SequencesExt

Attr == (Nat \ {0}) \X (Nat \ {0})

NoFilter == "none"

RelsOf(star) == {a[1] : a \in star}

\* The last index in a scan over attrEsets, 0 for the code's -1.
LastIndex(I) == IF I = {} THEN 0 ELSE CHOOSE i \in I : \A j \in I : j <= i

\* A mutant of AddToStars: two stars that the predicate connects stay apart.
AddToStarsWithoutMerge(attrEsets, a, b) ==
    LET idx1 == LastIndex({i \in DOMAIN attrEsets : a \in attrEsets[i]})
    IN  IF idx1 = 0 THEN Append(attrEsets, {a, b})
        ELSE [attrEsets EXCEPT ![idx1] = @ \cup {b}]

(***************************************************************************)
(* AddPredicate: a = b.  The scan looks for b only in stars without a.     *)
(***************************************************************************)
AddToStars(attrEsets, a, b) ==
    LET idx1 == LastIndex({i \in DOMAIN attrEsets : a \in attrEsets[i]})
        idx2 == LastIndex({i \in DOMAIN attrEsets :
                              a \notin attrEsets[i] /\ b \in attrEsets[i]})
    IN  IF idx1 = 0 /\ idx2 = 0 THEN Append(attrEsets, {a, b})
        ELSE IF idx1 = 0 THEN [attrEsets EXCEPT ![idx2] = @ \cup {a}]
        ELSE IF idx2 = 0 THEN [attrEsets EXCEPT ![idx1] = @ \cup {b}]
        ELSE RemoveAt([attrEsets EXCEPT ![idx1] = @ \cup attrEsets[idx2]], idx2)

(***************************************************************************)
(* The stars of a set of relations: what the query's stars leave of two or *)
(* more attributes, then a star of its own for each relation in none.      *)
(***************************************************************************)
GetAttrEsetFromRels(attrEsets, rels) ==
    LET part == [i \in DOMAIN attrEsets |->
                    {a \in attrEsets[i] : a[1] \in rels}]
        kept == Ascending({i \in DOMAIN part : Cardinality(part[i]) > 1})
        shared == [i \in DOMAIN kept |-> part[kept[i]]]
        vis == UNION {RelsOf(shared[i]) : i \in DOMAIN shared}
        alone == Ascending(rels \ vis)
    IN  shared \o [i \in DOMAIN alone |-> {<<alone[i], NoColumn>>}]

\* The key under which the summary of a star is looked up.
GetEqualSetFromAttrEset(tableName, star) ==
    IF Cardinality(star) = 1 THEN {<<tableName[r], NoColumn>> : r \in RelsOf(star)}
    ELSE {<<tableName[a[1]], a[2]>> : a \in star}

(***************************************************************************)
(* tableIdx: the relation that stands for a table of the star; of several  *)
(* relations over one table the last one is kept.                          *)
(***************************************************************************)
TableIdx(tableName, star) ==
    [t \in {tableName[r] : r \in RelsOf(star)} |->
        Max({r \in RelsOf(star) : tableName[r] = t})]

CanMerge(star1, star2) == RelsOf(star1) \cap RelsOf(star2) # {}

\* A mutant of GetCommonRelation: star2 is not looked at.
FirstRelation(star1, star2) == Min(RelsOf(star1))

\* The first attribute of star1, in std::set order, whose relation is in star2.
GetCommonRelation(star1, star2) == Min(RelsOf(star1) \cap RelsOf(star2))
-----------------------------------------------------------------------------
(***************************************************************************)
(* Reference: the stars are the classes of the equality that the           *)
(* predicates generate.  A set is closed when no predicate leaves it; the  *)
(* classes are the smallest nonempty closed sets, so no closed set cuts a  *)
(* star in two.                                                            *)
(***************************************************************************)
Attrs(P) == UNION {{p[1], p[2]} : p \in P}

Closed(S, P) == \A p \in P : p[1] \in S <=> p[2] \in S

IsPartition(attrEsets, P) ==
    /\ \A i, j \in DOMAIN attrEsets : i # j => attrEsets[i] \cap attrEsets[j] = {}
    /\ \A i \in DOMAIN attrEsets : attrEsets[i] # {} /\ attrEsets[i] \subseteq Attrs(P)
    /\ \A p \in P : \E i \in DOMAIN attrEsets :
          p[1] \in attrEsets[i] /\ p[2] \in attrEsets[i]
    /\ \A S \in SUBSET Attrs(P) : Closed(S, P) =>
          \A i \in DOMAIN attrEsets :
              attrEsets[i] \subseteq S \/ attrEsets[i] \cap S = {}
=============================================================================

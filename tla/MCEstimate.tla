---------------------------- MODULE MCEstimate ----------------------------
(***************************************************************************)
(* Join graphs for Estimate: up to three stars over four relations, or     *)
(* four stars of two relations each.  Star k uses column k of its          *)
(* relations; a relation in none of them is a star of its own.             *)
(***************************************************************************)
EXTENDS Estimate

MCRels == 1..4

WithLoners(shapes, rels) ==
    LET shared == [k \in DOMAIN shapes |-> {<<r, k>> : r \in shapes[k]}]
    IN  GetAttrEsetFromRels(shared, rels)

Several == {R \in SUBSET MCRels : Cardinality(R) > 1}
Pairs == {R \in Several : Cardinality(R) = 2}

JoinGraphs ==
    {WithLoners(s, MCRels) :
        s \in UNION {[1..n -> Several] : n \in 1..3} \cup [1..4 -> Pairs]}

\* The graphs with at most two shared stars.
SmallGraphs ==
    {WithLoners(s, MCRels) : s \in UNION {[1..n -> Several] : n \in 0..2}}

Call(stars, names, filters) ==
    [stars |-> stars, tableName |-> names, filters |-> filters]

Plain == <<NoFilter, NoFilter, NoFilter, NoFilter>>
SomeFilters == <<"f", NoFilter, "f", NoFilter>>

MCInputs == {Call(g, <<1, 2, 3, 4>>, SomeFilters) : g \in JoinGraphs}

\* Lines without WHERE, filters of unknown cardinality, the relations 1 and 3
\* over one table, and a table some of whose stars were not collected.
OddInputs ==
    {Call(g, names, filters) :
        g \in SmallGraphs,
        names \in {<<1, 2, 3, 5>>, <<1, 2, 1, 4>>},
        filters \in {<<>>, Plain, SomeFilters, <<NoFilter, "g", NoFilter, "f">>}}

AllInputs == MCInputs \cup OddInputs

SelfJoinInputs == {Call(g, <<1, 2, 1, 4>>, Plain) : g \in SmallGraphs}

\* Statistics for every star of the tables 1 to 4; of table 5 nothing was
\* collected for the columns 2 of three tables together.
AllKeys ==
    {{<<t, NoColumn>>} : t \in 1..5}
        \cup {{<<t, c>> : t \in T} : T \in Several, c \in 1..4}
        \cup {{<<IF t = 4 THEN 5 ELSE t, c>> : t \in T} :
                T \in {S \in Several : Cardinality(S) < 3}, c \in 1..4}
        \cup {{<<IF t = 4 THEN 5 ELSE t, 1>> : t \in T} : T \in Several}

MCSingleCards == (1..5) \X {"f"}
=============================================================================

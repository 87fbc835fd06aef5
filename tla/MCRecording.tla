---------------------------- MODULE MCRecording ----------------------------
(***************************************************************************)
(* An instance of Recording.                                               *)
(***************************************************************************)
EXTENDS Recording

Line(tables, stars, filters, asks) ==
    [tables |-> tables, stars |-> stars, filters |-> filters, asks |-> asks]

\* Table 1 twice, joined to table 2 on one column and on another; the filter
\* is on either of the two.
SelfJoin(filters) ==
    Line(<<1, 1, 2>>, << {<<1, 1>>, <<3, 1>>}, {<<2, 2>>, <<3, 2>>} >>, filters,
         <<{1, 3}, {2, 3}, {1, 2, 3}>>)

\* Part of the above as a query of its own.
Pair == Line(<<1, 2>>, << {<<1, 2>>, <<2, 2>>} >>, <<NoFilter, NoFilter>>, <<{1, 2}>>)

\* A star without statistics, and a line without WHERE.
Uncollected == Line(<<2, 1>>, << {<<1, 3>>, <<2, 3>>} >>, <<NoFilter, "f">>, <<{1, 2}>>)
Unfiltered == Line(<<1, 2>>, << {<<1, 1>>, <<2, 1>>} >>, <<>>, <<{1, 2}>>)

MCWorkloads ==
    << <<SelfJoin(<<"f", NoFilter, NoFilter>>), SelfJoin(<<NoFilter, "f", NoFilter>>)>>,
       <<SelfJoin(<<"f", NoFilter, NoFilter>>), Pair, Uncollected, Pair>>,
       <<Unfiltered, Pair>> >>

MCKnown ==
    {{<<t, NoColumn>>} : t \in 1..2} \cup {{<<1, c>>, <<2, c>>} : c \in 1..2}

\* Different for all subqueries of a line and for all lines, with and without
\* a fraction; for the largest one of the first line there are two.
MCEstimates(w, l, rels) ==
    LET card == 10 * l + 4 * Cardinality(rels) + 2 * Min(rels)
    IN  IF l = 1 /\ Cardinality(rels) = 3 THEN {card, card + 5} ELSE {card + 1}

MCTextOrder ==
    LET texts == {GetSubquery(MCWorkloads[p[1]][p[2]], MCWorkloads[p[1]][p[2]].asks[p[3]]) :
                    p \in {x \in (1..3) \X (1..4) \X (1..3) :
                             /\ x[2] \in DOMAIN MCWorkloads[x[1]]
                             /\ x[3] \in DOMAIN MCWorkloads[x[1]][x[2]].asks
                             /\ MCWorkloads[x[1]][x[2]].filters # <<>>}}
    IN  FoldSet(LAMBDA t, s : Append(s, t), <<>>, texts)

Setting(record, group, time, use, w) ==
    [RecordingSubquery |-> record, SubqueryOutputGroupByMain |-> group,
     RecordEstimateTime |-> time, UseSubqueryCard |-> use, work |-> w]

\* Recording, plain and grouped; replaying; both at once; timing alone.
MCSettings ==
    UNION {{Setting(TRUE, FALSE, TRUE, FALSE, w), Setting(TRUE, TRUE, FALSE, FALSE, w),
            Setting(FALSE, FALSE, FALSE, TRUE, w), Setting(TRUE, TRUE, FALSE, TRUE, w)} :
              w \in 1..3}
        \cup {Setting(FALSE, FALSE, TRUE, FALSE, 2)}
=============================================================================

----------------------------- MODULE MCSession -----------------------------
(***************************************************************************)
(* Workloads for Session.  Tables 1, 2 and 3 have statistics, table 9 does *)
(* not; "f" and "g" are filters, only "f" has recorded cardinalities.      *)
(***************************************************************************)
EXTENDS Session

\* Two stars that a later predicate joins into one, and a second star.
Snowflake ==
    [tables |-> <<1, 2, 3, 4>>,
     preds |-> << <<<<1, 1>>, <<2, 1>>>>, <<<<3, 1>>, <<4, 1>>>>,
                  <<<<2, 1>>, <<3, 1>>>>, <<<<4, 2>>, <<1, 2>>>> >>,
     children |-> <<>>]

Pair(t, u, children) ==
    [tables |-> <<t, u>>, preds |-> << <<<<1, 1>>, <<2, 1>>>> >>,
     children |-> children]

\* A join on columns nothing was collected for.
Uncollected ==
    [tables |-> <<2, 4>>, preds |-> << <<<<1, 3>>, <<2, 3>>>> >>, children |-> <<>>]

Single(t) == [tables |-> <<t>>, preds |-> <<>>, children |-> <<>>]

Line(where, parses, filters, blocks) ==
    [where |-> where, parses |-> parses, filters |-> filters, blocks |-> blocks]

Nested == <<Pair(2, 1, <<2, 3>>), Single(3), Pair(1, 2, <<>>)>>

MixedQueries ==
    { Line(TRUE, TRUE, <<"f", NoFilter, NoFilter, "f">>, <<Snowflake>>),
      Line(TRUE, TRUE, <<"f", NoFilter>>, Nested),
      Line(TRUE, TRUE, <<NoFilter, "g">>, <<Pair(1, 3, <<>>)>>),
      Line(FALSE, TRUE, <<>>, <<Pair(3, 1, <<>>)>>),
      Line(TRUE, TRUE, <<NoFilter, NoFilter>>, <<Pair(1, 9, <<>>)>>),
      Line(TRUE, TRUE, <<"f", NoFilter>>, <<Uncollected>>),
      Line(TRUE, FALSE, <<"f">>, <<Single(1)>>) }

\* Lines that fail inside a session: a star without statistics, no WHERE.
FailingQueries ==
    { Line(TRUE, TRUE, <<NoFilter, NoFilter, "g", NoFilter>>, <<Snowflake>>),
      Line(TRUE, TRUE, <<"g", NoFilter>>, Nested),
      Line(FALSE, TRUE, <<>>, <<Pair(3, 1, <<>>)>>) }

UnfilteredQueries ==
    { Line(FALSE, TRUE, <<>>, <<Pair(t, u, <<>>)>>) :
        t \in {1, 2}, u \in {3, 4} }

\* Statistics for every set of columns over the tables 1 to 4.
MCKnown == {{<<t, NoColumn>>} : t \in 1..4} \cup SUBSET ((1..4) \X (1..2))

\* Stars of at most three columns, and none over the columns numbered 2.
SparseKnown ==
    {{<<t, NoColumn>>} : t \in 1..4}
        \cup {E \in SUBSET ((1..4) \X {1}) : Cardinality(E) <= 3}

MCSingleCards == (1..4) \X {"f"}
=============================================================================

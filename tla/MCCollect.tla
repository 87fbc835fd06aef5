----------------------------- MODULE MCCollect -----------------------------
(***************************************************************************)
(* Instances of Collect.  The equal sets have the shapes of the schema     *)
(* files of the benchmarks.                                                *)
(***************************************************************************)
EXTENDS Collect

MCValue == 1..4

\* Rows per value; values 2 and 3 have the same counts and are missing from
\* table 4, value 4 is missing from all tables.
MCFreq == [e \in (1..4) \X (1..2) |->
             [v \in MCValue |-> IF v = 4 THEN 0
                               ELSE IF v = 1 THEN e[1]
                               ELSE IF e[1] = 4 THEN 0 ELSE e[2]]]

\* As complete_cast in schema_imdb.json: two columns of one table in a star;
\* and a second star that shares columns with the first, larger than
\* MaxStarSize.
OverlappingEsets == << {<<1, 1>>, <<2, 1>>, <<2, 2>>},
                       {<<1, 1>>, <<2, 1>>, <<3, 1>>, <<4, 1>>} >>

\* The first of these stars alone.
TwoColumnEsets == << {<<1, 1>>, <<2, 1>>, <<2, 2>>} >>
=============================================================================

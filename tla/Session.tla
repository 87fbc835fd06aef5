------------------------------- MODULE Session -------------------------------
(***************************************************************************)
(* The estimation half of StatisticManager as a workload drives it:        *)
(* ExecuteSql (main.cpp) parses the filters of each line and hands it to   *)
(* the database, whose join order optimizer calls back into the one        *)
(* StatisticManager of the process:                                        *)
(*                                                                         *)
(*   Optimize = Build (optimizers of nested blocks; PrepareEstimate;       *)
(*              AddTable*; ResetCardinality; AddPredicate* )               *)
(*              EstimateCardinality*  FinishEstimate                       *)
(*                                                                         *)
(* An exception anywhere ends the query, not the process: ExecuteSql goes  *)
(* on with the next line, and nothing calls FinishEstimate.                *)
(*                                                                         *)
(* tableName stands for the maps tableName, columnName and tabelCard,      *)
(* which PrepareEstimate clears and AddTable fills together.  Relations    *)
(* are numbered from 1.  PredMethod is 0, nothing is recorded.             *)
(***************************************************************************)
EXTENDS Stars

CONSTANTS
    Queries,            \* the lines of the workload
    Known,              \* keys of StatisticManager::statistics
    SingleCards,        \* <<table, filter>> pairs in singleQueryCard
    EnableStarSplit, MaxStarSize,
    MaxQueries          \* bound on the lines executed

(***************************************************************************)
(* A line: whether it has a WHERE clause, whether ParsePredicate accepts   *)
(* its FROM clause and predicates, the filter of each FROM item, and its   *)
(* query blocks, the outermost first, with the blocks nested in each.      *)
(***************************************************************************)
Block == [tables : Seq(Nat), preds : Seq(Attr \X Attr), children : Seq(Nat)]

Query == [where : BOOLEAN, parses : BOOLEAN, filters : Seq(STRING),
          blocks : Seq(Block)]

ASSUME QueriesAssumption ==
    /\ Queries \subseteq Query
    /\ \A q \in Queries :
          /\ 1 \in DOMAIN q.blocks
          /\ \A b \in DOMAIN q.blocks :
                /\ IsInjective(q.blocks[b].tables)
                /\ \A c \in DOMAIN q.blocks[b].children :
                      /\ q.blocks[b].children[c] \in DOMAIN q.blocks
                      /\ q.blocks[b].children[c] > b

VARIABLES
    running,      \* FALSE when ExecuteSql has ended
    query,        \* the line being executed
    frames,       \* the active JoinOrderOptimizer::Optimize calls
    log,          \* the outcomes of the lines executed
    filterString, prepared, tableName, relNDV, attrEsets, query_id,
    UseSingleTableCard

managerVars == <<filterString, prepared, tableName, relNDV, attrEsets, query_id,
                 UseSingleTableCard>>
vars == <<running, query, frames, log, managerVars>>
-----------------------------------------------------------------------------
(***************************************************************************)
(* A frame: its block, where it is in Optimize, how many children, tables  *)
(* or predicates it has handled there, and the sets of relations whose     *)
(* cardinality its CardinalityEstimator has cached.                        *)
(***************************************************************************)
NewFrame(b) == [block |-> b, step |-> "extract", n |-> 0, estimated |-> {}]

Top == frames[Len(frames)]
TopBlock == query.blocks[Top.block]
At(step) == frames # <<>> /\ Top.step = step

Advance(f) == frames' = [frames EXCEPT ![Len(frames)] = f]

\* Optimize returns; the outermost one ends the query.
Return ==
    /\ frames' = Front(frames)
    /\ log' = IF Len(frames) = 1 THEN Append(log, "ok") ELSE log

\* An exception unwinds all active calls and becomes the query's result.
Fail(what) ==
    /\ frames' = <<>>
    /\ log' = Append(log, what)

Init ==
    /\ running = TRUE
    /\ query \in Queries
    /\ frames = <<>>
    /\ log = <<>>
    /\ filterString = <<>>
    /\ prepared = FALSE
    /\ tableName = <<>>
    /\ relNDV = <<>>
    /\ attrEsets = <<>>
    /\ query_id = 0
    /\ UseSingleTableCard \in BOOLEAN

\* A mutant of ParsedFilters: filterString is not cleared first.
ParsedFiltersKept(q) == IF q.where THEN q.filters ELSE filterString

\* What ParsePredicate leaves in filterString.
ParsedFilters(q) == IF q.where THEN q.filters ELSE <<>>

Idle == running /\ frames = <<>> /\ Len(log) < MaxQueries

ParsePredicate ==
    /\ Idle
    /\ \E q \in Queries :
          /\ q.where => q.parses
          /\ query' = q
          /\ filterString' = ParsedFilters(q)
    /\ frames' = <<NewFrame(1)>>
    /\ UNCHANGED <<running, log, prepared, tableName, relNDV, attrEsets, query_id,
                   UseSingleTableCard>>

\* ParsePredicate is called outside ExecuteSql's try block.
ParsePredicateThrows ==
    /\ Idle
    /\ \E q \in Queries :
          /\ q.where /\ ~q.parses
          /\ query' = q
          /\ filterString' = ParsedFilters(q)
    /\ running' = FALSE
    /\ UNCHANGED <<frames, log, prepared, tableName, relNDV, attrEsets, query_id,
                   UseSingleTableCard>>

EndOfFile ==
    /\ running /\ frames = <<>>
    /\ running' = FALSE
    /\ UNCHANGED <<query, frames, log, managerVars>>
-----------------------------------------------------------------------------
\* A mutant of OptimizeChild: a child is not counted.
OptimizeChildAgain ==
    /\ At("extract")
    /\ Top.n < Len(TopBlock.children)
    /\ frames' = Append(frames, NewFrame(TopBlock.children[Top.n + 1]))
    /\ UNCHANGED <<running, query, log, managerVars>>

\* A mutant of OptimizeChild: blocks are numbered from zero.
OptimizeChildOffByOne ==
    /\ At("extract")
    /\ Top.n < Len(TopBlock.children)
    /\ frames' = Append([frames EXCEPT ![Len(frames)].n = @ + 1],
                        NewFrame(TopBlock.children[Top.n + 1] + 1))
    /\ UNCHANGED <<running, query, log, managerVars>>

\* A mutant of OptimizeChild: a child is also optimized after PrepareEstimate.
OptimizeChildInSession ==
    /\ At("extract") \/ At("tables")
    /\ Top.n < Len(TopBlock.children)
    /\ frames' = Append([frames EXCEPT ![Len(frames)].n = @ + 1],
                        NewFrame(TopBlock.children[Top.n + 1]))
    /\ UNCHANGED <<running, query, log, managerVars>>

\* ExtractJoinRelations optimizes the blocks it cannot reorder into this one.
OptimizeChild ==
    /\ At("extract")
    /\ Top.n < Len(TopBlock.children)
    /\ frames' = Append([frames EXCEPT ![Len(frames)].n = @ + 1],
                        NewFrame(TopBlock.children[Top.n + 1]))
    /\ UNCHANGED <<running, query, log, managerVars>>

Extracted == At("extract") /\ Top.n = Len(TopBlock.children)

\* One relation: nothing to reorder, StarCE is not asked.
ReturnUnordered ==
    /\ Extracted
    /\ Len(TopBlock.tables) <= 1
    /\ Return
    /\ UNCHANGED <<running, query, managerVars>>

PrepareEstimate ==
    /\ Extracted
    /\ Len(TopBlock.tables) > 1
    /\ ~prepared
    /\ attrEsets' = <<>>
    /\ tableName' = <<>>
    /\ prepared' = TRUE
    /\ query_id' = query_id + 1
    /\ Advance([Top EXCEPT !.step = "tables", !.n = 0])
    /\ UNCHANGED <<running, query, log, filterString, relNDV, UseSingleTableCard>>

PrepareEstimateThrows ==
    /\ Extracted
    /\ Len(TopBlock.tables) > 1
    /\ prepared
    /\ Fail("prepared")
    /\ UNCHANGED <<running, query, managerVars>>

\* GetNDV finds the summary of the single table.
HasNDV(t) == {<<t, NoColumn>>} \in Known

\* relNDV after AddTable; a table stands for the value GetNDV returns for it.
NewNDV(i, t) == [j \in DOMAIN relNDV \cup {i} |-> IF j = i THEN t ELSE relNDV[j]]

AddTable ==
    /\ At("tables")
    /\ Top.n < Len(TopBlock.tables)
    /\ LET i == Top.n + 1
           t == TopBlock.tables[i]
       IN  /\ tableName' = Append(tableName, t)
           /\ \/ /\ HasNDV(t)
                 /\ relNDV' = NewNDV(i, t)
                 /\ Advance([Top EXCEPT !.n = i])
                 /\ UNCHANGED log
              \/ /\ ~HasNDV(t)
                 /\ Fail("statistics")
                 /\ UNCHANGED relNDV
    /\ UNCHANGED <<running, query, filterString, prepared, attrEsets, query_id,
                   UseSingleTableCard>>

\* filterString.at(i) and singleQueryCard.at(...) in GetTableCard.
GetTableCardThrows(i) ==
    i \in DOMAIN filterString =>
        /\ UseSingleTableCard
        /\ filterString[i] # NoFilter
        /\ <<tableName[i], filterString[i]>> \notin SingleCards

\* ResetCardinality, which Build calls only with UseSingleTableCard.
ResetCardinality ==
    /\ At("tables")
    /\ Top.n = Len(TopBlock.tables)
    /\ \/ /\ UseSingleTableCard =>
                \A i \in DOMAIN TopBlock.tables : ~GetTableCardThrows(i)
          /\ Advance([Top EXCEPT !.step = "edges", !.n = 0])
          /\ UNCHANGED log
       \/ /\ UseSingleTableCard
          /\ \E i \in DOMAIN TopBlock.tables : GetTableCardThrows(i)
          /\ Fail("filter")
    /\ UNCHANGED <<running, query, managerVars>>

AddPredicate ==
    /\ At("edges")
    /\ Top.n < Len(TopBlock.preds)
    /\ LET p == TopBlock.preds[Top.n + 1]
       IN  attrEsets' = AddToStars(attrEsets, p[1], p[2])
    /\ Advance([Top EXCEPT !.n = @ + 1])
    /\ UNCHANGED <<running, query, log, filterString, prepared, tableName, relNDV,
                   query_id, UseSingleTableCard>>
-----------------------------------------------------------------------------
Enumerating == At("edges") /\ Top.n = Len(TopBlock.preds)

\* The summaries GetStatisticsFromEset reads for the key.
Pieces(key) == IF EnableStarSplit THEN Split(key, MaxStarSize) ELSE {key}

\* Split throws for a MaxStarSize below 3.
StarKnown(star) ==
    /\ EnableStarSplit => MaxStarSize >= 3
    /\ Pieces(GetEqualSetFromAttrEset(tableName, star)) \subseteq Known

\* Every relation of the star is asked for its filter and, if it has one,
\* for its filtered cardinality.
FiltersThrow(star) == \E r \in RelsOf(star) : GetTableCardThrows(r)

(***************************************************************************)
(* The plan enumerator asks for a set of relations it has no cardinality   *)
(* for.  All stars are looked up before any filter is.                     *)
(***************************************************************************)
EstimateCardinality(rels) ==
    /\ Enumerating
    /\ Cardinality(rels) > 1
    /\ rels \notin Top.estimated
    /\ LET stars == Range(GetAttrEsetFromRels(attrEsets, rels))
       IN  \/ /\ \A star \in stars : StarKnown(star) /\ ~FiltersThrow(star)
              /\ Advance([Top EXCEPT !.estimated = @ \cup {rels}])
              /\ UNCHANGED log
           \/ /\ \E star \in stars : ~StarKnown(star)
              /\ Fail("statistics")
           \/ /\ \A star \in stars : StarKnown(star)
              /\ \E star \in stars : FiltersThrow(star)
              /\ Fail("filter")
    /\ UNCHANGED <<running, query, managerVars>>

\* A mutant of FinishEstimate: the session stays open.
FinishEstimateForgotten ==
    /\ Enumerating
    /\ DOMAIN TopBlock.tables \in Top.estimated
    /\ Return
    /\ UNCHANGED <<running, query, managerVars>>

\* The plan of the whole block is found; Optimize ends.
FinishEstimate ==
    /\ Enumerating
    /\ DOMAIN TopBlock.tables \in Top.estimated
    /\ prepared' = FALSE
    /\ Return
    /\ UNCHANGED <<running, query, filterString, tableName, relNDV, attrEsets, query_id,
                   UseSingleTableCard>>

Ended == ~running /\ UNCHANGED vars

OptimizerStep ==
    \/ OptimizeChild
    \/ ReturnUnordered
    \/ PrepareEstimate
    \/ PrepareEstimateThrows
    \/ AddTable
    \/ ResetCardinality
    \/ AddPredicate
    \/ /\ frames # <<>>
       /\ \E rels \in SUBSET DOMAIN TopBlock.tables : EstimateCardinality(rels)
    \/ FinishEstimate

Next == \/ ParsePredicate
        \/ ParsePredicateThrows
        \/ EndOfFile
        \/ OptimizerStep
        \/ Ended

Spec == Init /\ [][Next]_vars
FairSpec == Spec /\ WF_vars(OptimizerStep)
-----------------------------------------------------------------------------
(***************************************************************************)
(* Type invariant.                                                         *)
(***************************************************************************)
Frame == [block : Nat \ {0}, step : {"extract", "tables", "edges"}, n : Nat,
          estimated : SUBSET SUBSET Nat]

TypeOK ==
    /\ running \in BOOLEAN
    /\ query \in Queries
    /\ frames \in Seq(Frame)
    /\ \A f \in DOMAIN frames : frames[f].block \in DOMAIN query.blocks
    /\ log \in Seq({"ok", "prepared", "statistics", "filter"})
    /\ filterString \in Seq(STRING)
    /\ prepared \in BOOLEAN
    /\ tableName \in Seq(Nat)
    /\ DOMAIN relNDV \subseteq Nat /\ \A i \in DOMAIN relNDV : relNDV[i] \in Nat
    /\ attrEsets \in Seq(SUBSET Attr)
    /\ query_id \in Nat
    /\ UseSingleTableCard \in BOOLEAN

(***************************************************************************)
(* While a block adds its predicates and is estimated, attrEsets is the    *)
(* partition its own predicates generate: nothing is left of an earlier    *)
(* query, of a failed one or of a nested block, no star is cut in two and  *)
(* none swallows another, whatever the order of the predicates             *)
(* (AddPredicate, starce.hpp:399-422).                                     *)
(***************************************************************************)
Added == {TopBlock.preds[i] : i \in 1..Top.n}

StarsExact == At("edges") => IsPartition(attrEsets, Added)

(***************************************************************************)
(* What an estimate reads is of the query and the block being optimized:   *)
(* the table names, the row counts in relNDV (which nothing ever clears),  *)
(* and the filters, which a line without WHERE does not inherit.           *)
(***************************************************************************)
NothingStale ==
    Enumerating =>
        /\ tableName = TopBlock.tables
        /\ \A i \in DOMAIN tableName : relNDV[i] = tableName[i]
        /\ filterString = IF query.where THEN query.filters ELSE <<>>

(***************************************************************************)
(* One session at a time: only the innermost Optimize call is between      *)
(* PrepareEstimate and FinishEstimate, so that nested blocks do not clear  *)
(* the state of the block around them (query_graph_manager.cpp:27-37).     *)
(***************************************************************************)
OneSession ==
    \A f \in DOMAIN frames :
        frames[f].step # "extract" => f = Len(frames) /\ prepared

(***************************************************************************)
(* "Already prepared for estimation" is never the first failure: without   *)
(* an exception inside a session, every PrepareEstimate finds the previous *)
(* session finished (starce.hpp:367, join_order_optimizer.cpp:78-81).      *)
(***************************************************************************)
PreparedOnlyAfterFailure ==
    \A k \in DOMAIN log : log[k] = "prepared" =>
        \E j \in 1..(k - 1) : log[j] \in {"statistics", "filter"}

(***************************************************************************)
(* The assertion in PrepareEstimate: it is never called while the manager  *)
(* is already prepared.                                                    *)
(***************************************************************************)
NeverPreparedTwice == \A k \in DOMAIN log : log[k] # "prepared"

(***************************************************************************)
(* "estimates Berge-acyclic join queries, with or without predicates": a   *)
(* line without WHERE, whose tables are all known, is answered.            *)
(***************************************************************************)
UnfilteredAnswered == \A k \in DOMAIN log : log[k] # "filter"

(***************************************************************************)
(* Every line that is started gets an outcome.                             *)
(***************************************************************************)
QueryEnds == frames # <<>> ~> frames = <<>>
-----------------------------------------------------------------------------
(***************************************************************************)
(* The inductive invariant behind the properties above: what the manager   *)
(* holds at each point of a session, and that a session left open by an    *)
(* exception has left a failure in the log.                                *)
(***************************************************************************)
InSession == At("tables") \/ At("edges")

\* The first n tables of the block have been added.
TablesAdded(n) ==
    /\ Len(tableName) = n
    /\ \A i \in 1..n : /\ tableName[i] = TopBlock.tables[i]
                       /\ i \in DOMAIN relNDV
                       /\ relNDV[i] = tableName[i]

FailedBefore(k) == \E j \in 1..(k - 1) : log[j] \in {"statistics", "filter"}

SessionInv ==
    /\ TypeOK
    /\ OneSession
    /\ frames # <<>> =>
          filterString = IF query.where THEN query.filters ELSE <<>>
    /\ At("tables") => /\ attrEsets = <<>>
                       /\ Top.n <= Len(TopBlock.tables)
                       /\ TablesAdded(Top.n)
    /\ At("edges") => TablesAdded(Len(TopBlock.tables))
    /\ StarsExact
    /\ prepared /\ ~InSession => FailedBefore(Len(log) + 1)
    /\ PreparedOnlyAfterFailure
=============================================================================

# StarCE: a TLA+ model, its checks and its proofs

StarCE is a cardinality estimator built into DuckDB. It collects *star degree
summaries* over the join columns of a schema and composes them to estimate join
queries. This directory models the estimator's own code: `main.cpp`,
`duckdb/src/include/duckdb/starce/{equalset,statistic,starce}.hpp`, and the hooks
in `duckdb/src/optimizer/join_order/`. DuckDB itself, the baselines, the
experiments and the data are outside the model.

## The system

| Component | State | Operations | Interaction |
|---|---|---|---|
| `EqualSet` | a set of (table, column) entries | `GetAllSubset`, `GetAllSubsetLimitSize`, `Split`, `GetTableList` | pure; used at collection and at estimation, which must agree |
| `DegreeSequence`, `DSStatistic` | buckets of degrees, `card`, `centralDs`, `tables` | `AddDegree`, `FinishCollection`, `dot`, `Merge`, `MergeByCenter`, `LimitDsToCard`, `AdjustToAverage`, `ApplyFilterCoefficient` | built by worker threads, copied and merged by estimates |
| Collection: `CollectStatistics`, `StatisticManager::*Collection` | `subset`, `skip`, `subsetStatistics`, `singleDS`, `statistics`, `rateSum` | one SQL query per equal set, `PrepareCollection`, worker threads, `AddDegreeForSingleDS`, join, `FinishCollection`, `CalcAdjustRate`, write | main thread and workers share the summaries without a lock |
| Session: `ExecuteSql` and the optimizer hooks | `filterString`, `prepared`, `tableName`, `columnName`, `relNDV`, `attrEsets`, `query_id` | `ParsePredicate`, `PrepareEstimate`, `AddTable`, `ResetCardinality`, `AddPredicate`, `EstimateCardinality`, `FinishEstimate` | DuckDB's join order optimizer calls back, recursively for nested blocks; exceptions unwind through it |
| Estimate: `EstimateCardinality` | `attrEsets`, `parent`, `dsStats`, `card`, all local | lookup, filters, union-find, product | reads the session's and the collection's state |
| Statistics file | the JSON file at `STATS_PATH` | `TryReadStatistics`, `serialize`, `deserialize` | replaces collection on the next start |
| Recording and replay | `Subqueries`, `RecordingSubqueryCards`, `subqueryCard`, ... | `GetSubquery`, `RecordSubquery`, `Output*`, `Read*Card` | files aligned by line number |

What is hard: the workers' disjointness follows from three unrelated pieces of
code (stride, first position, skip flags); the manager is a process-wide
singleton that an exception can leave in the middle of a session; nested
optimizers re-enter it; the union-find of an estimate tests star indices while it
merges roots; the arithmetic of degree sequences has many boundary cases; and what
one run of the program leaves in its files, complete or not, the next one takes,
under settings that may have changed.
`PROJECT.json` lists each of these hazards at its line with the properties that
cover it.

## Modules

* `EqualSet` - entries are pairs of naturals, ordered as `TableColumn::operator<`
  orders the names; column 0 is the empty name of `{table, ""}`.
* `Ordering` - the order in which a loop over indices, or over a `std::set`, visits them.
* `Collect` - the collection. The main thread is `phase` and `ei`; a worker has
  `pc`, `pos` (its loop variable), `todo` (the rest of `count_num`) and `loaded`.
  A summary is `[from, added, finished]`: the equal set it was built from, how often
  each count vector was added, and whether it was closed. Everything
  `DSStatistic::AddDegree` accumulates is a sum over those additions; `Card` is the
  one the code returns as `card`. `AddDegree` is a load and a store, so that a race
  would lose an addition.
* `SequentialCollect` - what `Collect` promises, without threads: each equal set adds,
  in one step, the complete summaries of the subsets that had none. `Collect` implements
  it (`CollectsSequentially`): `known` is the map of the closed summaries, `next` moves
  when an equal set is finished, and all the workers' steps are stutters.
* `Stars` - the join graph of a query: `AddToStars` is `AddPredicate`'s update of
  `attrEsets`, and `GetAttrEsetFromRels`, `GetEqualSetFromAttrEset`, `TableIdx`,
  `CanMerge` and `GetCommonRelation` keep their names. `IsPartition` is the
  reference: the classes of the equality the predicates generate.
* `Session` - a workload. `frames` is the stack of active `Optimize` calls, each
  with its block, its step and the sets it has estimated. `Fail` is an exception: it
  empties the stack and leaves the manager as it is. DuckDB turns an exception into
  the query's result, so `ExecuteSql` goes on; only `ParsePredicate`, outside the
  `try`, ends it. A block has no two relations over one table (see `Estimate` for
  those). `EstimateCardinality` is one step here. `UseSingleTableCard` is part of the
  state, either value from the start.
* `Estimate` - one call of `EstimateCardinality`, loop by loop. A cardinality is
  represented by how often each relation is a factor of it. `Merged` joins on one common
  relation, as `DSStatistic::Merge` does, so that a second one the summaries share
  becomes a factor twice. `BergeAcyclic` says of a join graph, by counting its edges,
  that it is a forest.
* `DegreeSequence` - the buckets of degrees as sequences of records: `AddDegree`,
  `FinishCollection`, `LimitDsToCard`, `Dot`. Degrees are integers: collection and
  merging only add and multiply counts, so every double they produce is integral.
  `CompressPrecision` is a fraction; `Position` takes the quotient of logarithms in
  `AddDegree` as exact, without the rounding of `std::log`.
  `Top(s, n)`, the sum of the n largest degrees, is what the reference compares.
* `Averaging` - `AdjustToAverage`, `NormalizeSubOneDegrees` and the filters of
  `PredMethod` 0 and 2, at rates `k / RateDen`. Their fractions are integers in units of
  `1 / (RateDen * ndv)`.
* `DSStatistic` - a database is chosen, and which of its rows pass the filters; the
  summaries of the stars of a plan are collected (`stats`, the code's `dsStats`) and
  merged in the plan's steps: with a filter's one-table summary, with another star over a
  common table (`Merge`), or over the key of a split star (`MergeByCenter`). `Iterate` is
  an iteration of `Merge`'s loop; `CompleteRow`, `ExtendRow`, `TakeBucket` and
  `PartOfBucket` are the branches of `MergeEdgeDegreeSequences`, with `edge[t]` holding
  what it carries from call to call. `RealCard` and `RealDegree` count the join of the
  filtered database directly, and `RowByRow` says what the merged sequence of a table
  should be, row by row. The steps run at `AdjustRate` 1, where averaging is the
  identity; the properties over `Averaging` ask what it does to the collected summaries
  at the other rates. `AdjustK` is the k of a star in `FinishCollection`, with
  `avg_card` as a fraction.
* `StatsFile` - runs of the program over the statistics file: read or collect, truncate,
  write, close, assign the rates, serve. `Crash` may come anywhere, a write may fail
  unnoticed, and settings and database may change between runs. A file is `absent`,
  `empty`, `partial` or `whole`; only the last one parses. A summary is the database
  version and the precision it was built with, and the precision merging will use.
* `Recording` - runs over the subquery, result and time files. Recording runs note the
  text and the estimate of what the optimizer asks for; replaying runs pair texts with
  numbers line by line, with the C++ variable `card` keeping its last, or an arbitrary
  first, value when the numbers run out. A text is the
  sets of its `FROM` items, join conditions and predicates, which the code sorts; an alias
  is a table and a number, and a relation's filter one value, so texts are unambiguous as
  long as no table is called like another one with digits appended. `TextOrder` is the
  order `std::set` visits texts in. The lines of a workload have two or more relations:
  for fewer, `QueryGraphManager::Build` returns before it opens a session.
  `made` and `origin` are history.
* `MCCollect`, `MCSession`, `MCEstimate`, `MCDSStatistic`, `MCStatsFile`,
  `MCRecording` - the instances TLC checks.
* `CollectProofs`, `SessionProofs`, `EstimateProofs`, `DSStatisticProofs`,
  `StatsFileProofs` and `RecordingProofs` - the theorems about the module of that name.
* `EqualSetProofs` - what the operators of `EqualSet` list; `FoldProofs` - sums and
  products over finite sets, folds, and the principles the inductions use.

`Estimate` details what `Session` takes as a step: `OutcomeAsInSession` says that the
detailed call ends with the outcome `Session` gives it. The keys of `Collect`'s
`statistics` are the constant `Known` of the other two; `StarsCovered` is what makes
every sub-star of the schema known, and `StatsFile`'s `StarsAnswered` says what remains
of that when a later run looks stars up under other settings.

## Runs

| Run | Question | Result |
|---|---|---|
| `collect` | Can workers meet, lose, repeat or reopen anything, or hang? Do they do more than a sequential loop would? Are cardinalities the true join sizes, and are all sub-stars covered after splitting? | no: `NoDataRace`, `ExactlyOnce`, `ClosedStaysClosed`, `CollectsSequentially`, `CollectionEnds`; yes: `ExactCard`, `StarsCovered` |
| `collect_two_columns` | Are cardinalities exact also when a table has two columns in an equal set? | violated (`ExactAlignment`): the counts of both columns are summed |
| `session` | Does an estimate see only its own query? Do sessions nest? Is "Already prepared" ever the first failure? Do lines end? | `StarsExact`, `NothingStale`, `OneSession`, `PreparedOnlyAfterFailure`, `QueryEnds` hold |
| `session_prepared_twice` | Is `PrepareEstimate` ever called while prepared? | violated: after any failure inside a session |
| `session_unfiltered` | Are join queries without `WHERE` answered? | violated: `filterString.at` throws, in `GetTableCard` with `UseSingleTableCard`, otherwise in `EstimateCardinality` |
| `estimate` | Does every relation reach the product, whatever the graph, and just once if it is Berge-acyclic? Does every filter? When does a call throw? Do the loops end? | `EachRelationOnce`, `FiltersCounted`, `OutcomeAsInSession`, `EstimateEnds` hold |
| `estimate_self_join` | Are relations over the same table both counted? | violated: one of them is dropped |
| `merge` | Does `Merge` deal out rows and tuples correctly? Does a summary ever underestimate, filtered or not? Is the adjust rate a weight? Where do averages and filters lie at each rate? Do the loops end? | `EdgesExact`, `SumsToCard`, `UpperBound`, `RateAtMostOne`, `AverageKeepsCard`, `RateInterpolates`, `NeverBelowIndependence`, `WeightedFilterCovers`, `WorkShrinks` hold |
| `merge_three_pieces` | Does a split star keep the degree sequence of its key? | violated: `centralDs` is empty after the first `MergeByCenter`, and a third piece makes the cardinality 0 |
| `stats_file` | What do queries read after crashes, failing writes, changed settings? | one whole collection, which the next start loads again: `ServesWholeCollection`, `StarsAnswered`, `NextStartServesTheSame`, `OnlyRefreshReplaces` |
| `recording` | Does a replay answer what was recorded? Do the lines of the files correspond? | yes, over repeats, older recordings, crashes: `ReplayFaithful`, `ReplayFailsAlike`, `LinesCorrespond`, `SameTextSameSubquery` |
| `recording_grouped` | Do they when the output is grouped by main query? | violated: `subquery.sql` then has headers, main queries and another order than the result file |

The six violations are the entries of "findings" in `PROJECT.json`.

### Bounds

* `collect`: two equal sets that share two entries, of three entries with two columns of
  a table and of four with `MaxStarSize` 3, so that `Split` yields the shortened pieces
  (4 = 2 + 2): twenty-three subsets for three workers, with repeated one-table
  subsets in one list and known subsets in the second. More threads than divide the
  list, and repeated positions owned by different workers, occur. Two distinct count
  vectors are enough to lose an update; one stands for two key values, and one key value
  occurs in no table. A star of five entries (3 + 2) is in `stats_file`.
* `session`: `MaxQueries` is 3: a failing line, a line that inherits its state and one
  more. Both values of `UseSingleTableCard` occur. Blocks have up to four relations and two stars, one built by merging two.
  `MaxQueries` bounds only the length of the log.
* `estimate`: all graphs of up to three stars over four relations, and all of four
  binary stars: chains, cycles, stars whose roots were merged through a third; and
  inputs that throw: unknown stars, missing filters, relations over one table.
* `merge`: `CompressPrecision` is 1.5, the default of `experiment/ExperimentRunner.py`.
  Two key values, interchangeable (symmetry), and, per row of the schema, 0, 2 or 3
  copies (chain of two stars), 0, 1 or 3 (star split in two), or 0 or 2 (chain of three
  stars, filtered chains, where 0, 1 or 2 of the copies pass). Degrees then fill several
  buckets, some share one (4 and 5), and bucket boundaries of the two sides fall inside one
  another, so that all branches of `MergeEdgeDegreeSequences` are taken. The filter of
  the shared table is applied in both stars. Rates are 0, 1/2 and 1; `relNDV` runs from
  1 to one more than the rows. `RateInterpolates` speaks of the rates at which
  `NormalizeSubOneDegrees` has nothing to round: below, an estimate can exceed that of
  rate 1, as its comment shows for a table of two rows. `NeverBelowIndependence` speaks
  of all rates. Termination is stated as a measure that every step lowers
  (`WorkShrinks`); it needs no fairness, and it is also proved for all instances.
* `recording_grouped`: the inputs of `recording`.
* `stats_file`: a star of five columns, larger than both split limits (3 and 4), a second
  equal set over the same tables, two precisions, refreshing or not, assigned rates or
  not: every pair of settings can follow each other. `MaxDb` 1 gives two versions of the
  database, enough for a mix. The number of runs is not bounded.
* `recording`: lines that join a table with itself, ask for a subquery again or have it
  as a query of their own, a star without statistics and a line without `WHERE`; record,
  group, time and replay in the combinations that touch the files. One estimate may
  differ from run to run, so that an old number is distinguishable. The number of runs is
  not bounded: a process keeps nothing but its files.

### Fairness

`collect` assumes weak fairness of the main thread and of every worker: they are
operating system threads and never wait for one another except in `join`.
`session` assumes it of the optimizer's steps, and `estimate` of the one thread that
runs the call: sequential code that does not block. No fairness is assumed of the
workload (that another line comes), nor in `merge`, `stats_file` and `recording`, which
state no liveness.

## Proofs

The theorems hold for every value of the constants that satisfies the modules'
assumptions: finite equal sets of named columns, frequencies that are natural numbers
and at least one worker (`Collect`); well-formed query trees (`Session`); finite, nonempty
stars over named relations (`Estimate`); a finite set of key values, any fraction as
`CompressPrecision`, a positive denominator of the rates, and plans over stars that exist and in
which two summaries that are merged share the table they are merged on and no other
(`DSStatistic`); records of settings and finite equal sets
(`StatsFile`); and, for `Recording`, queries of two or more relations whose stars are finite and disjoint, as
`StarsExact` says `AddPredicate` makes them, and an order of texts without repetitions
that contains every text the workload can ask for. `EverySubstarCovered` has a
hypothesis of its own: where stars are split, a limit of at least 3, because `Split`
throws below that. `ExactCard` speaks of the equal sets in which no table has two columns
(`OneColumnEach`); without that it is false (`collect_two_columns`).

The provers have no induction over data. Inductions are therefore arguments from a
smallest counterexample: `LeastNat` gives a least element of a nonempty set of naturals,
`MinimalSet` a minimal member of a nonempty family of finite sets, both proved from the
library's facts on finite sets. The lemmas of `FoldProofs` show in this way that the
recursive functions behind `FoldSet`, `FoldLeft` and `MapThenSumSet` exist, and the facts
on sums and products follow.

* **`EqualSet`**. `AllSubsetsListed` and `LimitedSubsetsListed`: the masks below 2^n name
  every subset of n entries. Entries are strictly ordered and have ranks 0 to n - 1; a
  set of entries of rank below k is named by a number below 2^k, one bit at a time. The
  increasing list of the kept masks (`Ascending`) has no gap. `PiecesWithinLimit`: the
  loop of `Split` is followed position by position; the shortened piece leaves two
  entries, never one, which is where a limit of 3 is used.

* **`Collect`**: `CollectInv`. `NoDataRace` and `ExactlyOnce` are not inductive: that
  two workers do not meet depends on where they came from. The invariant says that a
  worker is always at a position it *owns* (`pos = t + r * numThreads`), that
  positions sharing a summary are skipped but for one (`PositionsOK`), that what a
  worker has loaded is what the summary still holds (`WorkersOK`), and how far the
  owner of each position has come (`ProgressOK`: a vector has been added iff the owner
  no longer has to add it). The arithmetic lemmas show that owners are unique, that
  every position has one and that a worker does not jump over its own. Proved:
  `TypeCorrect`, `RaceFree`, `CollectsExactlyOnce`, `ClosedIsFinal`.
  `ImplementsSequential` is the refinement of `SequentialCollect`. The mapping takes
  `known` to the closed summaries; between two equal sets all summaries are closed
  (`ClosedBetween`), and closing them maps to `CollectNext` because `ExactlyOnce` holds
  of every summary closed there (`KnownMap`).
  `EverySubstarCovered`: the subsets of all equal sets passed so far are closed
  (`PassedCovered`), and by the theorems on `EqualSet` these include whatever an estimate
  looks up, whole or in pieces. `CardsAreExact`: a key belongs to the equal set it was
  collected from (`KeysListed`); a closed summary has added every count vector once; and
  summing over count vectors, each as often as it occurs, is summing over key values
  (`SumByGroups`), those that occur in no table contributing 0.
* **`Session`**: `SessionInv`. What the manager holds at each point of the innermost
  session, and that `prepared` outside a session implies a failure in the log. The
  main lemma is that `AddToStars` keeps the partition, in each of its four cases.
  Proved: `TypeCorrect`, `StarsAreExact`, `SessionsDoNotNest`,
  `EstimatesReadTheirOwnQuery`, `ThrowsOnlyAfterFailure`.
* **`Estimate`**: `EstimateInv`. There is a map `f` from stars to roots that agrees
  with `parent` (`IsRootMap`); a root has exactly the relations of the stars below it
  (`RootsHold`); and stars sharing a relation whose pair has been passed have one root
  (`SharedMerged`). `CanMerge` is evaluated on sets that may have grown, so the
  invariant speaks of the stars as they were. From it: the common relation of two
  roots is a table of both summaries, so `Merge` does not throw; and roots are disjoint
  when the product is formed, so that no relation is missing. Proved: `TypeCorrect`,
  `ThrowsAsInSession`. That no relation is counted twice in a Berge-acyclic graph
  (`RelationsCountedOnce`) needs `OnceInv` besides, which is about connectedness: the
  stars below a root and the root's relations have at most one node more than edges
  (`RootsConnected`). If two roots had two relations in common, the stars below both
  would have at least as many edges as nodes, which a forest does not have
  (`OneInCommon`); so the relation `Merge` joins on is the only one, and the union is
  connected again (`LinkedConnected`). `FiltersAllCounted` needs `SummaryFiltersInv` besides: how far
  the filter loop has come within a star, and that from its end on a summary has the
  filters of all its relations, whatever was merged into it.
* **`DSStatistic`**: `DSInv`, that is `TypeOK` with `StatsInv` and `MergeInv`.
  `SumsToCard` speaks of summaries between merges only, and a merge adds to the sequences
  of its tables in passes that stop inside a bucket, and inside a row. `StatsInv` is what
  holds between merges: every sequence is finished and adds up to `card`. `MergeInv` says,
  within one, how many tuples of the merge table each side's loop has used up, and for
  each edge table that the tuples still to come in its old sequence, from its bucket, the
  rows left of it and the row begun, are those of the merge table not used yet and those
  dealt to it in this iteration. A table therefore never runs out early: `BeyondBuckets`
  is only reached with nothing left to deal. The new sequence, the row begun and what is
  still to be dealt make up `newCard`. `FinishCollection` may only round up, and
  `LimitDsToCard` cuts what was rounded, because no bucket's sum exceeds
  `count * maxDegree` (`Collecting`) and none that matters is dropped as empty: all
  degrees or all counts added were positive (`PositiveDegrees`, `PositiveCounts`; a filter
  nothing passes and the final `curDegree` of 0 are why neither holds throughout). Proved:
  `TypeCorrect`, `SumsCorrect`, `AverageCorrect`, and `WorkDone`, whose measure needs the
  invariant to stay natural.

  What averages and filters do to an estimate needs the order of the degrees besides.
  `CollectedDescend` gives it: the bucket of a degree is monotone in it (`Placed`), so a
  finished sequence descends, and it has no more rows than the table because the rows of
  the key values are disjoint. Of a descending sequence, `Top`, the tuples of its first n
  rows, is concave: at each n it has a slope that no earlier degree is below and no later
  one above (`SlopeExists`, `Chord`). `MergedGains` writes what a merge counts as a sum
  over the buckets of one side of differences of `Top` on the other, which takes care of
  buckets that end at different rows. From both follow that the first c of n rows hold at
  least their share (`TopShare`), and Chebyshev's sum inequality for merges
  (`Chebyshev`). An average is then linear in the merge (`MergedWithMean`), which gives
  the estimate as a polynomial in the rate, wherever `NormalizeSubOneDegrees` leaves the
  average as it is, and it does so at rate 1. Proved: `WeightedFilterCorrect`,
  `NeverBelowCorrect`, `RateCorrect`.
* **`StatsFile`**: `StatsFileInv`, that is `TypeOK` with three parts. A whole file holds
  one collection (`FileOK`); from collection or loading on, memory does too, with the
  precision of the current settings (`MemoryOK`); and from the close of the file on the
  two agree unless a write failed (`SavedOK`). `ServesWholeCollection` alone is not
  inductive: what is served was read from a file some earlier run wrote. Proved:
  `TypeCorrect`, `ServesOneCollection`, `SavedIsServed`, `OnlyRefreshWrites`.
  `StarsAreAnswered` compares the keys of a collection, the subsets within its limit,
  with the pieces another limit asks for. Two different subsets can have one key, so the
  negative half (a large uncut star is not found) uses that dropping the column of a
  one-entry set keeps its size.
* **`Recording`**: five layers, each proved from those before. `RunInv` says what a run
  has in memory at each step; `RecordedInv` that it has recorded the last estimate of
  every text; `FilesInv` relates the files to the run that wrote them, which is usually
  over (`origin`), also half-way through writing; `CardsInv` says what a replay has read;
  `AnswersInv` that what becomes of a line is foretold by the statistics alone, of the
  run that recorded and of the one that replays. `TextIsKey` is the lemma the others rest
  on: equal texts give a renaming of relations that keeps tables and filters, and a star
  can be recovered from its equalities because the chain of neighbours connects it and
  connects nothing else. `FilesCorrespond` is about output that is not grouped;
  `recording_grouped` shows why. `SameStatistics` adds that such subqueries are both answerable
  or both not. Proved: `TypeCorrect`, `TextIsKey`, `FilesCorrespond`, `ReplayIsFaithful`,
  `ReplayFailsOnSameLines`.

Only model-checked: of `DSStatistic`, `EdgesExact` and `UpperBound`, which compare whole
sequences with a second definition of the same sums (row by row, and over the true join)
and need rank-wise inequalities through every merge; and `RateAtMostOne`, the same for a
product of any number of sequences. The liveness
properties (`CollectionEnds`, `QueryEnds`, `EstimateEnds`) need fairness, which is beyond
the prover.

## What is not modelled

* Merges of summaries that were already averaged: `Merge` is run on integral degrees, and
  the other rates are asked of the collected summaries and of the cardinality their merge
  gives. `ApplyFilterCoefficient` (`PredMethod` 1) and `AverageWithTruncation`, which
  nothing calls. The root in the adjust rate, rounding of doubles (that of
  `log(degree) / log(precision)` included), overflow of `int64_t`,
  and a `relNDV` of 0. `GetTableCard` is taken to be exact.
* A table with two columns in an equal set, beyond `collect_two_columns`: its sequences
  are finished twice.
* The text processing of `ParsePredicate`, the reading of `config.json`, memory reports and
  debug output. `CollectParallel` is at least 1.
* The join order enumeration, which appears as a caller that asks for sets of relations,
  in any order (`Session`) or a fixed one (`Recording`). Its greedy variant may ask for
  other sets when it is answered differently; a replay then throws.
* Recording of single-table queries and relative errors, and failing writes of the
  recording's files.
* `Session` assumes `PredMethod` 0, `Estimate` has it as a constant.
* DuckDB, the JSON library, PostgreSQL, the baselines and the experiments: not the
  estimator's own code.

## Plan

1. Done: `EqualSet`, `Collect`, `SequentialCollect`, `Stars`, `Session`, `Estimate`,
   `DegreeSequence`, `Averaging`, `DSStatistic`, `StatsFile`, `Recording` and their proofs.
2. Proofs: for `DSStatistic`, that a merge gives each row its tuples (`EdgesExact`), and
   with it the upper bound.
3. Merges at fractional rates, in a unit per plan.

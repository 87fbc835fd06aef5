------------------------------- MODULE Collect -------------------------------
(***************************************************************************)
(* CollectStatistics (main.cpp) with the collection half of                *)
(* StatisticManager (starce.hpp).  For each equal set of the schema the    *)
(* main thread asks the database for count_num, the distinct vectors of    *)
(* per-table counts of a key value; PrepareCollection lists the subsets    *)
(* and allocates the summaries that do not exist yet; worker threads add   *)
(* count_num to the summaries, each to every numThreads-th subset, while   *)
(* the main thread adds it to singleDS; once all are joined,               *)
(* FinishCollection closes the summaries.                                  *)
(*                                                                         *)
(* A summary (DSStatistic) is represented by how many times each element   *)
(* of count_num has been added to it: everything AddDegree accumulates is  *)
(* a sum over those additions, Card below among them.  AddDegree is not    *)
(* atomic: a worker loads the summary and stores it back in two steps, so  *)
(* that two threads in the same object lose updates.                       *)
(***************************************************************************)
EXTENDS EqualSet, Sequences

CONSTANTS
    Esets,            \* "EqualSets" of the schema file, a sequence
    Value,            \* the key values in the database
    Freq,             \* Freq[e][v]: rows of e's table whose column holds v
    EnableStarSplit,
    MaxStarSize,
    CollectParallel   \* min(CollectParallel, hardware_concurrency())

Key == SUBSET (Nat \X Nat)

ASSUME EsetsAssumption ==
    /\ Esets \in Seq(Key)
    /\ \A i \in DOMAIN Esets : IsFiniteSet(Esets[i])
ASSUME ColumnsAssumption ==
    \A i \in DOMAIN Esets : \A e \in Esets[i] : e[2] # NoColumn
ASSUME FreqAssumption ==
    \A i \in DOMAIN Esets : \A e \in Esets[i] : \A v \in Value : Freq[e][v] \in Nat
ASSUME ParallelAssumption == CollectParallel \in Nat \ {0}
ASSUME ValueAssumption == IsFiniteSet(Value)
ASSUME SplitAssumption == EnableStarSplit \in BOOLEAN /\ MaxStarSize \in Nat

VARIABLES
    phase,       \* where the main thread is
    ei,          \* the equal set being processed
    count_num,   \* the count vectors of that equal set
    subset, skip,
    numThreads, spawned,
    pc, pos,     \* per worker thread: where it is, its loop variable s,
    todo,        \*   what is left of its iteration over count_num,
    loaded,      \*   the summary as it read it inside AddDegree
    mainTodo,    \* count_num elements not yet in singleDS
    statistics,  \* StatisticManager::statistics
    singleDS,    \* additions to singleDS, per element of count_num
    rated        \* summaries considered for the adjust rate

workerVars == <<pc, pos, todo, loaded>>

mainVars == <<phase, ei, count_num, subset, skip, numThreads, spawned,
              mainTodo, singleDS, rated>>
vars == <<mainVars, workerVars, statistics>>
-----------------------------------------------------------------------------
(***************************************************************************)
(* The SQL of CollectStatistics: all columns of the equal set, grouped by  *)
(* value, the counts of a table summed over its columns in the equal set.  *)
(* A value that occurs in no column has no row.                            *)
(***************************************************************************)
CountMap(E, v) ==
    [t \in TablesOf(E) |->
        MapThenSumSet(LAMBDA e : Freq[e][v], {e \in E : EntryTable(e) = t})]

CountNum(E) ==
    {m \in {CountMap(E, v) : v \in Value} : \E t \in TablesOf(E) : m[t] > 0}

Frequency(E, m) == Cardinality({v \in Value : CountMap(E, v) = m})

Subsets(E) == IF EnableStarSplit THEN GetAllSubsetLimitSize(E, MaxStarSize)
              ELSE GetAllSubset(E)
-----------------------------------------------------------------------------
NewStatistic ==
    [from |-> ei, added |-> [m \in count_num |-> 0], finished |-> FALSE]

\* A mutant of FirstPosition: counted from zero.
FirstPositionFromZero(t) == t - 1

\* A worker's first position in subset.
FirstPosition(t) == t

\* Position i is skipped when its subset has a summary by then, from an
\* earlier equal set or from an earlier position.
SkipFlags(sub) ==
    [i \in DOMAIN sub |-> \/ sub[i] \in DOMAIN statistics
                          \/ \E j \in DOMAIN sub : j < i /\ sub[j] = sub[i]]

\* A mutant of Allocated: known subsets get a new summary, too.
AllocatedAll(sub) ==
    [k \in DOMAIN statistics \cup {sub[i] : i \in DOMAIN sub} |->
        IF \E i \in DOMAIN sub : sub[i] = k THEN NewStatistic ELSE statistics[k]]

\* The summaries once every subset that had none has got a new one.
Allocated(sub) ==
    [k \in DOMAIN statistics \cup {sub[i] : i \in DOMAIN sub} |->
        IF k \in DOMAIN statistics THEN statistics[k] ELSE NewStatistic]

Init ==
    /\ phase = "query"
    /\ ei = 1
    /\ count_num = {}
    /\ subset = <<>>
    /\ skip = <<>>
    /\ numThreads = 0
    /\ spawned = 0
    /\ pc = <<>> /\ pos = <<>> /\ todo = <<>> /\ loaded = <<>>
    /\ mainTodo = {}
    /\ statistics = <<>>
    /\ singleDS = <<>>
    /\ rated = {}

QueryCountNum ==
    /\ phase = "query"
    /\ ei \in DOMAIN Esets
    /\ count_num' = CountNum(Esets[ei])
    /\ phase' = "prepare"
    /\ UNCHANGED <<ei, subset, skip, numThreads, spawned, mainTodo, workerVars,
                   statistics, singleDS, rated>>

PrepareCollection ==
    /\ phase = "prepare"
    /\ subset' = Subsets(Esets[ei])
    /\ skip' = SkipFlags(subset')
    /\ statistics' = Allocated(subset')
    /\ singleDS' = [m \in count_num |-> 0]
    /\ numThreads' = IF Len(subset') < CollectParallel
                     THEN Len(subset') ELSE CollectParallel
    /\ pc' = [t \in 1..numThreads' |-> "head"]
    /\ pos' = [t \in 1..numThreads' |-> FirstPosition(t)]
    /\ todo' = [t \in 1..numThreads' |-> {}]
    \* a worker's copy before it has read anything: any value will do
    /\ loaded' = [t \in 1..numThreads' |-> singleDS']
    /\ spawned' = 0
    /\ mainTodo' = count_num
    /\ phase' = "work"
    /\ UNCHANGED <<ei, count_num, rated>>

SpawnThread ==
    /\ phase = "work"
    /\ spawned < numThreads
    /\ spawned' = spawned + 1
    /\ UNCHANGED <<phase, ei, count_num, subset, skip, numThreads, workerVars,
                   mainTodo, statistics, singleDS, rated>>

AddDegreeForSingleDS ==
    /\ phase = "work"
    /\ spawned = numThreads
    /\ mainTodo # {}
    /\ LET m == CHOOSE x \in mainTodo : TRUE
       IN  /\ singleDS' = [singleDS EXCEPT ![m] = @ + 1]
           /\ mainTodo' = mainTodo \ {m}
    /\ UNCHANGED <<phase, ei, count_num, subset, skip, numThreads, spawned,
                   workerVars, statistics, rated>>

\* The thread has been started and is at pc.
At(t, l) == phase = "work" /\ t <= spawned /\ pc[t] = l

\* The summary a worker inside the inner loop is adding to.
Target(t) == subset[pos[t]]

\* A mutant of Stride: consecutive positions.
UnitStride == 1

\* The step of the loop over the subsets.
Stride == numThreads

\* A mutant of SkipSubset: the loop variable is not advanced.
SkipSubsetStuck(t) ==
    /\ At(t, "head")
    /\ pos[t] \in DOMAIN subset
    /\ skip[pos[t]]
    /\ UNCHANGED vars

SkipSubset(t) ==
    /\ At(t, "head")
    /\ pos[t] \in DOMAIN subset
    /\ skip[pos[t]]
    /\ pos' = [pos EXCEPT ![t] = @ + Stride]
    /\ UNCHANGED <<mainVars, pc, todo, loaded, statistics>>

EnterSubset(t) ==
    /\ At(t, "head")
    /\ pos[t] \in DOMAIN subset
    /\ ~skip[pos[t]]
    /\ pc' = [pc EXCEPT ![t] = "pairs"]
    /\ todo' = [todo EXCEPT ![t] = count_num]
    /\ UNCHANGED <<mainVars, pos, loaded, statistics>>

LoadStatistic(t) ==
    /\ At(t, "pairs")
    /\ todo[t] # {}
    /\ pc' = [pc EXCEPT ![t] = "loaded"]
    /\ loaded' = [loaded EXCEPT ![t] = statistics[Target(t)].added]
    /\ UNCHANGED <<mainVars, pos, todo, statistics>>

StoreStatistic(t) ==
    /\ At(t, "loaded")
    /\ LET m == CHOOSE x \in todo[t] : TRUE
       IN  /\ statistics' = [statistics EXCEPT ![Target(t)].added =
                                [loaded[t] EXCEPT ![m] = @ + 1]]
           /\ todo' = [todo EXCEPT ![t] = @ \ {m}]
    /\ pc' = [pc EXCEPT ![t] = "pairs"]
    /\ UNCHANGED <<mainVars, pos, loaded>>

NextSubset(t) ==
    /\ At(t, "pairs")
    /\ todo[t] = {}
    /\ pc' = [pc EXCEPT ![t] = "head"]
    /\ pos' = [pos EXCEPT ![t] = @ + Stride]
    /\ UNCHANGED <<mainVars, todo, loaded, statistics>>

ExitThread(t) ==
    /\ At(t, "head")
    /\ pos[t] \notin DOMAIN subset
    /\ pc' = [pc EXCEPT ![t] = "done"]
    /\ UNCHANGED <<mainVars, pos, todo, loaded, statistics>>

\* A mutant of Joined: the main thread does not wait for the workers.
JoinedNobody == phase = "work" /\ spawned = numThreads /\ mainTodo = {}

\* thread.join() has returned for every thread.
Joined ==
    /\ phase = "work"
    /\ spawned = numThreads
    /\ mainTodo = {}
    /\ \A t \in 1..numThreads : pc[t] = "done"

\* A mutant of Collected: the summaries of single tables are left out.
CollectedJoins ==
    {subset[i] : i \in {j \in DOMAIN subset : ~skip[j] /\ Cardinality(subset[j]) > 1}}

Collected == {subset[i] : i \in {j \in DOMAIN subset : ~skip[j]}}

(***************************************************************************)
(* FinishCollection after the join.  Each new subset of two or more        *)
(* columns is considered for the adjust rate; the value is not modelled.   *)
(***************************************************************************)
FinishCollection ==
    /\ Joined
    /\ statistics' =
          [k \in DOMAIN statistics |->
              IF k \in Collected
              THEN [statistics[k] EXCEPT !.finished = TRUE]
              ELSE statistics[k]]
    /\ rated' = rated \cup {k \in Collected : Cardinality(k) > 1}
    /\ ei' = ei + 1
    /\ phase' = "query"
    /\ UNCHANGED <<count_num, subset, skip, numThreads, spawned, workerVars,
                   mainTodo, singleDS>>

\* CalcAdjustRate and the write of the statistics file.
CalcAdjustRate ==
    /\ phase = "query"
    /\ ei \notin DOMAIN Esets
    /\ phase' = "done"
    /\ UNCHANGED <<ei, count_num, subset, skip, numThreads, spawned, workerVars,
                   mainTodo, statistics, singleDS, rated>>

Terminated == phase = "done" /\ UNCHANGED vars

MainStep == \/ QueryCountNum
            \/ PrepareCollection
            \/ SpawnThread
            \/ AddDegreeForSingleDS
            \/ FinishCollection
            \/ CalcAdjustRate

WorkerStep(t) == \/ SkipSubset(t)
                 \/ EnterSubset(t)
                 \/ LoadStatistic(t)
                 \/ StoreStatistic(t)
                 \/ NextSubset(t)
                 \/ ExitThread(t)

Next == MainStep \/ (\E t \in 1..numThreads : WorkerStep(t)) \/ Terminated

Fairness == /\ WF_vars(MainStep)
            /\ \A t \in 1..CollectParallel :
                  WF_vars(t <= numThreads /\ WorkerStep(t))

Spec == Init /\ [][Next]_vars
FairSpec == Spec /\ Fairness
-----------------------------------------------------------------------------
\* A mutant of Card: the frequency of the count vector is left out.
CardWithoutFrequency(k) ==
    MapThenSumSet(LAMBDA m : statistics[k].added[m]
                             * FoldSet(LAMBDA e, p : m[EntryTable(e)] * p, 1, k),
                  DOMAIN statistics[k].added)

(***************************************************************************)
(* DSStatistic::card: each addition of m, once per key value with these    *)
(* counts, adds the product of m over GetTableList (one factor per entry,  *)
(* so a table with two columns in k counts twice).                         *)
(***************************************************************************)
Card(k) ==
    MapThenSumSet(LAMBDA m : statistics[k].added[m]
                             * Frequency(Esets[statistics[k].from], m)
                             * FoldSet(LAMBDA e, p : m[EntryTable(e)] * p, 1, k),
                  DOMAIN statistics[k].added)

\* The summaries GetStatisticsFromEset reads for a star of a query.
Lookup(E) == IF EnableStarSplit THEN Split(E, MaxStarSize) ELSE {Collapse(E)}
-----------------------------------------------------------------------------
(***************************************************************************)
(* Type invariant of the collection state.                                 *)
(***************************************************************************)
Statistic(i) ==
    [from : {i}, added : [CountNum(Esets[i]) -> Nat], finished : BOOLEAN]

TypeOK ==
    /\ phase \in {"query", "prepare", "work", "done"}
    /\ ei \in Nat \ {0}
    /\ subset \in Seq(Key)
    /\ DOMAIN skip = DOMAIN subset /\ \A i \in DOMAIN skip : skip[i] \in BOOLEAN
    /\ numThreads \in 0..CollectParallel
    /\ spawned \in 0..numThreads
    /\ rated \subseteq DOMAIN statistics
    /\ DOMAIN statistics \subseteq Key
    /\ \A k \in DOMAIN statistics :
          \E i \in DOMAIN Esets : statistics[k] \in Statistic(i)
    /\ phase \in {"prepare", "work"} =>
          ei \in DOMAIN Esets /\ count_num = CountNum(Esets[ei])
    /\ phase = "work" =>
          /\ pc \in [1..numThreads -> {"head", "pairs", "loaded", "done"}]
          /\ pos \in [1..numThreads -> Nat \ {0}]
          /\ todo \in [1..numThreads -> SUBSET count_num]
          /\ loaded \in [1..numThreads -> [count_num -> Nat]]
          /\ singleDS \in [count_num -> Nat]
          /\ mainTodo \subseteq count_num

(***************************************************************************)
(* No data race: two workers are never inside AddDegree of the same        *)
(* summary, although positions of subset repeat the one-table subsets and  *)
(* nothing is locked (main.cpp:180-198).                                   *)
(***************************************************************************)
Adding(t) == At(t, "pairs") \/ At(t, "loaded")

NoDataRace ==
    \A t, u \in 1..numThreads :
        t # u /\ Adding(t) /\ Adding(u) => Target(t) # Target(u)

(***************************************************************************)
(* A closed summary has absorbed every element of count_num exactly once:  *)
(* none is lost to another thread, to the stride over the subsets or to    *)
(* closing early, and none is added again for a later equal set.           *)
(***************************************************************************)
ExactlyOnce ==
    \A k \in DOMAIN statistics : statistics[k].finished =>
        \A m \in DOMAIN statistics[k].added : statistics[k].added[m] = 1

\* The size of the join of the columns.
RealCard(columns) ==
    MapThenSumSet(LAMBDA v : FoldSet(LAMBDA e, p : Freq[e][v] * p, 1, columns),
                  Value)

\* The columns a summary stands for: those of its key, or its table's only
\* column in the equal set it was collected from.
KeyColumns(k) ==
    IF \A e \in k : e[2] # NoColumn THEN k
    ELSE {e \in Esets[statistics[k].from] : EntryTable(e) \in TablesOf(k)}

OneColumnEach(E) == \A e, f \in E : EntryTable(e) = EntryTable(f) => e = f

(***************************************************************************)
(* The cardinality of a closed summary is the size of the join of its      *)
(* columns (for one table, its rows with a key in the equal set that came  *)
(* first), if no table has two columns in the equal set it was collected   *)
(* from, whatever the other equal sets are (DSStatistic::AddDegree).       *)
(***************************************************************************)
ExactCard ==
    \A k \in DOMAIN statistics :
        /\ statistics[k].finished /\ k # {}
        /\ OneColumnEach(Esets[statistics[k].from])
        => Card(k) = RealCard(KeyColumns(k))

(***************************************************************************)
(* "capture exact cross-table alignment over a shared join key": the same  *)
(* of every closed summary for which the join is determined.               *)
(***************************************************************************)
ExactAlignment ==
    \A k \in DOMAIN statistics :
        /\ statistics[k].finished /\ k # {}
        /\ Cardinality(KeyColumns(k)) = Cardinality(k)
        => Card(k) = RealCard(KeyColumns(k))

(***************************************************************************)
(* When collection ends, whatever sub-star of the schema a query asks for  *)
(* finds all its summaries, whole or cut by Split: GetStatisticsFromEset   *)
(* does not throw for a star of the schema it was collected from.          *)
(***************************************************************************)
StarsCovered ==
    phase = "done" =>
        \A i \in DOMAIN Esets : \A Q \in (SUBSET Esets[i]) \ {{}} :
            \A k \in Lookup(Q) :
                k \in DOMAIN statistics /\ statistics[k].finished

(***************************************************************************)
(* A closed summary is never touched again, by the collection of a later   *)
(* equal set that contains the same subset.                                *)
(***************************************************************************)
ClosedStaysClosed ==
    [][\A k \in DOMAIN statistics : statistics[k].finished =>
          k \in DOMAIN statistics' /\ statistics'[k] = statistics[k]]_vars

(***************************************************************************)
(* The threads of CollectStatistics, which add count vectors one by one to *)
(* summaries that are already in the map, implement a collection that      *)
(* takes each equal set in one step: what is closed is complete, appears   *)
(* all at once with the equal set it belongs to, and never changes.        *)
(***************************************************************************)
Closed == {k \in DOMAIN statistics : statistics[k].finished}

Sequential == INSTANCE SequentialCollect WITH
    Sets <- DOMAIN Esets,
    SubsetsOf <- [i \in DOMAIN Esets |->
                     LET list == Subsets(Esets[i]) IN {list[j] : j \in DOMAIN list}],
    VectorsOf <- [i \in DOMAIN Esets |-> CountNum(Esets[i])],
    known <- [k \in Closed |-> [from |-> statistics[k].from,
                                added |-> statistics[k].added]],
    next <- ei,
    ended <- phase = "done"

CollectsSequentially == Sequential!Spec

(***************************************************************************)
(* Collection ends: the main thread never waits for a thread that waits    *)
(* for it, and the strided loops all leave the subset list.                *)
(***************************************************************************)
CollectionEnds == <>(phase = "done")
-----------------------------------------------------------------------------
(***************************************************************************)
(* The inductive invariant behind NoDataRace and ExactlyOnce.  Worker t    *)
(* owns the positions t, t + n, t + 2n, ... and is always at one of them.  *)
(***************************************************************************)
Owns(t, i) == \E r \in Nat : i = t + r * numThreads

\* What the owner t of position i still has to add to its summary.
Left(t, i) == IF pos[t] < i THEN count_num
              ELSE IF pos[t] > i THEN {}
              ELSE IF pc[t] \in {"pairs", "loaded"} THEN todo[t]
              ELSE count_num

\* Positions that share a summary are skipped, all but one of them.
PositionsOK ==
    /\ DOMAIN subset # {} => numThreads # 0
    /\ \A i, j \in DOMAIN subset :
          i # j /\ subset[i] = subset[j] => skip[i] \/ skip[j]
    /\ \A i \in DOMAIN subset :
          /\ subset[i] \in DOMAIN statistics
          /\ ~skip[i] => /\ statistics[subset[i]].from = ei
                         /\ ~statistics[subset[i]].finished

WorkersOK ==
    \A t \in 1..numThreads :
        /\ Owns(t, pos[t])
        /\ pc[t] # "head" => t <= spawned
        /\ pc[t] \in {"pairs", "loaded"} =>
              pos[t] \in DOMAIN subset /\ ~skip[pos[t]]
        /\ pc[t] = "loaded" => /\ todo[t] # {}
                               /\ loaded[t] = statistics[Target(t)].added
        /\ pc[t] = "done" => pos[t] \notin DOMAIN subset

ProgressOK ==
    \A t \in 1..numThreads : \A i \in DOMAIN subset :
        Owns(t, i) /\ ~skip[i] =>
            \A m \in count_num :
                statistics[subset[i]].added[m] = IF m \in Left(t, i) THEN 0 ELSE 1

(***************************************************************************)
(* Between equal sets every summary is closed; while the workers run, only *)
(* those the current equal set allocated are open.                         *)
(***************************************************************************)
ClosedBetween ==
    IF phase = "work"
    THEN /\ subset = Subsets(Esets[ei])
         /\ \A k \in DOMAIN statistics : statistics[k].finished \/ k \in Collected
    ELSE \A k \in DOMAIN statistics : statistics[k].finished

SubsetsListed(E) == {Subsets(E)[j] : j \in DOMAIN Subsets(E)}

\* A summary is that of a subset of the equal set it was collected from.
KeysListed ==
    \A k \in DOMAIN statistics :
        /\ statistics[k].from \in DOMAIN Esets
        /\ k \in SubsetsListed(Esets[statistics[k].from])

(***************************************************************************)
(* The equal sets passed so far are covered, and at the end that is all of *)
(* them.                                                                   *)
(***************************************************************************)
PassedCovered ==
    /\ \A i \in DOMAIN Esets : i < ei => SubsetsListed(Esets[i]) \subseteq Closed
    /\ phase = "done" => ei \notin DOMAIN Esets

CollectInv ==
    /\ TypeOK
    /\ phase = "work" => PositionsOK /\ WorkersOK /\ ProgressOK
    /\ ExactlyOnce
=============================================================================

--------------------------- MODULE CollectProofs ---------------------------
(***************************************************************************)
(* Proofs about Collect, for every schema, database and number of threads. *)
(***************************************************************************)
EXTENDS Collect, EqualSetProofs, FiniteSetTheorems, TLAPS

(***************************************************************************)
(* The arithmetic of the strided loops (main.cpp:185): every position has  *)
(* an owner, positions of different workers differ, and a worker behind a  *)
(* position of its own does not jump over it.                              *)
(***************************************************************************)
LEMMA MulMonotone ==
    ASSUME NEW n \in Nat, NEW r \in Nat, NEW q \in Nat, r < q
    PROVE  r * n + n <= q * n
<1>1. PICK d \in Nat : q = (r + 1) + d
  <2>1. q - (r + 1) \in Nat /\ q = (r + 1) + (q - (r + 1))
    OBVIOUS
  <2> QED BY <2>1
<1>2. q * n = (r + 1) * n + d * n
  BY <1>1, Z3
<1>3. d * n >= 0 /\ d * n \in Int
  BY Z3
<1>4. (r + 1) * n = r * n + n
  BY Z3
<1> QED BY <1>2, <1>3, <1>4

\* A product of naturals is a natural.
LEMMA MulNat ==
    ASSUME NEW n \in Nat, NEW r \in Nat
    PROVE  r * n \in Nat
BY Z3

\* A position a worker owns is not below its first one.
LEMMA OwnedAbove ==
    ASSUME NEW n \in Nat, NEW t \in Nat, NEW r \in Nat, NEW i, i = t + r * n
    PROVE  i \in Nat /\ t <= i
<1>1. r * n \in Nat
  BY MulNat
<1> QED BY <1>1

\* A position has one owner: the strides of two workers never meet.
LEMMA OwnersDiffer ==
    ASSUME NEW n \in Nat, NEW t \in 1..n, NEW u \in 1..n,
           NEW r \in Nat, NEW q \in Nat, t + r * n = u + q * n
    PROVE  t = u
<1>1. r * n \in Nat /\ q * n \in Nat
  OBVIOUS
<1>2. CASE r = q
  BY <1>1, <1>2
<1>3. CASE r < q
  BY <1>1, <1>3, MulMonotone
<1>4. CASE q < r
  BY <1>1, <1>4, MulMonotone
<1> QED BY <1>2, <1>3, <1>4

\* A worker behind a position of its own does not jump over it.
LEMMA NoJump ==
    ASSUME NEW n \in Nat, NEW t \in Nat, NEW r \in Nat, NEW q \in Nat,
           t + r * n < t + q * n
    PROVE  (t + r * n) + n <= t + q * n
<1>1. r * n \in Nat /\ q * n \in Nat
  OBVIOUS
<1>2. CASE r < q
  BY <1>1, <1>2, MulMonotone
<1>3. CASE r = q
  BY <1>1, <1>3
<1>4. CASE q < r
  BY <1>1, <1>4, MulMonotone
<1> QED BY <1>2, <1>3, <1>4

\* A worker owns the position it starts at.
LEMMA OwnsFirst ==
    ASSUME NEW n \in Nat, NEW t \in Nat
    PROVE  \E r \in Nat : t = t + r * n
<1>1. 0 * n = 0
  OBVIOUS
<1>2. t = t + 0 * n
  BY <1>1
<1> QED BY <1>2

\* Every position has an owner: no subset is left out of the strides.
LEMMA OwnerExists ==
    ASSUME NEW n \in Nat \ {0}, NEW i \in Nat \ {0}
    PROVE  \E t \in 1..n : \E r \in Nat : i = t + r * n
<1> DEFINE q == (i - 1) \div n
           m == (i - 1) % n
<1>1. q \in Nat /\ m \in 0..(n - 1)
  BY Z3
<1>2. i - 1 = n * q + m
  BY Z3
<1>3. i = (m + 1) + q * n /\ m + 1 \in 1..n
  BY <1>1, <1>2, Z3
<1> QED BY <1>1, <1>3
-----------------------------------------------------------------------------
(***************************************************************************)
(* The subset lists of an equal set are sequences of keys.                 *)
(***************************************************************************)
LEMMA CollapseType ==
    ASSUME NEW E \in Key
    PROVE  Collapse(E) \in Key
BY DEF Collapse, Key, TablesOf, EntryTable, NoColumn

\* A collapsed subset of an equal set is a key of statistics.
LEMMA MaskedType ==
    ASSUME NEW E \in Key, NEW s
    PROVE  Collapse(Masked(E, s)) \in Key
<1>1. Masked(E, s) \in Key
  BY DEF Masked, Key
<1> QED BY <1>1, CollapseType

\* PrepareCollection lists finitely many keys.
LEMMA SubsetsType ==
    ASSUME NEW i \in DOMAIN Esets
    PROVE  Subsets(Esets[i]) \in Seq(Key)
<1> DEFINE E == Esets[i]
<1>1. E \in Key /\ IsFiniteSet(E)
  BY EsetsAssumption
<1> HIDE DEF E
<1>2. NumMasks(E) \in Nat
  BY <1>1, FS_SUBSET, FS_CardinalityType DEF NumMasks
<1>3. GetAllSubset(E) \in Seq(Key)
  BY <1>1, <1>2, MaskedType DEF GetAllSubset
<1>4. ASSUME NEW kept \in SUBSET (0..(NumMasks(E) - 1))
      PROVE  KeptSubsets(E, kept) \in Seq(Key)
  <2>1. IsFiniteSet(0..(NumMasks(E) - 1))
    BY <1>2, FS_Interval
  <2>2. IsFiniteSet(kept)
    BY <2>1, FS_Subset
  <2>3. Cardinality(kept) \in Nat
    BY <2>2, FS_CardinalityType
  <2>4. PICK masks : masks = Ascending(kept)
    OBVIOUS
  <2>5. DOMAIN masks = 1..Cardinality(kept)
    BY <2>4 DEF Ascending
  <2>6. \A j \in DOMAIN masks : Collapse(Masked(E, masks[j])) \in Key
    BY <1>1, MaskedType
  <2>7. [j \in DOMAIN masks |-> Collapse(Masked(E, masks[j]))] \in Seq(Key)
    BY <2>3, <2>5, <2>6
  <2> QED BY <2>4, <2>7 DEF KeptSubsets
<1>5. GetAllSubsetLimitSize(E, MaxStarSize) \in Seq(Key)
  <2> DEFINE kept == {s \in 0..(NumMasks(E) - 1) :
                         Cardinality(Masked(E, s)) <= MaxStarSize}
  <2>1. kept \in SUBSET (0..(NumMasks(E) - 1))
    OBVIOUS
  <2>2. KeptSubsets(E, kept) \in Seq(Key)
    BY <2>1, <1>4
  <2> QED BY <2>2 DEF GetAllSubsetLimitSize
<1> QED BY <1>3, <1>5 DEF Subsets, E
-----------------------------------------------------------------------------
\* Nothing has been collected yet.
LEMMA InitInv == Init => CollectInv
BY ParallelAssumption
   DEF Init, CollectInv, TypeOK, ExactlyOnce, Key

\* The steps that leave the workers' part of the state alone.
LEMMA QueryInv == CollectInv /\ QueryCountNum => CollectInv'
BY DEF CollectInv, TypeOK, ExactlyOnce, QueryCountNum, workerVars, Statistic

\* CalcAdjustRate leaves the summaries alone.
LEMMA CalcInv == CollectInv /\ CalcAdjustRate => CollectInv'
BY DEF CollectInv, TypeOK, ExactlyOnce, CalcAdjustRate, workerVars, Statistic

\* A step that changes nothing.
LEMMA StutterInv == CollectInv /\ UNCHANGED vars => CollectInv'
<1> SUFFICES ASSUME CollectInv, UNCHANGED vars PROVE CollectInv'
  OBVIOUS
<1>1. TypeOK' /\ ExactlyOnce'
  BY DEF CollectInv, TypeOK, ExactlyOnce, vars, mainVars, workerVars, Statistic
<1>2. phase' = "work" => PositionsOK' /\ WorkersOK'
  BY DEF CollectInv, vars, mainVars, workerVars, PositionsOK, WorkersOK, Owns, Target
<1>3. phase' = "work" => ProgressOK'
  BY DEF CollectInv, vars, mainVars, workerVars, ProgressOK, Owns, Left
<1> QED BY <1>1, <1>2, <1>3 DEF CollectInv

\* PrepareCollection gives every position that is not skipped a new summary.
LEMMA PrepareInv == CollectInv /\ PrepareCollection => CollectInv'
<1> SUFFICES ASSUME CollectInv, PrepareCollection PROVE CollectInv'
  OBVIOUS
<1>a. /\ subset' = Subsets(Esets[ei])
      /\ skip' = SkipFlags(subset')
      /\ numThreads' = IF Len(subset') < CollectParallel
                       THEN Len(subset') ELSE CollectParallel
      /\ pc' = [t \in 1..numThreads' |-> "head"]
      /\ pos' = [t \in 1..numThreads' |-> t]
      /\ todo' = [t \in 1..numThreads' |-> {}]
      /\ singleDS' = [m \in count_num |-> 0]
      /\ loaded' = [t \in 1..numThreads' |-> singleDS']
      /\ spawned' = 0 /\ mainTodo' = count_num
  BY DEF PrepareCollection, Allocated, FirstPosition
<1>0. ei \in DOMAIN Esets /\ count_num = CountNum(Esets[ei])
  BY DEF CollectInv, TypeOK, PrepareCollection, Allocated
<1>1. subset' \in Seq(Key) /\ Len(subset') \in Nat /\ DOMAIN subset' = 1..Len(subset')
  BY <1>0, <1>a, SubsetsType
<1>2. /\ numThreads' \in 0..CollectParallel /\ numThreads' <= Len(subset')
      /\ numThreads' \in Nat
  BY <1>1, <1>a, ParallelAssumption
<1>3. /\ DOMAIN skip' = DOMAIN subset'
      /\ \A i \in DOMAIN subset' :
            skip'[i] <=> \/ subset'[i] \in DOMAIN statistics
                        \/ \E j \in DOMAIN subset' : j < i /\ subset'[j] = subset'[i]
      /\ \A i \in DOMAIN skip' : skip'[i] \in BOOLEAN
  BY <1>a DEF SkipFlags
<1>4. \A i \in DOMAIN subset' : ~skip'[i] => subset'[i] \notin DOMAIN statistics
  BY <1>3
<1>5. /\ NewStatistic \in Statistic(ei)
      /\ ~NewStatistic.finished /\ NewStatistic.from = ei
      /\ \A m \in count_num : NewStatistic.added[m] = 0
  BY <1>0 DEF NewStatistic, Statistic
<1>6. /\ DOMAIN statistics' = DOMAIN statistics \cup {subset'[i] : i \in DOMAIN subset'}
      /\ \A k \in DOMAIN statistics : statistics'[k] = statistics[k]
      /\ \A k \in DOMAIN statistics' : k \notin DOMAIN statistics => statistics'[k] = NewStatistic
  BY DEF PrepareCollection, Allocated
<1>7. phase' = "work" /\ ei' = ei /\ count_num' = count_num /\ rated' = rated
  BY DEF PrepareCollection, Allocated
<1>8. TypeOK'
  <2>1. DOMAIN statistics' \subseteq Key /\ rated' \subseteq DOMAIN statistics'
    BY <1>1, <1>6, <1>7 DEF CollectInv, TypeOK
  <2>2. \A k \in DOMAIN statistics' : \E i \in DOMAIN Esets : statistics'[k] \in Statistic(i)
    BY <1>0, <1>5, <1>6 DEF CollectInv, TypeOK
  <2>3. spawned' \in 0..numThreads'
    BY <1>2, <1>a
  <2>4. /\ singleDS' \in [count_num' -> Nat]
        /\ loaded' \in [1..numThreads' -> [count_num' -> Nat]]
        /\ todo' \in [1..numThreads' -> SUBSET count_num']
        /\ mainTodo' \subseteq count_num'
    BY <1>a, <1>7
  <2>5. /\ pc' \in [1..numThreads' -> {"head", "pairs", "loaded", "done"}]
        /\ pos' \in [1..numThreads' -> Nat \ {0}]
    BY <1>a, <1>2
  <2> QED BY <1>0, <1>1, <1>2, <1>3, <1>7, <2>1, <2>2, <2>3, <2>4, <2>5
          DEF TypeOK, CollectInv, Statistic
<1>9. PositionsOK'
  <2>1. ASSUME NEW i \in DOMAIN subset', NEW j \in DOMAIN subset',
               i # j, subset'[i] = subset'[j]
        PROVE  skip'[i] \/ skip'[j]
    BY <1>1, <1>3, <2>1
  <2>2. DOMAIN subset' # {} => numThreads' # 0
    BY <1>1, <1>a, ParallelAssumption
  <2> QED BY <1>3, <1>4, <1>5, <1>6, <1>7, <2>1, <2>2 DEF PositionsOK
<1>10. WorkersOK'
  <2> SUFFICES ASSUME NEW t \in 1..numThreads'
               PROVE  pc'[t] = "head" /\ Owns(t, pos[t])'
    BY DEF WorkersOK
  <2>1. pc'[t] = "head" /\ pos'[t] = t /\ t \in Nat
    BY <1>a, <1>2
  <2>2. \E r \in Nat : t = t + r * numThreads'
    BY <1>2, <2>1, OwnsFirst
  <2> QED BY <2>1, <2>2 DEF Owns
<1>11. ProgressOK'
  <2> SUFFICES ASSUME NEW t \in 1..numThreads', NEW i \in DOMAIN subset',
                      Owns(t, i)', ~skip'[i], NEW m \in count_num'
               PROVE  /\ statistics'[subset'[i]].added[m] = 0
                      /\ Left(t, i)' = count_num'
    BY DEF ProgressOK
  <2>1. statistics'[subset'[i]] = NewStatistic
    BY <1>4, <1>6
  <2>2. NewStatistic.added[m] = 0
    BY <1>5, <1>7
  <2>3. pc'[t] = "head" /\ pos'[t] = t
    BY <1>a
  <2>4. PICK r \in Nat : i = t + r * numThreads'
    BY DEF Owns
  <2>5. t <= i /\ i \in Nat
    <3>1. t \in Nat
      BY <1>2
    <3> QED BY <1>2, <2>4, <3>1, OwnedAbove
  <2> QED BY <2>1, <2>2, <2>3, <2>5, <1>2 DEF Left
<1>12. ExactlyOnce'
  BY <1>5, <1>6 DEF ExactlyOnce, CollectInv
<1> QED BY <1>7, <1>8, <1>9, <1>10, <1>11, <1>12 DEF CollectInv

\* The main thread's steps beside the workers.
LEMMA SpawnInv == CollectInv /\ SpawnThread => CollectInv'
<1> SUFFICES ASSUME CollectInv, SpawnThread PROVE CollectInv'
  OBVIOUS
<1>1. /\ phase' = phase /\ phase = "work" /\ spawned' = spawned + 1
      /\ spawned < numThreads
      /\ UNCHANGED <<ei, count_num, subset, skip, numThreads, pc, pos, todo,
                     loaded, mainTodo, statistics, singleDS, rated>>
  BY DEF SpawnThread, workerVars
<1>2. TypeOK' /\ ExactlyOnce'
  BY <1>1, ParallelAssumption DEF CollectInv, TypeOK, ExactlyOnce, Statistic
<1>3. PositionsOK' /\ ProgressOK'
  BY <1>1 DEF CollectInv, PositionsOK, ProgressOK, Owns, Left
<1>4. WorkersOK'
  <2>1. spawned \in Nat /\ \A t \in 1..numThreads : t <= spawned => t <= spawned + 1
    BY ParallelAssumption DEF CollectInv, TypeOK
  <2> QED BY <1>1, <2>1 DEF CollectInv, WorkersOK, Owns, Target
<1> QED BY <1>2, <1>3, <1>4 DEF CollectInv

\* The main thread touches no summary while the workers run.
LEMMA SingleInv == CollectInv /\ AddDegreeForSingleDS => CollectInv'
<1> SUFFICES ASSUME CollectInv, AddDegreeForSingleDS PROVE CollectInv'
  OBVIOUS
<1> DEFINE m == CHOOSE x \in mainTodo : TRUE
<1>1. /\ phase' = phase /\ phase = "work" /\ mainTodo # {}
      /\ singleDS' = [singleDS EXCEPT ![m] = @ + 1]
      /\ mainTodo' = mainTodo \ {m}
      /\ UNCHANGED <<ei, count_num, subset, skip, numThreads, spawned, pc, pos,
                     todo, loaded, statistics, rated>>
  BY DEF AddDegreeForSingleDS, workerVars
<1>2. m \in mainTodo
  BY <1>1
<1> HIDE DEF m
<1>3. singleDS' \in [count_num -> Nat] /\ mainTodo' \subseteq count_num
  BY <1>1, <1>2 DEF CollectInv, TypeOK
<1>4. TypeOK' /\ ExactlyOnce'
  BY <1>1, <1>3 DEF CollectInv, TypeOK, ExactlyOnce, Statistic
<1>5. PositionsOK' /\ ProgressOK' /\ WorkersOK'
  BY <1>1 DEF CollectInv, PositionsOK, ProgressOK, WorkersOK, Owns, Left, Target
<1> QED BY <1>4, <1>5 DEF CollectInv

\* When the workers have been joined, what they collected is complete.
LEMMA AddedOnJoin ==
    ASSUME CollectInv, Joined, NEW k \in Collected
    PROVE  \A m \in DOMAIN statistics[k].added : statistics[k].added[m] = 1
<1>1. phase = "work" /\ \A t \in 1..numThreads : pc[t] = "done"
  BY DEF Joined
<1>2. PICK i \in DOMAIN subset : ~skip[i] /\ k = subset[i]
  BY DEF Collected
<1>3. subset \in Seq(Key) /\ numThreads \in Nat /\ spawned \in Nat
  BY ParallelAssumption DEF CollectInv, TypeOK
<1>4. i \in Nat \ {0} /\ i <= Len(subset) /\ DOMAIN subset = 1..Len(subset)
  BY <1>3
<1>5. numThreads \in Nat \ {0}
  BY <1>1, <1>2, <1>3 DEF CollectInv, PositionsOK
<1>6. PICK t \in 1..numThreads : Owns(t, i)
  BY <1>4, <1>5, OwnerExists DEF Owns
<1>7. pos[t] \in Nat \ {0} /\ pos[t] \notin DOMAIN subset
  BY <1>1 DEF CollectInv, TypeOK, WorkersOK
<1>8. pos[t] > i /\ ~(pos[t] < i)
  BY <1>4, <1>7
<1>9. Left(t, i) = {}
  BY <1>8 DEF Left
<1>10. \A m \in count_num : statistics[k].added[m] = 1
  BY <1>1, <1>2, <1>6, <1>9 DEF CollectInv, ProgressOK
<1>11. DOMAIN statistics[k].added = count_num
  <2>1. statistics[k].from = ei /\ k \in DOMAIN statistics
    BY <1>1, <1>2 DEF CollectInv, PositionsOK
  <2>2. PICK e \in DOMAIN Esets : statistics[k] \in Statistic(e)
    BY <2>1 DEF CollectInv, TypeOK
  <2>3. e = ei /\ DOMAIN statistics[k].added = CountNum(Esets[e])
    BY <2>1, <2>2 DEF Statistic
  <2> QED BY <1>1, <2>3 DEF CollectInv, TypeOK
<1> QED BY <1>10, <1>11

(***************************************************************************)
(* FinishCollection closes summaries whose owner has passed their position.*)
(***************************************************************************)
LEMMA FinishInv == CollectInv /\ FinishCollection => CollectInv'
<1> SUFFICES ASSUME CollectInv, FinishCollection PROVE CollectInv'
  OBVIOUS
<1>1. /\ phase = "work" /\ phase' = "query" /\ ei' = ei + 1
      /\ UNCHANGED <<count_num, subset, skip, numThreads, spawned, pc, pos,
                     todo, loaded, mainTodo, singleDS>>
      /\ rated' = rated \cup {k \in Collected : Cardinality(k) > 1}
      /\ \A t \in 1..numThreads : pc[t] = "done"
  BY DEF FinishCollection, Joined, workerVars
<1>2. /\ DOMAIN statistics' = DOMAIN statistics
      /\ \A k \in DOMAIN statistics :
            statistics'[k] = IF k \in Collected
                             THEN [statistics[k] EXCEPT !.finished = TRUE]
                             ELSE statistics[k]
  BY DEF FinishCollection
<1>3. Collected \subseteq DOMAIN statistics
  BY <1>1 DEF Collected, CollectInv, PositionsOK
<1>4. \A k \in DOMAIN statistics : \E i \in DOMAIN Esets : statistics'[k] \in Statistic(i)
  <2> SUFFICES ASSUME NEW k \in DOMAIN statistics
               PROVE  \E i \in DOMAIN Esets : statistics'[k] \in Statistic(i)
    OBVIOUS
  <2>1. PICK i \in DOMAIN Esets : statistics[k] \in Statistic(i)
    BY DEF CollectInv, TypeOK
  <2>2. [statistics[k] EXCEPT !.finished = TRUE] \in Statistic(i)
    BY <2>1 DEF Statistic
  <2> QED BY <1>2, <2>1, <2>2
<1>5. TypeOK'
  BY <1>1, <1>2, <1>3, <1>4 DEF CollectInv, TypeOK
<1>6. ASSUME NEW k \in Collected
      PROVE  \A m \in DOMAIN statistics[k].added : statistics[k].added[m] = 1
  BY AddedOnJoin DEF FinishCollection
<1>7. ExactlyOnce'
  <2> SUFFICES ASSUME NEW k \in DOMAIN statistics, statistics'[k].finished
               PROVE  \A m \in DOMAIN statistics'[k].added : statistics'[k].added[m] = 1
    BY <1>2 DEF ExactlyOnce
  <2>1. statistics'[k].added = statistics[k].added
    <3>1. PICK i \in DOMAIN Esets : statistics[k] \in Statistic(i)
      BY DEF CollectInv, TypeOK
    <3> QED BY <1>2, <3>1 DEF Statistic
  <2>2. CASE k \in Collected
    BY <1>6, <2>1, <2>2
  <2>3. CASE k \notin Collected
    BY <1>2, <2>3 DEF CollectInv, ExactlyOnce
  <2> QED BY <2>2, <2>3
<1> QED BY <1>1, <1>5, <1>7 DEF CollectInv
-----------------------------------------------------------------------------
\* The summary of a position that is not skipped belongs to this equal set.
LEMMA CurrentAdded ==
    ASSUME CollectInv, phase = "work", NEW i \in DOMAIN subset, ~skip[i]
    PROVE  statistics[subset[i]].added \in [count_num -> Nat]
<1>1. statistics[subset[i]].from = ei /\ subset[i] \in DOMAIN statistics
  BY DEF CollectInv, PositionsOK
<1>2. PICK e \in DOMAIN Esets : statistics[subset[i]] \in Statistic(e)
  BY <1>1 DEF CollectInv, TypeOK
<1>3. e = ei /\ statistics[subset[i]].added \in [CountNum(Esets[e]) -> Nat]
  BY <1>1, <1>2 DEF Statistic
<1> QED BY <1>3 DEF CollectInv, TypeOK

(***************************************************************************)
(* The workers' steps.  mainVars, and for all but one of them statistics,  *)
(* do not change.                                                          *)
(***************************************************************************)
LEMMA OwnersUnique ==
    ASSUME CollectInv, phase = "work",
           NEW t \in 1..numThreads, NEW u \in 1..numThreads, NEW i,
           Owns(t, i), Owns(u, i)
    PROVE  t = u
<1>1. numThreads \in Nat
  BY ParallelAssumption DEF CollectInv, TypeOK
<1>2. PICK r \in Nat : i = t + r * numThreads
  BY DEF Owns
<1>3. PICK q \in Nat : i = u + q * numThreads
  BY DEF Owns
<1> QED BY <1>1, <1>2, <1>3, OwnersDiffer

\* The next position of a worker is again its own.
LEMMA OwnsNext ==
    ASSUME CollectInv, phase = "work", NEW t \in 1..numThreads
    PROVE  Owns(t, pos[t] + numThreads)
<1>1. numThreads \in Nat /\ t \in Nat
  BY ParallelAssumption DEF CollectInv, TypeOK
<1>2. PICK r \in Nat : pos[t] = t + r * numThreads
  BY DEF CollectInv, WorkersOK, Owns
<1>3. (r + 1) * numThreads = r * numThreads + numThreads /\ r * numThreads \in Nat
  BY <1>1, MulNat, Z3
<1>4. pos[t] + numThreads = t + (r + 1) * numThreads
  BY <1>1, <1>2, <1>3
<1>5. r + 1 \in Nat
  OBVIOUS
<1> QED BY <1>4, <1>5 DEF Owns

\* A worker that goes on to its next position keeps what is left elsewhere.
LEMMA LeftAdvance ==
    ASSUME CollectInv, phase = "work", NEW t \in 1..numThreads,
           NEW i \in DOMAIN subset, Owns(t, i), i # pos[t],
           pc'[t] = "head", pos'[t] = pos[t] + numThreads,
           count_num' = count_num
    PROVE  Left(t, i)' = Left(t, i)
<1>1. /\ numThreads \in Nat /\ t \in Nat /\ pos[t] \in Nat
      /\ subset \in Seq(Key)
  BY ParallelAssumption DEF CollectInv, TypeOK
<1>2. i \in Nat
  BY <1>1
<1>3. PICK r \in Nat : pos[t] = t + r * numThreads
  BY DEF CollectInv, WorkersOK, Owns
<1>4. PICK q \in Nat : i = t + q * numThreads
  BY DEF Owns
<1>5. pos[t] < i => pos[t] + numThreads <= i
  BY <1>1, <1>3, <1>4, NoJump
<1>6. CASE pos[t] < i
  <2>1. pos'[t] <= i /\ pos'[t] \in Nat
    BY <1>1, <1>5, <1>6
  <2>2. Left(t, i)' = count_num'
    BY <1>2, <2>1 DEF Left
  <2>3. Left(t, i) = count_num
    BY <1>6 DEF Left
  <2> QED BY <2>2, <2>3
<1>7. CASE pos[t] > i
  <2>1. pos'[t] > i /\ ~(pos'[t] < i)
    BY <1>1, <1>2, <1>7
  <2>2. ~(pos[t] < i)
    BY <1>1, <1>2, <1>7
  <2> QED BY <2>1, <2>2, <1>7 DEF Left
<1> QED BY <1>1, <1>2, <1>6, <1>7

\* A worker that skips a position stays on its own ones.
LEMMA SkipInv ==
    ASSUME CollectInv, NEW t \in 1..numThreads, SkipSubset(t)
    PROVE  CollectInv'
<1>1. /\ phase = "work" /\ pc[t] = "head" /\ skip[pos[t]] /\ mainVars' = mainVars
      /\ pos' = [pos EXCEPT ![t] = @ + numThreads]
      /\ UNCHANGED <<pc, todo, loaded, statistics>>
  BY DEF SkipSubset, At, Stride
<1>2. pos \in [1..numThreads -> Nat \ {0}] /\ numThreads \in Nat
  BY <1>1, ParallelAssumption DEF CollectInv, TypeOK
<1>3. pos' \in [1..numThreads -> Nat \ {0}] /\ pos'[t] = pos[t] + numThreads
  BY <1>1, <1>2
<1>4. TypeOK' /\ ExactlyOnce'
  BY <1>1, <1>3 DEF CollectInv, TypeOK, ExactlyOnce, mainVars, Statistic
<1>5. PositionsOK'
  BY <1>1 DEF CollectInv, PositionsOK, mainVars
<1>6. WorkersOK'
  <2>0. /\ numThreads' = numThreads /\ subset' = subset /\ skip' = skip
        /\ spawned' = spawned /\ statistics' = statistics
        /\ todo' = todo /\ loaded' = loaded /\ WorkersOK
        /\ \A u \in 1..numThreads : Owns(u, pos[u])' <=> Owns(u, pos'[u])
    BY <1>1 DEF mainVars, Owns, CollectInv
  <2> SUFFICES ASSUME NEW u \in 1..numThreads
               PROVE  /\ Owns(u, pos'[u])
                      /\ pc'[u] # "head" => pc'[u] = pc[u] /\ pos'[u] = pos[u]
    BY <2>0 DEF WorkersOK, Target
  <2>1. Owns(t, pos'[t])
    BY <1>1, <1>3, OwnsNext
  <2> QED BY <1>1, <1>2, <2>1 DEF CollectInv, WorkersOK
<1>7. ProgressOK'
  <2>0. /\ numThreads' = numThreads /\ subset' = subset /\ skip' = skip
        /\ count_num' = count_num /\ statistics' = statistics
        /\ \A u, i : Owns(u, i)' <=> Owns(u, i)
    BY <1>1 DEF mainVars, Owns
  <2> SUFFICES ASSUME NEW u \in 1..numThreads, NEW i \in DOMAIN subset,
                      Owns(u, i), ~skip[i]
               PROVE  Left(u, i)' = Left(u, i)
    BY <1>1, <2>0 DEF ProgressOK, CollectInv
  <2>1. CASE u = t
    <3>1. i # pos[t] /\ pc'[t] = "head" /\ count_num' = count_num
      BY <1>1 DEF mainVars
    <3> QED BY <1>1, <1>3, <2>1, <3>1, LeftAdvance
  <2>2. CASE u # t
    BY <1>1, <1>2, <2>2 DEF Left, mainVars
  <2> QED BY <2>1, <2>2
<1> QED BY <1>4, <1>5, <1>6, <1>7 DEF CollectInv

\* A worker leaves a position when it has added everything there.
LEMMA NextSubsetInv ==
    ASSUME CollectInv, NEW t \in 1..numThreads, NextSubset(t)
    PROVE  CollectInv'
<1>1. /\ phase = "work" /\ pc[t] = "pairs" /\ todo[t] = {} /\ mainVars' = mainVars
      /\ pc' = [pc EXCEPT ![t] = "head"]
      /\ pos' = [pos EXCEPT ![t] = @ + numThreads]
      /\ UNCHANGED <<todo, loaded, statistics>>
  BY DEF NextSubset, At, Stride
<1>2. /\ pos \in [1..numThreads -> Nat \ {0}] /\ numThreads \in Nat
      /\ pc \in [1..numThreads -> {"head", "pairs", "loaded", "done"}]
      /\ subset \in Seq(Key)
  BY <1>1, ParallelAssumption DEF CollectInv, TypeOK
<1>3. /\ pos' \in [1..numThreads -> Nat \ {0}] /\ pos'[t] = pos[t] + numThreads
      /\ pc' \in [1..numThreads -> {"head", "pairs", "loaded", "done"}]
      /\ pc'[t] = "head"
      /\ \A u \in 1..numThreads : u # t => pc'[u] = pc[u] /\ pos'[u] = pos[u]
  BY <1>1, <1>2
<1>4. TypeOK' /\ ExactlyOnce'
  BY <1>1, <1>3 DEF CollectInv, TypeOK, ExactlyOnce, mainVars, Statistic
<1>5. PositionsOK'
  BY <1>1 DEF CollectInv, PositionsOK, mainVars
<1>6. WorkersOK'
  <2>0. /\ numThreads' = numThreads /\ subset' = subset /\ skip' = skip
        /\ spawned' = spawned /\ statistics' = statistics
        /\ todo' = todo /\ loaded' = loaded /\ WorkersOK
        /\ \A u \in 1..numThreads : Owns(u, pos[u])' <=> Owns(u, pos'[u])
    BY <1>1 DEF mainVars, Owns, CollectInv
  <2>1. Owns(t, pos'[t])
    BY <1>1, <1>3, OwnsNext
  <2>2. \A u \in 1..numThreads : u # t => Owns(u, pos'[u])
    BY <1>3, <2>0 DEF WorkersOK
  <2> QED BY <1>3, <2>0, <2>1, <2>2 DEF WorkersOK, Target
<1>7. ProgressOK'
  <2>0. /\ numThreads' = numThreads /\ subset' = subset /\ skip' = skip
        /\ count_num' = count_num /\ statistics' = statistics
        /\ \A u, i : Owns(u, i)' <=> Owns(u, i)
    BY <1>1 DEF mainVars, Owns
  <2> SUFFICES ASSUME NEW u \in 1..numThreads, NEW i \in DOMAIN subset,
                      Owns(u, i), ~skip[i]
               PROVE  Left(u, i)' = Left(u, i)
    BY <1>1, <2>0 DEF ProgressOK, CollectInv
  <2>1. CASE u = t /\ i # pos[t]
    BY <1>1, <1>3, <2>0, <2>1, LeftAdvance
  <2>2. CASE u = t /\ i = pos[t]
    <3>1. pos'[t] >= i /\ i \in Nat /\ pos[t] \in Nat
      BY <1>2, <1>3, <2>2
    <3>2. numThreads >= 1
      BY <1>2
    <3>3. pos'[t] > i /\ ~(pos'[t] < i) /\ ~(pos[t] < i) /\ ~(pos[t] > i)
      BY <1>2, <1>3, <2>2, <3>1, <3>2
    <3> QED BY <1>1, <2>2, <3>3 DEF Left
  <2>3. CASE u # t
    BY <1>1, <1>3, <2>0, <2>3 DEF Left
  <2> QED BY <2>1, <2>2, <2>3
<1> QED BY <1>4, <1>5, <1>6, <1>7 DEF CollectInv

\* A worker enters a position nobody else owns.
LEMMA EnterInv ==
    ASSUME CollectInv, NEW t \in 1..numThreads, EnterSubset(t)
    PROVE  CollectInv'
<1>1. /\ phase = "work" /\ pc[t] = "head" /\ t <= spawned /\ mainVars' = mainVars
      /\ pos[t] \in DOMAIN subset /\ ~skip[pos[t]]
      /\ pc' = [pc EXCEPT ![t] = "pairs"]
      /\ todo' = [todo EXCEPT ![t] = count_num]
      /\ UNCHANGED <<pos, loaded, statistics>>
  BY DEF EnterSubset, At
<1>2. /\ todo \in [1..numThreads -> SUBSET count_num]
      /\ pc \in [1..numThreads -> {"head", "pairs", "loaded", "done"}]
  BY <1>1 DEF CollectInv, TypeOK
<1>3. /\ todo' \in [1..numThreads -> SUBSET count_num] /\ todo'[t] = count_num
      /\ pc' \in [1..numThreads -> {"head", "pairs", "loaded", "done"}]
      /\ pc'[t] = "pairs"
      /\ \A u \in 1..numThreads : u # t => pc'[u] = pc[u] /\ todo'[u] = todo[u]
  BY <1>1, <1>2
<1>4. TypeOK' /\ ExactlyOnce'
  BY <1>1, <1>3 DEF CollectInv, TypeOK, ExactlyOnce, mainVars, Statistic
<1>5. PositionsOK'
  BY <1>1 DEF CollectInv, PositionsOK, mainVars
<1>6. WorkersOK'
  BY <1>1, <1>3 DEF WorkersOK, CollectInv, mainVars, Owns, Target
<1>7. ProgressOK'
  <2>0. /\ numThreads' = numThreads /\ subset' = subset /\ skip' = skip
        /\ count_num' = count_num /\ statistics' = statistics
        /\ \A u, i : Owns(u, i)' <=> Owns(u, i)
    BY <1>1 DEF mainVars, Owns
  <2>1. ASSUME NEW u \in 1..numThreads, NEW i
        PROVE  Left(u, i)' = Left(u, i)
    BY <1>1, <1>3, <2>0 DEF Left
  <2> QED BY <1>1, <2>0, <2>1 DEF ProgressOK, CollectInv
<1> QED BY <1>4, <1>5, <1>6, <1>7 DEF CollectInv

\* A worker that leaves the list has handled all its positions.
LEMMA ExitInv ==
    ASSUME CollectInv, NEW t \in 1..numThreads, ExitThread(t)
    PROVE  CollectInv'
<1>1. /\ phase = "work" /\ pc[t] = "head" /\ t <= spawned /\ mainVars' = mainVars
      /\ pos[t] \notin DOMAIN subset
      /\ pc' = [pc EXCEPT ![t] = "done"]
      /\ UNCHANGED <<pos, todo, loaded, statistics>>
  BY DEF ExitThread, At
<1>2. pc \in [1..numThreads -> {"head", "pairs", "loaded", "done"}]
  BY <1>1 DEF CollectInv, TypeOK
<1>3. /\ pc' \in [1..numThreads -> {"head", "pairs", "loaded", "done"}]
      /\ pc'[t] = "done"
      /\ \A u \in 1..numThreads : u # t => pc'[u] = pc[u]
  BY <1>1, <1>2
<1>4. TypeOK' /\ ExactlyOnce'
  BY <1>1, <1>3 DEF CollectInv, TypeOK, ExactlyOnce, mainVars, Statistic
<1>5. PositionsOK'
  BY <1>1 DEF CollectInv, PositionsOK, mainVars
<1>6. WorkersOK'
  BY <1>1, <1>3 DEF WorkersOK, CollectInv, mainVars, Owns, Target
<1>7. ProgressOK'
  <2>0. /\ numThreads' = numThreads /\ subset' = subset /\ skip' = skip
        /\ count_num' = count_num /\ statistics' = statistics
        /\ \A u, i : Owns(u, i)' <=> Owns(u, i)
    BY <1>1 DEF mainVars, Owns
  <2>1. ASSUME NEW u \in 1..numThreads, NEW i
        PROVE  Left(u, i)' = Left(u, i)
    BY <1>1, <1>3, <2>0 DEF Left
  <2> QED BY <1>1, <2>0, <2>1 DEF ProgressOK, CollectInv
<1> QED BY <1>4, <1>5, <1>6, <1>7 DEF CollectInv

\* What a worker loads is what the summary holds until it stores.
LEMMA LoadInv ==
    ASSUME CollectInv, NEW t \in 1..numThreads, LoadStatistic(t)
    PROVE  CollectInv'
<1>1. /\ phase = "work" /\ pc[t] = "pairs" /\ todo[t] # {} /\ mainVars' = mainVars
      /\ pc' = [pc EXCEPT ![t] = "loaded"]
      /\ loaded' = [loaded EXCEPT ![t] = statistics[Target(t)].added]
      /\ UNCHANGED <<pos, todo, statistics>>
  BY DEF LoadStatistic, At
<1>2. /\ pc \in [1..numThreads -> {"head", "pairs", "loaded", "done"}]
      /\ loaded \in [1..numThreads -> [count_num -> Nat]]
      /\ pos[t] \in DOMAIN subset /\ ~skip[pos[t]] /\ t <= spawned
  BY <1>1 DEF CollectInv, TypeOK, WorkersOK
<1>3. statistics[Target(t)].added \in [count_num -> Nat]
  BY <1>1, <1>2, CurrentAdded DEF Target
<1>4. /\ pc' \in [1..numThreads -> {"head", "pairs", "loaded", "done"}]
      /\ loaded' \in [1..numThreads -> [count_num -> Nat]]
      /\ pc'[t] = "loaded" /\ loaded'[t] = statistics[Target(t)].added
      /\ \A u \in 1..numThreads : u # t => pc'[u] = pc[u] /\ loaded'[u] = loaded[u]
  BY <1>1, <1>2, <1>3
<1>5. TypeOK' /\ ExactlyOnce'
  BY <1>1, <1>4 DEF CollectInv, TypeOK, ExactlyOnce, mainVars, Statistic
<1>6. PositionsOK'
  BY <1>1 DEF CollectInv, PositionsOK, mainVars
<1>7. WorkersOK'
  <2>0. /\ numThreads' = numThreads /\ subset' = subset /\ skip' = skip
        /\ spawned' = spawned /\ statistics' = statistics
        /\ pos' = pos /\ todo' = todo /\ WorkersOK
        /\ \A u \in 1..numThreads : Owns(u, pos[u])' <=> Owns(u, pos[u])
    BY <1>1 DEF mainVars, Owns, CollectInv
  <2>1. \A u \in 1..numThreads : u # t => pc'[u] = pc[u] /\ loaded'[u] = loaded[u]
    BY <1>4
  <2>2. /\ pc'[t] = "loaded" /\ loaded'[t] = statistics[subset[pos[t]]].added
        /\ todo[t] # {}
    BY <1>1, <1>4 DEF Target
  <2> QED BY <1>2, <2>0, <2>1, <2>2 DEF WorkersOK, Target
<1>8. ProgressOK'
  <2>0. /\ numThreads' = numThreads /\ subset' = subset /\ skip' = skip
        /\ count_num' = count_num /\ statistics' = statistics
        /\ \A u, i : Owns(u, i)' <=> Owns(u, i)
    BY <1>1 DEF mainVars, Owns
  <2>1. ASSUME NEW u \in 1..numThreads, NEW i
        PROVE  Left(u, i)' = Left(u, i)
    BY <1>1, <1>4, <2>0 DEF Left
  <2> QED BY <1>1, <2>0, <2>1 DEF ProgressOK, CollectInv
<1> QED BY <1>5, <1>6, <1>7, <1>8 DEF CollectInv

(***************************************************************************)
(* The only step that writes a summary: the owner of a position adds one   *)
(* element; all other summaries, and so all other owners, are unaffected.  *)
(***************************************************************************)
LEMMA StoreInv ==
    ASSUME CollectInv, NEW t \in 1..numThreads, StoreStatistic(t)
    PROVE  CollectInv'
<1> DEFINE m == CHOOSE x \in todo[t] : TRUE
           k == subset[pos[t]]
           f == [loaded[t] EXCEPT ![m] = @ + 1]
<1>1. /\ phase = "work" /\ pc[t] = "loaded" /\ mainVars' = mainVars
      /\ statistics' = [statistics EXCEPT ![k].added = f]
      /\ todo' = [todo EXCEPT ![t] = @ \ {m}]
      /\ pc' = [pc EXCEPT ![t] = "pairs"]
      /\ UNCHANGED <<pos, loaded>>
  BY DEF StoreStatistic, At, Target
<1>2. /\ pc \in [1..numThreads -> {"head", "pairs", "loaded", "done"}]
      /\ loaded \in [1..numThreads -> [count_num -> Nat]]
      /\ todo \in [1..numThreads -> SUBSET count_num]
      /\ pos[t] \in DOMAIN subset /\ ~skip[pos[t]] /\ t <= spawned
      /\ todo[t] # {} /\ loaded[t] = statistics[k].added
  BY <1>1 DEF CollectInv, TypeOK, WorkersOK, Target
<1>3. m \in todo[t] /\ m \in count_num
  BY <1>2
<1> HIDE DEF m
<1>4. /\ f \in [count_num -> Nat] /\ f[m] = statistics[k].added[m] + 1
      /\ \A x \in count_num : x # m => f[x] = statistics[k].added[x]
  BY <1>2, <1>3
<1>5. k \in DOMAIN statistics /\ statistics[k].from = ei /\ ~statistics[k].finished
  BY <1>1, <1>2 DEF CollectInv, PositionsOK
<1>6. PICK e \in DOMAIN Esets : statistics[k] \in Statistic(e) /\ e = ei
  BY <1>5 DEF CollectInv, TypeOK, Statistic
<1> HIDE DEF f
<1>7. /\ DOMAIN statistics' = DOMAIN statistics
      /\ \A j \in DOMAIN statistics : j # k => statistics'[j] = statistics[j]
      /\ statistics'[k] = [statistics[k] EXCEPT !.added = f]
  BY <1>1, <1>5
<1>8. /\ statistics'[k].added = f /\ statistics'[k].from = ei
      /\ ~statistics'[k].finished
  BY <1>5, <1>6, <1>7 DEF Statistic
<1>9. /\ todo' \in [1..numThreads -> SUBSET count_num] /\ todo'[t] = todo[t] \ {m}
      /\ pc' \in [1..numThreads -> {"head", "pairs", "loaded", "done"}]
      /\ pc'[t] = "pairs"
      /\ \A u \in 1..numThreads : u # t => pc'[u] = pc[u] /\ todo'[u] = todo[u]
  BY <1>1, <1>2
<1>10. /\ numThreads' = numThreads /\ subset' = subset /\ skip' = skip
       /\ spawned' = spawned /\ pos' = pos /\ loaded' = loaded /\ ei' = ei
       /\ count_num' = count_num /\ phase' = phase
       /\ \A u, i : Owns(u, i)' <=> Owns(u, i)
  BY <1>1 DEF mainVars, Owns
<1>11. [statistics[k] EXCEPT !.added = f] \in Statistic(e)
  <2>1. count_num = CountNum(Esets[e])
    BY <1>1, <1>6 DEF CollectInv, TypeOK
  <2> QED BY <1>4, <1>6, <2>1 DEF Statistic
<1>12. TypeOK'
  <2>1. ASSUME NEW j \in DOMAIN statistics
        PROVE  \E i \in DOMAIN Esets : statistics'[j] \in Statistic(i)
    BY <1>7, <1>11 DEF CollectInv, TypeOK
  <2> QED BY <1>1, <1>7, <1>9, <2>1 DEF CollectInv, TypeOK, mainVars, Statistic
<1>13. ExactlyOnce'
  <2> HIDE DEF k
  <2>1. ExactlyOnce
    BY DEF CollectInv
  <2>2. ASSUME NEW j \in DOMAIN statistics, statistics'[j].finished
        PROVE  \A x \in DOMAIN statistics'[j].added : statistics'[j].added[x] = 1
    <3>1. j # k
      BY <1>8, <2>2
    <3>2. statistics'[j] = statistics[j]
      BY <1>7, <3>1
    <3> QED BY <2>1, <2>2, <3>2 DEF ExactlyOnce
  <2> QED BY <1>7, <2>2 DEF ExactlyOnce
<1>14. PositionsOK'
  BY <1>1, <1>7, <1>8, <1>10 DEF CollectInv, PositionsOK
\* Another position that is not skipped has another summary.
<1>15. \A i \in DOMAIN subset : i # pos[t] /\ ~skip[i] => subset[i] # k
  BY <1>1, <1>2 DEF CollectInv, PositionsOK
<1>16. \A u \in 1..numThreads : u # t => pos[u] # pos[t]
  BY <1>1, OwnersUnique DEF CollectInv, WorkersOK
<1>17. WorkersOK'
  <2>0. WorkersOK /\ PositionsOK
    BY <1>1 DEF CollectInv
  <2>1. ASSUME NEW u \in 1..numThreads, u # t, pc[u] = "loaded"
        PROVE  statistics'[subset[pos[u]]].added = loaded[u]
    <3>1. /\ pos[u] \in DOMAIN subset /\ ~skip[pos[u]]
          /\ loaded[u] = statistics[subset[pos[u]]].added
      BY <2>0, <2>1 DEF WorkersOK, Target
    <3>2. subset[pos[u]] # k /\ subset[pos[u]] \in DOMAIN statistics
      BY <1>15, <1>16, <2>0, <2>1, <3>1 DEF PositionsOK
    <3> QED BY <1>7, <3>1, <3>2
  <2> HIDE DEF k
  <2> QED BY <1>2, <1>9, <1>10, <2>0, <2>1 DEF WorkersOK, Target
<1>18. ProgressOK'
  <2> SUFFICES ASSUME NEW u \in 1..numThreads, NEW i \in DOMAIN subset,
                      Owns(u, i), ~skip[i], NEW x \in count_num
               PROVE  statistics'[subset[i]].added[x]
                         = IF x \in Left(u, i)' THEN 0 ELSE 1
    BY <1>10 DEF ProgressOK
  <2>0. statistics[subset[i]].added[x] = IF x \in Left(u, i) THEN 0 ELSE 1
    BY <1>1 DEF CollectInv, ProgressOK
  <2>1. CASE i = pos[t]
    <3>1. u = t
      BY <1>1, <2>1, OwnersUnique DEF CollectInv, WorkersOK
    <3>2. pos[t] \in Nat
      BY <1>1 DEF CollectInv, TypeOK
    <3>3. Left(u, i) = todo[t] /\ Left(u, i)' = todo[t] \ {m}
      BY <1>1, <1>9, <1>10, <2>1, <3>1, <3>2 DEF Left
    <3>4. statistics'[subset[i]].added = f /\ k = subset[i]
      BY <1>8, <2>1
    <3>5. CASE x = m
      BY <1>3, <1>4, <2>0, <3>3, <3>4, <3>5
    <3>6. CASE x # m
      BY <1>4, <2>0, <3>3, <3>4, <3>6
    <3> QED BY <3>5, <3>6
  <2>2. CASE i # pos[t]
    <3>1. subset[i] # k /\ subset[i] \in DOMAIN statistics
      BY <1>1, <1>15, <2>2 DEF CollectInv, PositionsOK
    <3>2. statistics'[subset[i]] = statistics[subset[i]]
      BY <1>7, <3>1
    <3>3. Left(u, i)' = Left(u, i)
      <4>1. CASE u = t
        <5>1. pos[t] \in Nat /\ subset \in Seq(Key)
          BY <1>1 DEF CollectInv, TypeOK
        <5>2. pos[t] < i \/ pos[t] > i
          BY <2>2, <5>1
        <5> QED BY <1>10, <4>1, <5>2 DEF Left
      <4>2. CASE u # t
        BY <1>9, <1>10, <4>2 DEF Left
      <4> QED BY <4>1, <4>2
    <3> QED BY <2>0, <3>2, <3>3
  <2> QED BY <2>1, <2>2
<1> QED BY <1>1, <1>10, <1>12, <1>13, <1>14, <1>17, <1>18 DEF CollectInv
-----------------------------------------------------------------------------
(***************************************************************************)
(* Every step of CollectStatistics and of its threads keeps CollectInv.    *)
(***************************************************************************)
LEMMA NextInv == CollectInv /\ [Next]_vars => CollectInv'
<1> SUFFICES ASSUME CollectInv, [Next]_vars PROVE CollectInv'
  OBVIOUS
<1>1. CASE MainStep
  BY <1>1, QueryInv, PrepareInv, SpawnInv, SingleInv, FinishInv, CalcInv
  DEF MainStep
<1>2. ASSUME NEW t \in 1..numThreads, WorkerStep(t) PROVE CollectInv'
  BY <1>2, SkipInv, EnterInv, LoadInv, StoreInv, NextSubsetInv, ExitInv
  DEF WorkerStep
<1>3. CASE UNCHANGED vars
  BY <1>3, StutterInv
<1> QED BY <1>1, <1>2, <1>3 DEF Next, Terminated

(***************************************************************************)
(* Two workers never add to the same summary, for any schema, any number   *)
(* of threads and any split limit (main.cpp:184-198).                      *)
(***************************************************************************)
LEMMA InvNoDataRace == CollectInv => NoDataRace
<1> SUFFICES ASSUME CollectInv, NEW t \in 1..numThreads, NEW u \in 1..numThreads,
                    t # u, Adding(t), Adding(u)
             PROVE  Target(t) # Target(u)
  BY DEF NoDataRace
<1>1. /\ phase = "work"
      /\ pc[t] \in {"pairs", "loaded"} /\ pc[u] \in {"pairs", "loaded"}
  BY DEF Adding, At
<1>2. /\ pos[t] \in DOMAIN subset /\ ~skip[pos[t]] /\ Owns(t, pos[t])
      /\ pos[u] \in DOMAIN subset /\ ~skip[pos[u]] /\ Owns(u, pos[u])
  BY <1>1 DEF CollectInv, WorkersOK
<1>3. pos[t] # pos[u]
  BY <1>1, <1>2, OwnersUnique
<1> QED BY <1>1, <1>2, <1>3 DEF CollectInv, PositionsOK, Target

(***************************************************************************)
(* The collection invariant holds in every state of CollectStatistics.     *)
(***************************************************************************)
THEOREM Invariant == Spec => []CollectInv
BY InitInv, NextInv, PTL DEF Spec

(***************************************************************************)
(* The state of CollectStatistics is always well typed: no worker ever     *)
(* indexes subset or statistics with something that is not a key.          *)
(***************************************************************************)
THEOREM TypeCorrect == Spec => []TypeOK
<1>1. CollectInv => TypeOK
  BY DEF CollectInv
<1> QED BY <1>1, Invariant, PTL

(***************************************************************************)
(* The unlocked threads of CollectStatistics never share a summary.        *)
(***************************************************************************)
THEOREM RaceFree == Spec => []NoDataRace
BY Invariant, InvNoDataRace, PTL

(***************************************************************************)
(* FinishCollection only ever closes summaries that hold each count vector *)
(* exactly once.                                                           *)
(***************************************************************************)
THEOREM CollectsExactlyOnce == Spec => []ExactlyOnce
<1>1. CollectInv => ExactlyOnce
  BY DEF CollectInv
<1> QED BY <1>1, Invariant, PTL

(***************************************************************************)
(* No step changes a summary that FinishCollection has closed, so a subset *)
(* that a later equal set shares keeps what it was first collected from.   *)
(***************************************************************************)
LEMMA StepKeepsClosed ==
    ASSUME CollectInv, [Next]_vars,
           NEW k \in DOMAIN statistics, statistics[k].finished
    PROVE  k \in DOMAIN statistics' /\ statistics'[k] = statistics[k]
<1>1. CASE PrepareCollection
  BY <1>1 DEF PrepareCollection, Allocated
<1>2. CASE FinishCollection
  <2>1. phase = "work"
    BY <1>2 DEF FinishCollection, Joined
  <2>2. k \notin Collected
    BY <2>1 DEF Collected, CollectInv, PositionsOK
  <2> QED BY <1>2, <2>2 DEF FinishCollection
<1>3. ASSUME NEW t \in 1..numThreads, StoreStatistic(t)
      PROVE  k \in DOMAIN statistics' /\ statistics'[k] = statistics[k]
  <2>1. phase = "work" /\ pc[t] = "loaded"
    BY <1>3 DEF StoreStatistic, At
  <2>2. Target(t) # k
    BY <2>1 DEF CollectInv, WorkersOK, PositionsOK, Target
  <2>3. PICK f : statistics' = [statistics EXCEPT ![Target(t)].added = f]
    BY <1>3 DEF StoreStatistic
  <2> QED BY <2>2, <2>3
<1>4. CASE UNCHANGED statistics
  BY <1>4
<1> QED
  BY <1>1, <1>2, <1>3, <1>4
  DEF Next, MainStep, WorkerStep, Terminated, vars, QueryCountNum, SpawnThread,
      AddDegreeForSingleDS, CalcAdjustRate, SkipSubset, EnterSubset,
      LoadStatistic, NextSubset, ExitThread

(***************************************************************************)
(* Closed summaries are final in every behaviour of CollectStatistics.     *)
(***************************************************************************)
THEOREM ClosedIsFinal == Spec => ClosedStaysClosed
<1>1. CollectInv /\ [Next]_vars =>
        [\A k \in DOMAIN statistics : statistics[k].finished =>
           k \in DOMAIN statistics' /\ statistics'[k] = statistics[k]]_vars
  BY StepKeepsClosed
<1> QED BY <1>1, Invariant, PTL DEF Spec, ClosedStaysClosed
-----------------------------------------------------------------------------
\* The first position that asks for a key without a summary is not skipped.
LEMMA FirstOccurrence ==
    ASSUME NEW sub \in Seq(Key), NEW k, NEW i \in DOMAIN sub, sub[i] = k,
           k \notin DOMAIN statistics
    PROVE  \E j \in DOMAIN sub : sub[j] = k /\ ~SkipFlags(sub)[j]
<1> DEFINE T == {j \in DOMAIN sub : sub[j] = k}
<1>1. T \in SUBSET Nat /\ T # {}
  OBVIOUS
<1>2. PICK j \in T : \A y \in T : j <= y
  BY <1>1, LeastNat
<1>3. \A y \in T : ~(y < j)
  BY <1>1, <1>2
<1>4. ~SkipFlags(sub)[j]
  BY <1>3 DEF SkipFlags
<1> QED BY <1>2, <1>4

(***************************************************************************)
(* Only PrepareCollection opens summaries and only FinishCollection closes *)
(* them, all that are open.                                                *)
(***************************************************************************)
LEMMA ClosedBetweenInit == Init => ClosedBetween
BY DEF Init, ClosedBetween

\* Every step keeps ClosedBetween.
LEMMA ClosedBetweenStep ==
    ASSUME CollectInv, ClosedBetween, [Next]_vars
    PROVE  ClosedBetween'
<1>1. CASE PrepareCollection
  <2>1. /\ phase = "prepare" /\ phase' = "work" /\ ei' = ei
        /\ subset' = Subsets(Esets[ei])
        /\ skip' = SkipFlags(subset')
        /\ statistics' = Allocated(subset')
    BY <1>1 DEF PrepareCollection
  <2>2. \A k \in DOMAIN statistics : statistics[k].finished
    BY <2>1 DEF ClosedBetween
  <2>3. ASSUME NEW k \in DOMAIN statistics'
        PROVE  statistics'[k].finished \/ k \in Collected'
    <3>1. CASE k \in DOMAIN statistics
      <4>1. statistics'[k] = statistics[k]
        BY <2>1, <3>1 DEF Allocated
      <4> QED BY <2>2, <3>1, <4>1
    <3>2. CASE k \notin DOMAIN statistics
      <4>1. PICK i \in DOMAIN subset' : subset'[i] = k
        BY <2>1, <3>2 DEF Allocated
      <4>2. \E j \in DOMAIN subset' : subset'[j] = k /\ ~SkipFlags(subset')[j]
        <5>1. subset' \in Seq(Key)
          BY NextInv DEF CollectInv, TypeOK
        <5> QED BY <3>2, <4>1, <5>1, FirstOccurrence
      <4> QED BY <2>1, <4>2 DEF Collected
    <3> QED BY <3>1, <3>2
  <2> QED BY <2>1, <2>3 DEF ClosedBetween
<1>2. CASE FinishCollection
  <2>1. /\ phase = "work" /\ phase' = "query"
        /\ statistics' = [k \in DOMAIN statistics |->
                            IF k \in Collected
                            THEN [statistics[k] EXCEPT !.finished = TRUE]
                            ELSE statistics[k]]
    BY <1>2 DEF FinishCollection, Joined
  <2>2. ASSUME NEW k \in DOMAIN statistics' PROVE statistics'[k].finished
    <3>1. k \in DOMAIN statistics
      BY <2>1
    <3>2. PICK i \in DOMAIN Esets : statistics[k] \in Statistic(i)
      BY <3>1 DEF CollectInv, TypeOK
    <3> QED BY <2>1, <3>1, <3>2 DEF ClosedBetween, Statistic
  <2> QED BY <2>1, <2>2 DEF ClosedBetween
<1>3. ASSUME NEW t \in 1..numThreads, StoreStatistic(t)
      PROVE  ClosedBetween'
  <2>1. /\ phase = "work" /\ phase' = "work" /\ pc[t] = "loaded"
        /\ UNCHANGED <<ei, subset, skip>>
    BY <1>3 DEF StoreStatistic, At, mainVars
  <2>2. PICK f : statistics' = [statistics EXCEPT ![Target(t)].added = f]
    BY <1>3 DEF StoreStatistic
  <2>3. Collected' = Collected
    BY <2>1 DEF Collected
  <2>4. \A k \in DOMAIN statistics : statistics'[k].finished = statistics[k].finished
    <3> SUFFICES ASSUME NEW k \in DOMAIN statistics
                 PROVE  statistics'[k].finished = statistics[k].finished
      OBVIOUS
    <3>1. PICK i \in DOMAIN Esets : statistics[k] \in Statistic(i)
      BY DEF CollectInv, TypeOK
    <3> QED BY <2>2, <3>1 DEF Statistic
  <2> QED BY <2>1, <2>2, <2>3, <2>4 DEF ClosedBetween
<1>4. CASE /\ UNCHANGED <<ei, subset, skip, statistics>>
           /\ phase' = "work" <=> phase = "work"
  <2>1. Collected' = Collected
    BY <1>4 DEF Collected
  <2> QED BY <1>4, <2>1 DEF ClosedBetween
<1> QED
  BY <1>1, <1>2, <1>3, <1>4
  DEF Next, MainStep, WorkerStep, Terminated, vars, mainVars, QueryCountNum,
      SpawnThread, AddDegreeForSingleDS, CalcAdjustRate, SkipSubset, EnterSubset,
      LoadStatistic, NextSubset, ExitThread, At

(***************************************************************************)
(* Every step of the threads is a step of SequentialCollect or changes     *)
(* nothing there: FinishCollection is CollectNext.                         *)
(***************************************************************************)
LEMMA CollectedComplete ==
    ASSUME CollectInv, Joined, NEW k \in Collected
    PROVE  /\ k \in DOMAIN statistics /\ statistics[k].from = ei
           /\ statistics[k].added = [m \in CountNum(Esets[ei]) |-> 1]
           /\ statistics[k] \in Statistic(ei)
           /\ ~statistics[k].finished
<1>1. phase = "work" /\ \A t \in 1..numThreads : pc[t] = "done"
  BY DEF Joined
<1>2. PICK i \in DOMAIN subset : ~skip[i] /\ k = subset[i]
  BY DEF Collected
<1>3. /\ k \in DOMAIN statistics /\ statistics[k].from = ei
      /\ ~statistics[k].finished
  BY <1>1, <1>2 DEF CollectInv, PositionsOK
<1>4. PICK e \in DOMAIN Esets : statistics[k] \in Statistic(e)
  BY <1>3 DEF CollectInv, TypeOK
<1>5. e = ei /\ statistics[k].added \in [CountNum(Esets[ei]) -> Nat]
  BY <1>3, <1>4 DEF Statistic
<1>6. \A m \in DOMAIN statistics[k].added : statistics[k].added[m] = 1
  BY AddedOnJoin
<1> QED BY <1>3, <1>4, <1>5, <1>6

\* The abstract summaries, a name for the refinement mapping of known.
KnownMap == [k \in Closed |-> [from |-> statistics[k].from,
                               added |-> statistics[k].added]]

\* Leaving the closed summaries alone leaves the abstract ones alone.
LEMMA KnownUnchanged ==
    ASSUME Closed' = Closed,
           \A k \in Closed : /\ statistics'[k].from = statistics[k].from
                             /\ statistics'[k].added = statistics[k].added
    PROVE  KnownMap' = KnownMap
BY DEF KnownMap

\* Allocating open summaries and adding to them is invisible.
LEMMA InvisibleStep ==
    ASSUME CollectInv, ClosedBetween, [Next]_vars, ~FinishCollection
    PROVE  KnownMap' = KnownMap
<1>1. \A k \in Closed : k \in DOMAIN statistics' /\ statistics'[k] = statistics[k]
  BY StepKeepsClosed DEF Closed
<1>2. CASE PrepareCollection
  <2>1. ASSUME NEW k \in DOMAIN statistics', k \notin DOMAIN statistics
        PROVE  ~statistics'[k].finished
    BY <1>2, <2>1 DEF PrepareCollection, Allocated, NewStatistic
  <2>2. Closed' = Closed
    BY <1>1, <2>1, <1>2 DEF Closed, PrepareCollection, Allocated
  <2> QED BY <1>1, <2>2, KnownUnchanged
<1>3. ASSUME NEW t \in 1..numThreads, StoreStatistic(t)
      PROVE  KnownMap' = KnownMap
  <2>1. PICK f : statistics' = [statistics EXCEPT ![Target(t)].added = f]
    BY <1>3 DEF StoreStatistic
  <2>2. \A k \in DOMAIN statistics : statistics'[k].finished = statistics[k].finished
    <3> SUFFICES ASSUME NEW k \in DOMAIN statistics
                 PROVE  statistics'[k].finished = statistics[k].finished
      OBVIOUS
    <3>1. PICK i \in DOMAIN Esets : statistics[k] \in Statistic(i)
      BY DEF CollectInv, TypeOK
    <3> QED BY <2>1, <3>1 DEF Statistic
  <2>3. Closed' = Closed
    BY <2>1, <2>2 DEF Closed
  <2> QED BY <1>1, <2>3, KnownUnchanged
<1>4. CASE UNCHANGED statistics
  BY <1>4 DEF KnownMap, Closed
<1> QED
  BY <1>2, <1>3, <1>4
  DEF Next, MainStep, WorkerStep, Terminated, vars, QueryCountNum, SpawnThread,
      AddDegreeForSingleDS, CalcAdjustRate, SkipSubset, EnterSubset,
      LoadStatistic, NextSubset, ExitThread

\* FinishCollection makes the summaries of the whole equal set known.
LEMMA FinishStep ==
    ASSUME CollectInv, ClosedBetween, FinishCollection
    PROVE  /\ ei \in DOMAIN Esets /\ ei' = ei + 1
           /\ phase # "done" /\ phase' # "done"
           /\ KnownMap' =
                [k \in DOMAIN KnownMap
                         \cup {Subsets(Esets[ei])[j] : j \in DOMAIN Subsets(Esets[ei])} |->
                    IF k \in DOMAIN KnownMap THEN KnownMap[k]
                    ELSE [from |-> ei, added |-> [m \in CountNum(Esets[ei]) |-> 1]]]
<1>1. /\ Joined /\ phase = "work" /\ phase' = "query" /\ ei' = ei + 1
      /\ statistics' = [k \in DOMAIN statistics |->
                          IF k \in Collected
                          THEN [statistics[k] EXCEPT !.finished = TRUE]
                          ELSE statistics[k]]
  BY DEF FinishCollection, Joined
<1>2. subset = Subsets(Esets[ei]) /\ ei \in DOMAIN Esets
  BY <1>1 DEF ClosedBetween, CollectInv, TypeOK
<1>3. \A k \in Collected :
         /\ k \in DOMAIN statistics /\ k \notin Closed /\ statistics'[k].finished
         /\ statistics'[k].from = ei
         /\ statistics'[k].added = [m \in CountNum(Esets[ei]) |-> 1]
  <2> SUFFICES ASSUME NEW k \in Collected
               PROVE  /\ k \in DOMAIN statistics /\ k \notin Closed
                      /\ statistics'[k].finished
                      /\ statistics'[k].from = ei
                      /\ statistics'[k].added = [m \in CountNum(Esets[ei]) |-> 1]
    OBVIOUS
  <2>1. /\ k \in DOMAIN statistics /\ statistics[k].from = ei
        /\ statistics[k].added = [m \in CountNum(Esets[ei]) |-> 1]
        /\ statistics[k] \in Statistic(ei)
        /\ ~statistics[k].finished
    BY <1>1, CollectedComplete
  <2>2. statistics'[k] = [statistics[k] EXCEPT !.finished = TRUE]
    BY <1>1, <2>1
  <2> QED BY <2>1, <2>2 DEF Closed, Statistic
<1>4. \A k \in Closed : k \in DOMAIN statistics /\ statistics'[k] = statistics[k]
  BY <1>1, <1>3 DEF Closed
<1>5. DOMAIN statistics = Closed \cup Collected
  BY <1>1, <1>3 DEF ClosedBetween, Closed
<1>6. Closed' = Closed \cup Collected
  BY <1>1, <1>3, <1>4, <1>5 DEF Closed
<1>7. Closed \cup Collected = Closed \cup {subset[j] : j \in DOMAIN subset}
  BY <1>1, <1>5 DEF Collected, CollectInv, PositionsOK
<1>8. DOMAIN KnownMap = Closed
  BY DEF KnownMap
<1>9. \A k \in Closed' : KnownMap'[k] =
        IF k \in Closed THEN KnownMap[k]
        ELSE [from |-> ei, added |-> [m \in CountNum(Esets[ei]) |-> 1]]
  BY <1>3, <1>4, <1>6 DEF KnownMap
<1>10. KnownMap' = [k \in Closed' |-> KnownMap'[k]]
  BY DEF KnownMap
<1> QED BY <1>1, <1>2, <1>6, <1>7, <1>8, <1>9, <1>10

(***************************************************************************)
(* CollectStatistics with its unlocked threads implements the collection   *)
(* of whole equal sets one after the other, for every schema, database,    *)
(* number of threads and split limit.                                      *)
(***************************************************************************)
THEOREM ImplementsSequential == Spec => CollectsSequentially
<1>1. Init => Sequential!Init
  BY DEF Init, Sequential!Init, Closed
<1>2. CollectInv /\ ClosedBetween /\ [Next]_vars => [Sequential!Next]_(Sequential!vars)
  <2> SUFFICES ASSUME CollectInv, ClosedBetween, [Next]_vars
               PROVE  [Sequential!Next]_(Sequential!vars)
    OBVIOUS
  <2>1. CASE FinishCollection
    <3>1. /\ ei \in DOMAIN Esets /\ ei' = ei + 1
          /\ (phase = "done") = FALSE /\ (phase' = "done") = FALSE
      BY <2>1, FinishStep
    <3>2. Sequential!CollectNext
      BY <2>1, <3>1, FinishStep
      DEF Sequential!CollectNext, Sequential!Summary, KnownMap
    <3> QED BY <3>2 DEF Sequential!Next
  <2>2. CASE CalcAdjustRate
    <3>1. /\ ei \notin DOMAIN Esets /\ ei' = ei /\ phase' = "done"
          /\ (phase' = "done") = TRUE
      BY <2>2 DEF CalcAdjustRate
    <3>2. KnownMap' = KnownMap
      BY <2>2 DEF CalcAdjustRate, KnownMap, Closed
    <3> QED BY <3>1, <3>2 DEF Sequential!Next, Sequential!End, KnownMap
  <2>3. CASE ~FinishCollection /\ ~CalcAdjustRate
    <3>1. KnownMap' = KnownMap
      BY <2>3, InvisibleStep
    <3>2. ei' = ei /\ (phase' = "done" <=> phase = "done")
      BY <2>3
      DEF Next, MainStep, WorkerStep, Terminated, vars, mainVars, QueryCountNum,
          PrepareCollection, SpawnThread, AddDegreeForSingleDS, SkipSubset,
          EnterSubset, LoadStatistic, StoreStatistic, NextSubset, ExitThread, At
    <3>3. (phase' = "done") = (phase = "done")
      BY <3>2
    <3> QED BY <3>1, <3>2, <3>3 DEF Sequential!vars, KnownMap
  <2> QED BY <2>1, <2>2, <2>3
<1>3. Init => CollectInv /\ ClosedBetween
  BY InitInv, ClosedBetweenInit
<1>4. CollectInv /\ ClosedBetween /\ [Next]_vars => CollectInv' /\ ClosedBetween'
  BY NextInv, ClosedBetweenStep
<1>5. Spec => [](CollectInv /\ ClosedBetween)
  BY <1>3, <1>4, PTL DEF Spec
<1> QED BY <1>1, <1>2, <1>5, PTL DEF Spec, CollectsSequentially, Sequential!Spec
-----------------------------------------------------------------------------
(***************************************************************************)
(* The equal sets that have been passed are covered: the summaries of all  *)
(* their subsets are closed.                                               *)
(***************************************************************************)
LEMMA PassedCoveredStep ==
    ASSUME CollectInv, ClosedBetween, PassedCovered, [Next]_vars
    PROVE  PassedCovered'
<1>1. Closed \subseteq Closed'
  BY StepKeepsClosed DEF Closed
<1>2. CASE FinishCollection
  <2>1. /\ ei \in DOMAIN Esets /\ ei' = ei + 1 /\ phase' # "done"
        /\ DOMAIN KnownMap' = DOMAIN KnownMap \cup SubsetsListed(Esets[ei])
    BY <1>2, FinishStep DEF SubsetsListed
  <2>2. SubsetsListed(Esets[ei]) \subseteq Closed'
    BY <2>1 DEF KnownMap
  <2>3. ASSUME NEW i \in DOMAIN Esets, i < ei'
        PROVE  SubsetsListed(Esets[i]) \subseteq Closed'
    <3>1. i \in Nat /\ ei \in Nat
      BY EsetsAssumption DEF CollectInv, TypeOK
    <3>2. i < ei \/ i = ei
      BY <2>1, <2>3, <3>1
    <3> QED BY <1>1, <2>2, <3>2 DEF PassedCovered
  <2> QED BY <2>1, <2>3 DEF PassedCovered
<1>3. CASE ~FinishCollection
  <2>1. ei' = ei /\ (phase' = "done" => phase = "done" \/ ei \notin DOMAIN Esets)
    BY <1>3
    DEF Next, MainStep, WorkerStep, Terminated, vars, mainVars, QueryCountNum,
        PrepareCollection, SpawnThread, AddDegreeForSingleDS, CalcAdjustRate,
        SkipSubset, EnterSubset, LoadStatistic, StoreStatistic, NextSubset,
        ExitThread, At
  <2> QED BY <1>1, <2>1 DEF PassedCovered
<1> QED BY <1>2, <1>3

\* The summaries a lookup of a star of the schema reads are collected ones.
LEMMA LookupsListed ==
    ASSUME EnableStarSplit => MaxStarSize >= 3,
           NEW i \in DOMAIN Esets, NEW Q \in (SUBSET Esets[i]) \ {{}},
           NEW k \in Lookup(Q)
    PROVE  k \in SubsetsListed(Esets[i])
<1>1. Esets[i] \in SUBSET Entries /\ IsFiniteSet(Esets[i])
  BY EsetsAssumption DEF Key, Entries
<1>2. Q \in SUBSET Entries /\ IsFiniteSet(Q)
  BY <1>1, FS_Subset
<1>3. CASE EnableStarSplit
  <2>1. MaxStarSize \in Nat /\ MaxStarSize >= 3
    BY <1>3, SplitAssumption
  <2>2. k \in Split(Q, MaxStarSize)
    BY <1>3 DEF Lookup
  <2>3. PICK R \in (SUBSET Q) \ {{}} : Cardinality(R) <= MaxStarSize /\ k = Collapse(R)
    BY <1>2, <2>1, <2>2, PiecesWithinLimit
  <2>4. R \in {S \in SUBSET Esets[i] : Cardinality(S) <= MaxStarSize}
    BY <2>3
  <2>5. SubsetsListed(Esets[i])
          = {Collapse(S) : S \in {R2 \in SUBSET Esets[i] : Cardinality(R2) <= MaxStarSize}}
    BY <1>1, <1>3, <2>1, LimitedSubsetsListed DEF SubsetsListed, Subsets
  <2> QED BY <2>3, <2>4, <2>5
<1>4. CASE ~EnableStarSplit
  <2>1. k = Collapse(Q) /\ Q \in SUBSET Esets[i]
    BY <1>4 DEF Lookup
  <2>2. SubsetsListed(Esets[i]) = {Collapse(S) : S \in SUBSET Esets[i]}
    BY <1>1, <1>4, AllSubsetsListed DEF SubsetsListed, Subsets
  <2> QED BY <2>1, <2>2
<1> QED BY <1>3, <1>4

(***************************************************************************)
(* StarsCovered, for every schema and database: the subsets listed at      *)
(* collection are the ones that a lookup, cut by Split or not, asks for.   *)
(* A limit below 3 makes Split throw (equalset.hpp:145).                   *)
(***************************************************************************)
THEOREM EverySubstarCovered ==
    ASSUME EnableStarSplit => MaxStarSize >= 3
    PROVE  Spec => []StarsCovered
<1>1. Init => CollectInv /\ ClosedBetween /\ PassedCovered
  <2>1. ASSUME Init PROVE PassedCovered
    <3>1. \A i \in DOMAIN Esets : ~(i < 1)
      BY EsetsAssumption
    <3> QED BY <2>1, <3>1 DEF Init, PassedCovered
  <2> QED BY <2>1, InitInv, ClosedBetweenInit
<1>2. CollectInv /\ ClosedBetween /\ PassedCovered /\ [Next]_vars
        => CollectInv' /\ ClosedBetween' /\ PassedCovered'
  BY NextInv, ClosedBetweenStep, PassedCoveredStep
<1>3. CollectInv /\ PassedCovered => StarsCovered
  <2> SUFFICES ASSUME CollectInv, PassedCovered, phase = "done",
                      NEW i \in DOMAIN Esets, NEW Q \in (SUBSET Esets[i]) \ {{}},
                      NEW k \in Lookup(Q)
               PROVE  k \in DOMAIN statistics /\ statistics[k].finished
    BY DEF StarsCovered
  <2>1. i < ei
    <3>1. PICK n \in Nat : DOMAIN Esets = 1..n
      BY EsetsAssumption
    <3>2. ei \in Nat \ {0} /\ ei \notin 1..n
      BY <3>1 DEF PassedCovered, CollectInv, TypeOK
    <3> QED BY <3>1, <3>2
  <2>2. k \in Closed
    BY <2>1, LookupsListed DEF PassedCovered
  <2> QED BY <2>2 DEF Closed
<1> QED BY <1>1, <1>2, <1>3, PTL DEF Spec
-----------------------------------------------------------------------------
(***************************************************************************)
(* Every summary is that of a subset of the equal set it comes from.       *)
(***************************************************************************)
LEMMA KeysListedStep ==
    ASSUME CollectInv, ClosedBetween, KeysListed, [Next]_vars
    PROVE  KeysListed'
<1>1. CASE PrepareCollection
  <2>1. /\ phase = "prepare" /\ ei \in DOMAIN Esets
        /\ subset' = Subsets(Esets[ei]) /\ statistics' = Allocated(subset')
    BY <1>1 DEF PrepareCollection, CollectInv, TypeOK
  <2>2. ASSUME NEW k \in DOMAIN statistics'
        PROVE  /\ statistics'[k].from \in DOMAIN Esets
               /\ k \in SubsetsListed(Esets[statistics'[k].from])
    <3>1. CASE k \in DOMAIN statistics
      <4>1. statistics'[k] = statistics[k]
        BY <2>1, <3>1 DEF Allocated
      <4> QED BY <3>1, <4>1 DEF KeysListed
    <3>2. CASE k \notin DOMAIN statistics
      <4>1. statistics'[k].from = ei /\ k \in {subset'[j] : j \in DOMAIN subset'}
        BY <2>1, <2>2, <3>2 DEF Allocated, NewStatistic
      <4> QED BY <2>1, <4>1 DEF SubsetsListed
    <3> QED BY <3>1, <3>2
  <2> QED BY <2>2 DEF KeysListed
<1>2. CASE /\ DOMAIN statistics' = DOMAIN statistics
           /\ \A k \in DOMAIN statistics : statistics'[k].from = statistics[k].from
  BY <1>2 DEF KeysListed
<1>3. \A k \in DOMAIN statistics : \E i \in DOMAIN Esets : statistics[k] \in Statistic(i)
  BY DEF CollectInv, TypeOK
<1>4. CASE FinishCollection
  BY <1>2, <1>3, <1>4 DEF FinishCollection, Statistic
<1>5. ASSUME NEW t \in 1..numThreads, StoreStatistic(t) PROVE KeysListed'
  <2>1. PICK f : statistics' = [statistics EXCEPT ![Target(t)].added = f]
    BY <1>5 DEF StoreStatistic
  <2> QED BY <1>2, <1>3, <2>1 DEF Statistic
<1>6. CASE UNCHANGED statistics
  BY <1>6 DEF KeysListed
<1> QED
  BY <1>1, <1>4, <1>5, <1>6
  DEF Next, MainStep, WorkerStep, Terminated, vars, QueryCountNum, SpawnThread,
      AddDegreeForSingleDS, CalcAdjustRate, SkipSubset, EnterSubset,
      LoadStatistic, NextSubset, ExitThread

\* What is listed are subsets, collapsed.
LEMMA ListedSubset ==
    ASSUME NEW i \in DOMAIN Esets, NEW k \in SubsetsListed(Esets[i])
    PROVE  \E Q \in SUBSET Esets[i] : k = Collapse(Q)
<1>1. Esets[i] \in SUBSET Entries /\ IsFiniteSet(Esets[i])
  BY EsetsAssumption DEF Key, Entries
<1>2. CASE EnableStarSplit
  <2>1. SubsetsListed(Esets[i])
          = {Collapse(S) : S \in {R \in SUBSET Esets[i] : Cardinality(R) <= MaxStarSize}}
    BY <1>1, <1>2, SplitAssumption, LimitedSubsetsListed DEF SubsetsListed, Subsets
  <2> QED BY <2>1
<1>3. CASE ~EnableStarSplit
  <2>1. SubsetsListed(Esets[i]) = {Collapse(S) : S \in SUBSET Esets[i]}
    BY <1>1, <1>3, AllSubsetsListed DEF SubsetsListed, Subsets
  <2> QED BY <2>1
<1> QED BY <1>2, <1>3
-----------------------------------------------------------------------------
(***************************************************************************)
(* The sums and products of the model, as those of functions.              *)
(***************************************************************************)
LEMMA FreqSum ==
    ASSUME NEW v, NEW S, NEW f, \A e \in S : f[e] = Freq[e][v]
    PROVE  MapThenSumSet(LAMBDA e : Freq[e][v], S) = SumOf(f, S)
<1> DEFINE Body(iter) == [s \in SUBSET S |->
              IF s = {} THEN 0 ELSE Freq[Pick(s)][v] + iter[s \ {Pick(s)}]]
<1>1. MapThenSumSet(LAMBDA e : Freq[e][v], S) = (CHOOSE iter : iter = Body(iter))[S]
  BY DEF MapThenSumSet, MapThenFoldSet, Pick
<1>2. \A s \in SUBSET S : s # {} => Freq[Pick(s)][v] = f[Pick(s)]
  BY PickIn
<1>3. \A iter : Body(iter) = SumBody(f, S, iter)
  BY <1>2 DEF SumBody
<1> HIDE DEF Body
<1>4. (CHOOSE iter : iter = Body(iter)) = SumIter(f, S)
  BY <1>3 DEF SumIter
<1> QED BY <1>1, <1>4, SumUnfold

LEMMA FreqProduct ==
    ASSUME NEW v, NEW S, NEW f, \A e \in S : f[e] = Freq[e][v]
    PROVE  FoldSet(LAMBDA e, p : Freq[e][v] * p, 1, S) = ProductOf(f, S)
<1> DEFINE Body(iter) == [s \in SUBSET S |->
              IF s = {} THEN 1 ELSE Freq[Pick(s)][v] * iter[s \ {Pick(s)}]]
<1>1. FoldSet(LAMBDA e, p : Freq[e][v] * p, 1, S) = (CHOOSE iter : iter = Body(iter))[S]
  BY DEF FoldSet, MapThenFoldSet, Pick
<1>2. \A s \in SUBSET S : s # {} => Freq[Pick(s)][v] = f[Pick(s)]
  BY PickIn
<1>3. \A iter : Body(iter) = ProductBody(f, S, iter)
  BY <1>2 DEF ProductBody
<1> HIDE DEF Body
<1>4. (CHOOSE iter : iter = Body(iter)) = ProductIter(f, S)
  BY <1>3 DEF ProductIter
<1> QED BY <1>1, <1>4, ProductUnfold

LEMMA CountProduct ==
    ASSUME NEW m, NEW S, NEW f, \A e \in S : f[e] = m[EntryTable(e)]
    PROVE  FoldSet(LAMBDA e, p : m[EntryTable(e)] * p, 1, S) = ProductOf(f, S)
<1> DEFINE Body(iter) == [s \in SUBSET S |->
              IF s = {} THEN 1 ELSE m[EntryTable(Pick(s))] * iter[s \ {Pick(s)}]]
<1>1. FoldSet(LAMBDA e, p : m[EntryTable(e)] * p, 1, S)
        = (CHOOSE iter : iter = Body(iter))[S]
  BY DEF FoldSet, MapThenFoldSet, Pick
<1>2. \A s \in SUBSET S : s # {} => m[EntryTable(Pick(s))] = f[Pick(s)]
  BY PickIn
<1>3. \A iter : Body(iter) = ProductBody(f, S, iter)
  BY <1>2 DEF ProductBody
<1> HIDE DEF Body
<1>4. (CHOOSE iter : iter = Body(iter)) = ProductIter(f, S)
  BY <1>3 DEF ProductIter
<1> QED BY <1>1, <1>4, ProductUnfold

RowProduct(Q, v) == FoldSet(LAMBDA e, p : Freq[e][v] * p, 1, Q)
VectorProduct(k, m) == FoldSet(LAMBDA e, p : m[EntryTable(e)] * p, 1, k)

LEMMA RealCardSum ==
    ASSUME NEW Q, NEW w, \A v \in Value : w[v] = RowProduct(Q, v)
    PROVE  RealCard(Q) = SumOf(w, Value)
<1> DEFINE Body(iter) == [s \in SUBSET Value |->
              IF s = {} THEN 0 ELSE RowProduct(Q, Pick(s)) + iter[s \ {Pick(s)}]]
<1>1. RealCard(Q) = (CHOOSE iter : iter = Body(iter))[Value]
  BY DEF RealCard, MapThenSumSet, MapThenFoldSet, Pick, RowProduct
<1>2. \A s \in SUBSET Value : s # {} => RowProduct(Q, Pick(s)) = w[Pick(s)]
  BY PickIn
<1>3. \A iter : Body(iter) = SumBody(w, Value, iter)
  BY <1>2 DEF SumBody
<1> HIDE DEF Body
<1>4. (CHOOSE iter : iter = Body(iter)) = SumIter(w, Value)
  BY <1>3 DEF SumIter
<1> QED BY <1>1, <1>4, SumUnfold

LEMMA CardSum ==
    ASSUME NEW k, NEW f,
           \A m \in DOMAIN statistics[k].added :
               f[m] = statistics[k].added[m]
                      * Frequency(Esets[statistics[k].from], m) * VectorProduct(k, m)
    PROVE  Card(k) = SumOf(f, DOMAIN statistics[k].added)
<1> DEFINE C == DOMAIN statistics[k].added
           Term(m) == statistics[k].added[m]
                      * Frequency(Esets[statistics[k].from], m) * VectorProduct(k, m)
           Body(iter) == [s \in SUBSET C |->
              IF s = {} THEN 0 ELSE Term(Pick(s)) + iter[s \ {Pick(s)}]]
<1>1. Card(k) = (CHOOSE iter : iter = Body(iter))[C]
  BY DEF Card, MapThenSumSet, MapThenFoldSet, Pick, VectorProduct
<1>2. \A s \in SUBSET C : s # {} => Term(Pick(s)) = f[Pick(s)]
  BY PickIn
<1> HIDE DEF Term
<1>3. \A iter : Body(iter) = SumBody(f, C, iter)
  BY <1>2 DEF SumBody
<1> HIDE DEF Body
<1>4. (CHOOSE iter : iter = Body(iter)) = SumIter(f, C)
  BY <1>3 DEF SumIter
<1> QED BY <1>1, <1>4, SumUnfold

\* With one column in the equal set, the count of a table is its frequency.
LEMMA CountIsFreq ==
    ASSUME NEW i \in DOMAIN Esets, OneColumnEach(Esets[i]),
           NEW e \in Esets[i], NEW v \in Value
    PROVE  /\ EntryTable(e) \in TablesOf(Esets[i])
           /\ CountMap(Esets[i], v)[EntryTable(e)] = Freq[e][v]
<1>1. PICK S : S = {f \in Esets[i] : EntryTable(f) = EntryTable(e)}
  OBVIOUS
<1>2. S = {e}
  BY <1>1 DEF OneColumnEach
<1>3. EntryTable(e) \in TablesOf(Esets[i])
  BY DEF TablesOf
<1>4. PICK n \in Nat : n = Freq[e][v]
  BY FreqAssumption
<1>5. PICK f : f = [x \in S |-> Freq[x][v]]
  OBVIOUS
<1>6. CountMap(Esets[i], v)[EntryTable(e)] = SumOf(f, S)
  <2>1. CountMap(Esets[i], v)[EntryTable(e)] = MapThenSumSet(LAMBDA x : Freq[x][v], S)
    BY <1>1, <1>3 DEF CountMap
  <2>2. MapThenSumSet(LAMBDA x : Freq[x][v], S) = SumOf(f, S)
    BY <1>5, FreqSum
  <2> QED BY <2>1, <2>2
<1>7. e \in S /\ IsFiniteSet(S) /\ S \ {e} = {} /\ f[e] = n /\ \A x \in S : f[x] \in Nat
  BY <1>2, <1>4, <1>5, FS_Singleton
<1>8. SumOf(f, S) = f[e] + SumOf(f, S \ {e})
  BY <1>7, SumRemove
<1>9. SumOf(f, {}) = 0
  BY SumEmpty
<1>10. SumOf(f, S) = n
  BY <1>4, <1>7, <1>8, <1>9
<1> QED BY <1>3, <1>4, <1>6, <1>10

(***************************************************************************)
(* For one key value: the product of its counts over the summary's key is  *)
(* the product of the columns' frequencies.                                *)
(***************************************************************************)
LEMMA ProductsAgree ==
    ASSUME NEW i \in DOMAIN Esets, OneColumnEach(Esets[i]),
           NEW Q \in SUBSET Esets[i], Q # {},
           NEW v \in Value
    PROVE  /\ VectorProduct(Collapse(Q), CountMap(Esets[i], v)) = RowProduct(Q, v)
           /\ RowProduct(Q, v) \in Nat
           /\ CountMap(Esets[i], v) \notin CountNum(Esets[i]) => RowProduct(Q, v) = 0
<1>1. PICK m : m = CountMap(Esets[i], v)
  OBVIOUS
<1>2. IsFiniteSet(Q)
  BY EsetsAssumption, FS_Subset
<1>3. \A e \in Q : Freq[e][v] \in Nat /\ m[EntryTable(e)] = Freq[e][v]
                   /\ EntryTable(e) \in TablesOf(Esets[i])
  BY <1>1, FreqAssumption, CountIsFreq
<1>4. PICK r : r = [e \in Q |-> Freq[e][v]]
  OBVIOUS
<1>5. RowProduct(Q, v) = ProductOf(r, Q) /\ \A e \in Q : r[e] \in Nat
  BY <1>3, <1>4, FreqProduct DEF RowProduct
<1>6. RowProduct(Q, v) \in Nat
  BY <1>2, <1>5, ProductFacts
<1>7. VectorProduct(Collapse(Q), m) = RowProduct(Q, v)
  <2>1. CASE Cardinality(Q) = 1
    <3>1. PICK e : Q = {e}
      BY <1>2, <2>1, FS_Singleton
    <3>2. PICK k, x : x = <<EntryTable(e), NoColumn>> /\ k = {x}
      OBVIOUS
    <3>3. Collapse(Q) = k /\ EntryTable(x) = EntryTable(e)
      BY <2>1, <3>1, <3>2 DEF Collapse, TablesOf, EntryTable
    <3>4. PICK f : f = [y \in k |-> m[EntryTable(y)]]
      OBVIOUS
    <3>5. VectorProduct(k, m) = ProductOf(f, k)
      BY <3>4, CountProduct DEF VectorProduct
    <3>6. f[x] = Freq[e][v] /\ Freq[e][v] \in Nat /\ r[e] = Freq[e][v]
      BY <1>3, <1>4, <3>1, <3>2, <3>3, <3>4
    <3>7. IsFiniteSet(k) /\ \A y \in k : f[y] \in Nat
      BY <3>2, <3>6, FS_Singleton
    <3>8. ProductOf(f, k) = f[x]
      BY <3>2, <3>7, ProductFacts
    <3>9. ProductOf(r, Q) = r[e]
      BY <1>2, <1>5, <3>1, ProductFacts
    <3> QED BY <1>5, <3>3, <3>5, <3>6, <3>8, <3>9
  <2>2. CASE Cardinality(Q) # 1
    <3>1. Collapse(Q) = Q
      BY <2>2 DEF Collapse
    <3>2. \A e \in Q : r[e] = m[EntryTable(e)]
      BY <1>3, <1>4
    <3>3. VectorProduct(Q, m) = ProductOf(r, Q)
      BY <3>2, CountProduct DEF VectorProduct
    <3> QED BY <1>5, <3>1, <3>3
  <2> QED BY <2>1, <2>2
<1>8. ASSUME m \notin CountNum(Esets[i]) PROVE RowProduct(Q, v) = 0
  <2>1. ~\E t \in TablesOf(Esets[i]) : m[t] > 0
    BY <1>1, <1>8 DEF CountNum
  <2>2. ASSUME NEW e \in Q PROVE r[e] = 0
    <3>1. PICK n \in Nat : n = Freq[e][v] /\ n = m[EntryTable(e)]
      BY <1>3
    <3>2. ~(n > 0)
      BY <1>3, <2>1, <3>1
    <3>3. n = 0
      BY <3>2
    <3>4. r[e] = n
      BY <1>4, <3>1
    <3> QED BY <3>3, <3>4
  <2> QED BY <1>2, <1>5, <2>2, ProductFacts
<1> QED BY <1>1, <1>6, <1>7, <1>8

\* The columns a summary stands for are those it was made from.
LEMMA ColumnsOfKey ==
    ASSUME NEW k, NEW i \in DOMAIN Esets, OneColumnEach(Esets[i]), statistics[k].from = i,
           NEW Q \in SUBSET Esets[i], Q # {}, k = Collapse(Q)
    PROVE  KeyColumns(k) = Q
<1>1. IsFiniteSet(Q)
  BY EsetsAssumption, FS_Subset
<1>2. CASE Cardinality(Q) = 1
  <2>1. PICK e : Q = {e} /\ e \in Esets[i]
    BY <1>1, <1>2, FS_Singleton
  <2>2. k = {<<EntryTable(e), NoColumn>>}
    BY <1>2, <2>1 DEF Collapse, TablesOf
  <2>3. ~\A x \in k : x[2] # NoColumn
    BY <2>2
  <2>4. TablesOf(k) = {EntryTable(e)}
    BY <2>2 DEF TablesOf, EntryTable
  <2>5. KeyColumns(k) = {f \in Esets[i] : EntryTable(f) \in {EntryTable(e)}}
    BY <2>3, <2>4 DEF KeyColumns
  <2> QED BY <2>1, <2>5 DEF OneColumnEach
<1>3. CASE Cardinality(Q) # 1
  <2>1. k = Q
    BY <1>3 DEF Collapse
  <2>2. \A x \in k : x[2] # NoColumn
    BY <2>1, ColumnsAssumption
  <2> QED BY <2>1, <2>2 DEF KeyColumns
<1> QED BY <1>2, <1>3

(***************************************************************************)
(* A summary to which every count vector was added once has the size of    *)
(* the join as its cardinality: the key values are grouped by their count  *)
(* vectors, and those that occur nowhere contribute nothing.               *)
(***************************************************************************)
LEMMA CompleteIsExact ==
    ASSUME NEW k, NEW i \in DOMAIN Esets, OneColumnEach(Esets[i]), statistics[k].from = i,
           DOMAIN statistics[k].added = CountNum(Esets[i]),
           \A m \in CountNum(Esets[i]) : statistics[k].added[m] = 1,
           NEW Q \in SUBSET Esets[i], Q # {}, k = Collapse(Q)
    PROVE  Card(k) = RealCard(Q)
<1>1. PICK E, C : E = Esets[i] /\ C = CountNum(E)
  OBVIOUS
<1>2. PICK h : h = [v \in Value |-> CountMap(E, v)]
  OBVIOUS
<1>3. PICK w : w = [v \in Value |-> RowProduct(Q, v)]
  OBVIOUS
<1>4. PICK g : g = [m \in C |-> VectorProduct(k, m)]
  OBVIOUS
<1>5. \A m \in C : \E v \in Value : m = h[v]
  BY <1>1, <1>2 DEF CountNum
<1>6. IsFiniteSet(C)
  <2>1. PICK M : M = {h[v] : v \in Value}
    OBVIOUS
  <2>2. h \in Surjection(Value, M)
    BY <1>2, <2>1 DEF Surjection
  <2>3. IsFiniteSet(M)
    BY <2>2, ValueAssumption, FS_Surjection
  <2>4. C \in SUBSET M
    BY <1>5, <2>1
  <2> QED BY <2>3, <2>4, FS_Subset
<1>7. ASSUME NEW v \in Value
      PROVE  /\ VectorProduct(k, h[v]) = w[v]
             /\ w[v] \in Nat
             /\ h[v] \notin C => w[v] = 0
  BY <1>1, <1>2, <1>3, ProductsAgree
<1>8. \A m \in C : g[m] \in Nat
  BY <1>4, <1>5, <1>7
<1>9. DependsOn(w, Value, h, g, C)
  BY <1>4, <1>7 DEF DependsOn
<1>10. PICK f : f = [m \in C |-> Cardinality({v \in Value : h[v] = m}) * g[m]]
  OBVIOUS
<1>11. SumOf(w, Value) = SumOf(f, C)
  <2>1. CountsGroups(f, Value, h, g, C)
    BY <1>10 DEF CountsGroups
  <2> QED BY <1>6, <1>8, <1>9, <2>1, ValueAssumption, SumByGroups
<1>12. ASSUME NEW m \in C
       PROVE  f[m] = statistics[k].added[m]
                     * Frequency(Esets[statistics[k].from], m) * VectorProduct(k, m)
  <2>1. PICK n \in Nat : n = Cardinality({v \in Value : h[v] = m})
    <3>1. {v \in Value : h[v] = m} \in SUBSET Value
      OBVIOUS
    <3> QED BY <3>1, ValueAssumption, FS_Subset, FS_CardinalityType
  <2>2. {v \in Value : CountMap(E, v) = m} = {v \in Value : h[v] = m}
    BY <1>2
  <2>3. Frequency(Esets[statistics[k].from], m) = n
    BY <1>1, <2>1, <2>2 DEF Frequency
  <2>4. statistics[k].added[m] = 1
    BY <1>1
  <2>5. f[m] = n * g[m] /\ g[m] = VectorProduct(k, m) /\ g[m] \in Nat
    BY <1>4, <1>8, <1>10, <2>1
  <2>6. 1 * n * g[m] = n * g[m]
    BY <2>1
  <2> QED BY <2>3, <2>4, <2>5, <2>6
<1>13. Card(k) = SumOf(f, C)
  BY <1>1, <1>12, CardSum
<1>14. RealCard(Q) = SumOf(w, Value)
  BY <1>3, RealCardSum
<1> QED BY <1>11, <1>13, <1>14

(***************************************************************************)
(* The cardinality of a summary is the size of the join, for every schema  *)
(* and database, if its equal set has one column per table.  Two columns   *)
(* of a table are summed, and collect_two_columns shows what becomes of    *)
(* them.                                                                   *)
(***************************************************************************)
THEOREM CardsAreExact == Spec => []ExactCard
<1>1. Init => CollectInv /\ ClosedBetween /\ KeysListed
  <2>1. Init => KeysListed
    BY DEF Init, KeysListed
  <2> QED BY <2>1, InitInv, ClosedBetweenInit
<1>2. CollectInv /\ ClosedBetween /\ KeysListed /\ [Next]_vars
        => CollectInv' /\ ClosedBetween' /\ KeysListed'
  BY NextInv, ClosedBetweenStep, KeysListedStep
<1>3. CollectInv /\ KeysListed => ExactCard
  <2> SUFFICES ASSUME CollectInv, KeysListed, NEW k \in DOMAIN statistics,
                      statistics[k].finished, k # {},
                      OneColumnEach(Esets[statistics[k].from])
               PROVE  Card(k) = RealCard(KeyColumns(k))
    BY DEF ExactCard
  <2>1. PICK i \in DOMAIN Esets : statistics[k] \in Statistic(i)
    BY DEF CollectInv, TypeOK
  <2>2. statistics[k].from = i /\ DOMAIN statistics[k].added = CountNum(Esets[i])
    BY <2>1 DEF Statistic
  <2>3. \A m \in CountNum(Esets[i]) : statistics[k].added[m] = 1
    BY <2>2 DEF CollectInv, ExactlyOnce
  <2>4. PICK Q \in SUBSET Esets[i] : k = Collapse(Q)
    BY <2>2, ListedSubset DEF KeysListed
  <2>5. Q # {}
    <3>1. Collapse({}) = {}
      BY FS_EmptySet DEF Collapse
    <3> QED BY <2>4, <3>1
  <2>6. KeyColumns(k) = Q
    BY <2>2, <2>4, <2>5, ColumnsOfKey
  <2>7. Card(k) = RealCard(Q)
    BY <2>2, <2>3, <2>4, <2>5, CompleteIsExact
  <2> QED BY <2>6, <2>7
<1> QED BY <1>1, <1>2, <1>3, PTL DEF Spec
=============================================================================

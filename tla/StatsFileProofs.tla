-------------------------- MODULE StatsFileProofs --------------------------
(***************************************************************************)
(* Proofs about StatsFile, for every schema and every set of settings.     *)
(***************************************************************************)
EXTENDS StatsFile, EqualSetProofs, TLAPS

(***************************************************************************)
(* Writing and reading back: what serialize writes, deserialize and a      *)
(* second serialize reproduce.                                             *)
(***************************************************************************)
LEMMA RoundTrip ==
    ASSUME NEW stats, NEW s
    PROVE  Serialized(Deserialized(Serialized(stats), s)) = Serialized(stats)
BY DEF Serialized, Deserialized

\* Every summary that was read has the precision of the settings.
LEMMA ReadPrecision ==
    ASSUME NEW stats, NEW s, NEW k \in DOMAIN Deserialized(stats, s)
    PROVE  Deserialized(stats, s)[k] =
             [db |-> Deserialized(stats, s)[k].db,
              built |-> Deserialized(stats, s)[k].built,
              precision |-> s.CompressPrecision]
BY DEF Deserialized

\* A summary of the settings' precision survives the round trip unchanged.
LEMMA SummaryKept ==
    ASSUME NEW stats, NEW s, NEW k \in DOMAIN stats, k # {},
           stats[k] = [db |-> stats[k].db, built |-> stats[k].built,
                       precision |-> s.CompressPrecision]
    PROVE  /\ k \in DOMAIN Serialized(stats)
           /\ Deserialized(Serialized(stats), s)[k] = stats[k]
BY DEF Serialized, Deserialized

\* The initial value of the rates is a rate.
LEMMA DefaultIsRate == DefaultRate \in Rates
BY DEF Rates

\* Nothing was written or read yet.
LEMMA InitInv == Init => StatsFileInv
<1> SUFFICES ASSUME Init PROVE StatsFileInv
  OBVIOUS
<1>1. /\ pc = "down" /\ db = 0 /\ conf \in Settings
      /\ file.state = "absent" /\ file.rate = DefaultRate
      /\ AdjustRate = DefaultRate /\ PredicateAdjustRate = DefaultRate
      /\ hadFile = FALSE /\ lost = FALSE
  BY DEF Init, Remains
<1>2. {AdjustRate, PredicateAdjustRate, file.rate} \subseteq Rates
  BY <1>1, DefaultIsRate
<1>3. TypeOK
  <2>1. db \in 0..MaxDb
    BY <1>1, MaxDbAssumption
  <2>2. hadFile \in BOOLEAN /\ lost \in BOOLEAN
    BY <1>1
  <2> QED BY <1>1, <1>2, <2>1, <2>2 DEF TypeOK
<1> QED BY <1>1, <1>3 DEF StatsFileInv, FileOK, MemoryOK, SavedOK

\* A new process, or a changed database.
LEMMA StartInv == StatsFileInv /\ Start => StatsFileInv'
<1> SUFFICES ASSUME StatsFileInv, Start PROVE StatsFileInv'
  OBVIOUS
<1>1. /\ pc' = "read" /\ file' = file /\ db' = db /\ conf' \in Settings
      /\ AdjustRate' = DefaultRate /\ PredicateAdjustRate' = DefaultRate
      /\ hadFile' = (file.state # "absent") /\ lost' = FALSE
  BY DEF Start
<1>2. TypeOK'
  <2>1. hadFile' \in BOOLEAN
    BY <1>1
  <2>2. {AdjustRate', PredicateAdjustRate', file'.rate} \subseteq Rates
    BY <1>1, DefaultIsRate DEF StatsFileInv, TypeOK
  <2> QED BY <1>1, <2>1, <2>2 DEF StatsFileInv, TypeOK
<1>3. FileOK'
  BY <1>1 DEF StatsFileInv, FileOK
<1>4. MemoryOK' /\ SavedOK'
  BY <1>1 DEF MemoryOK, SavedOK
<1> QED BY <1>2, <1>3, <1>4 DEF StatsFileInv

\* The collections that were possible before are possible after.
LEMMA ChangeInv == StatsFileInv /\ ChangeDatabase => StatsFileInv'
<1> SUFFICES ASSUME StatsFileInv, ChangeDatabase PROVE StatsFileInv'
  OBVIOUS
<1>1. /\ pc = "down" /\ pc' = "down" /\ db < MaxDb /\ db' = db + 1
      /\ UNCHANGED <<file, conf, AdjustRate, PredicateAdjustRate, hadFile, lost>>
  BY DEF ChangeDatabase, memory
<1>2. TypeOK' /\ 0..db \subseteq 0..db'
  BY <1>1, MaxDbAssumption DEF StatsFileInv, TypeOK, Rates
<1>3. FileOK'
  BY <1>1, <1>2 DEF StatsFileInv, FileOK
<1>4. MemoryOK' /\ SavedOK'
  BY <1>1 DEF MemoryOK, SavedOK
<1> QED BY <1>2, <1>3, <1>4 DEF StatsFileInv

\* TryReadStatistics loads what a whole collection wrote.
LEMMA ReadInv == StatsFileInv /\ TryReadStatistics => StatsFileInv'
<1> SUFFICES ASSUME StatsFileInv, TryReadStatistics PROVE StatsFileInv'
  OBVIOUS
<1>1. /\ pc = "read" /\ pc' = "assign" /\ file.state = "whole"
      /\ statistics' = Deserialized(file.stats, conf)
      /\ AdjustRate' = file.rate /\ PredicateAdjustRate' = file.rate
      /\ UNCHANGED <<file, db, conf, hadFile, lost>>
  BY DEF TryReadStatistics, Parses
<1>2. PICK s \in Settings, d \in 0..db :
        /\ file.stats = Serialized(CollectedStatistics(s, d))
        /\ file.rate \in {DefaultRate, MeasuredRate(s, d)}
  BY <1>1 DEF StatsFileInv, FileOK
<1>3. Serialized(statistics') = file.stats
  BY <1>1, <1>2, RoundTrip
<1>4. TypeOK'
  BY <1>1 DEF StatsFileInv, TypeOK, Rates
<1>5. FileOK'
  BY <1>1 DEF StatsFileInv, FileOK
<1>6. MemoryOK'
  <2>1. Collection(statistics, s, d)'
    BY <1>2, <1>3 DEF Collection
  <2>2. \A k \in DOMAIN statistics' :
          statistics'[k] = [db |-> statistics'[k].db, built |-> statistics'[k].built,
                            precision |-> conf'.CompressPrecision]
    BY <1>1, ReadPrecision
  <2> QED BY <1>1, <1>2, <2>1, <2>2 DEF MemoryOK
<1>7. SavedOK'
  BY <1>1, <1>3 DEF SavedOK
<1> QED BY <1>4, <1>5, <1>6, <1>7 DEF StatsFileInv

\* CollectStatistics fills the map with one collection.
LEMMA CollectInv == StatsFileInv /\ CollectStatistics => StatsFileInv'
<1> SUFFICES ASSUME StatsFileInv, CollectStatistics PROVE StatsFileInv'
  OBVIOUS
<1>1. /\ pc = "collect" /\ pc' = "open"
      /\ statistics' = CollectedStatistics(conf, db)
      /\ AdjustRate' \in {AdjustRate, MeasuredRate(conf, db)}
      /\ PredicateAdjustRate' = AdjustRate'
      /\ UNCHANGED <<file, db, conf, hadFile, lost>>
  BY DEF CollectStatistics, CalcAdjustRate
<1>2. AdjustRate = DefaultRate /\ conf \in Settings /\ db \in 0..db /\ db \in 0..MaxDb
  BY <1>1, MaxDbAssumption DEF StatsFileInv, TypeOK, MemoryOK
<1>3. TypeOK'
  BY <1>1, <1>2 DEF StatsFileInv, TypeOK, Rates
<1>4. FileOK'
  BY <1>1 DEF StatsFileInv, FileOK
<1>5. MemoryOK'
  <2>1. Collection(statistics, conf, db)'
    BY <1>1 DEF Collection
  <2>2. \A k \in DOMAIN statistics' :
          statistics'[k] = [db |-> statistics'[k].db, built |-> statistics'[k].built,
                            precision |-> conf'.CompressPrecision]
    BY <1>1 DEF CollectedStatistics
  <2> QED BY <1>1, <1>2, <2>1, <2>2 DEF MemoryOK
<1>6. SavedOK'
  BY <1>1 DEF SavedOK, StatsFileInv
<1> QED BY <1>3, <1>4, <1>5, <1>6 DEF StatsFileInv

\* The steps that rewrite the file.
LEMMA OpenInv ==
    StatsFileInv /\ (OpenStatsFile \/ WriteSome \/ WriteFails) => StatsFileInv'
<1> SUFFICES ASSUME StatsFileInv, OpenStatsFile \/ WriteSome \/ WriteFails
             PROVE  StatsFileInv'
  OBVIOUS
<1>1. /\ pc \in {"open", "write"} /\ pc' \in {"write", "report"}
      /\ pc' = "report" => lost' = TRUE
      /\ file' \in {file, Remains("empty"), Remains("partial")}
      /\ lost' \in BOOLEAN
      /\ UNCHANGED <<db, conf, statistics, AdjustRate, PredicateAdjustRate, hadFile>>
  BY DEF OpenStatsFile, WriteSome, WriteFails, memory, StatsFileInv, TypeOK
<1>2. TypeOK'
  BY <1>1 DEF StatsFileInv, TypeOK, Rates, Remains
<1>3. FileOK'
  BY <1>1 DEF StatsFileInv, FileOK, Remains
<1>4. MemoryOK'
  BY <1>1 DEF StatsFileInv, MemoryOK, Collection
<1>5. SavedOK'
  BY <1>1 DEF StatsFileInv, SavedOK
<1> QED BY <1>2, <1>3, <1>4, <1>5 DEF StatsFileInv

\* The write that makes the file whole again.
LEMMA CloseInv == StatsFileInv /\ CloseStatsFile => StatsFileInv'
<1> SUFFICES ASSUME StatsFileInv, CloseStatsFile PROVE StatsFileInv'
  OBVIOUS
<1>1. /\ pc = "write" /\ pc' = "report"
      /\ file' = [state |-> "whole", stats |-> Serialized(statistics),
                  rate |-> AdjustRate]
      /\ UNCHANGED <<db, conf, statistics, AdjustRate, PredicateAdjustRate,
                     hadFile, lost>>
  BY DEF CloseStatsFile, memory
<1>2. TypeOK'
  BY <1>1 DEF StatsFileInv, TypeOK, Rates
<1>3. FileOK'
  BY <1>1 DEF StatsFileInv, FileOK, MemoryOK, Collection
<1>4. MemoryOK'
  BY <1>1 DEF StatsFileInv, MemoryOK, Collection
<1>5. SavedOK'
  BY <1>1 DEF StatsFileInv, SavedOK
<1> QED BY <1>2, <1>3, <1>4, <1>5 DEF StatsFileInv

\* The steps from the file to the queries.
LEMMA AssignInv == StatsFileInv /\ (OutputStatsSize \/ AssignRates) => StatsFileInv'
<1> SUFFICES ASSUME StatsFileInv, OutputStatsSize \/ AssignRates PROVE StatsFileInv'
  OBVIOUS
<1>1. /\ \/ pc = "report" /\ pc' = "assign"
         \/ pc = "assign" /\ pc' = "serve"
      /\ \/ UNCHANGED <<AdjustRate, PredicateAdjustRate>>
         \/ /\ pc' = "serve" /\ conf.UseAssignedAdjustRate
            /\ {AdjustRate', PredicateAdjustRate'} \subseteq Rates
      /\ UNCHANGED <<file, db, conf, statistics, hadFile, lost>>
  BY DEF OutputStatsSize, AssignRates, memory, Rates
<1>2. TypeOK'
  BY <1>1 DEF StatsFileInv, TypeOK, Rates
<1>3. FileOK'
  BY <1>1 DEF StatsFileInv, FileOK
<1>4. MemoryOK'
  BY <1>1 DEF StatsFileInv, MemoryOK, Collection
<1>5. SavedOK'
  BY <1>1 DEF StatsFileInv, SavedOK
<1> QED BY <1>2, <1>3, <1>4, <1>5 DEF StatsFileInv

\* The process ends, or goes on to collect.
LEMMA EndInv ==
    StatsFileInv /\ (ReadThrows \/ ReadNothing \/ OpenThrows \/ Exit \/ Crash)
        => StatsFileInv'
<1> SUFFICES ASSUME StatsFileInv,
                    ReadThrows \/ ReadNothing \/ OpenThrows \/ Exit \/ Crash
             PROVE  StatsFileInv'
  OBVIOUS
<1>1. /\ \/ pc' = "down"
         \/ pc' = "collect" /\ pc = "read"
            /\ (conf.RefreshStatistics \/ file.state = "absent")
      /\ UNCHANGED <<file, db, conf, statistics, AdjustRate, PredicateAdjustRate,
                     hadFile, lost>>
  BY DEF ReadThrows, ReadNothing, NoStatistics, OpenThrows, Exit, Crash, memory
<1>2. TypeOK'
  BY <1>1 DEF StatsFileInv, TypeOK, Rates
<1>3. FileOK'
  BY <1>1 DEF StatsFileInv, FileOK
<1>4. MemoryOK' /\ SavedOK'
  BY <1>1 DEF StatsFileInv, MemoryOK, SavedOK
<1> QED BY <1>2, <1>3, <1>4 DEF StatsFileInv

\* A step that changes nothing.
LEMMA StutterInv == StatsFileInv /\ UNCHANGED vars => StatsFileInv'
BY DEF StatsFileInv, vars, TypeOK, FileOK, MemoryOK, SavedOK, Rates, Collection

\* Every step of main, and every fault, keeps the invariant.
LEMMA NextInv == StatsFileInv /\ [Next]_vars => StatsFileInv'
BY StartInv, ChangeInv, ReadInv, CollectInv, OpenInv, CloseInv, AssignInv, EndInv,
   StutterInv
   DEF Next

(***************************************************************************)
(* The invariant holds whatever is killed or changed (main.cpp:512-590).   *)
(***************************************************************************)
THEOREM Invariant == Spec => []StatsFileInv
BY InitInv, NextInv, PTL DEF Spec

(***************************************************************************)
(* main and its file are always well typed.                                *)
(***************************************************************************)
THEOREM TypeCorrect == Spec => []TypeOK
<1>1. StatsFileInv => TypeOK
  BY DEF StatsFileInv
<1> QED BY <1>1, Invariant, PTL

(***************************************************************************)
(* No crash, failed write or change of settings makes the program answer   *)
(* from anything but one complete collection.                              *)
(***************************************************************************)
THEOREM ServesOneCollection == Spec => []ServesWholeCollection
<1>1. StatsFileInv => ServesWholeCollection
  BY DEF StatsFileInv, MemoryOK, ServesWholeCollection
<1> QED BY <1>1, Invariant, PTL

(***************************************************************************)
(* A process that serves has saved what it serves, summary by summary,     *)
(* unless a write failed without notice.                                   *)
(***************************************************************************)
THEOREM SavedIsServed == Spec => []NextStartServesTheSame
<1>1. StatsFileInv => NextStartServesTheSame
  <2> SUFFICES ASSUME StatsFileInv, pc = "serve", ~lost
               PROVE  /\ Parses(file) \/ Serialized(statistics) = <<>>
                      /\ \A k \in DOMAIN statistics \ {{}} :
                            k \in DOMAIN file.stats
                            /\ Deserialized(file.stats, conf)[k] = statistics[k]
                      /\ file.rate.kind # "assigned"
                      /\ ~conf.UseAssignedAdjustRate => file.rate = AdjustRate
    BY DEF NextStartServesTheSame
  <2>1. /\ file.state = "whole" /\ file.stats = Serialized(statistics)
        /\ ~conf.UseAssignedAdjustRate => file.rate = AdjustRate
    BY DEF StatsFileInv, SavedOK
  <2>2. file.rate.kind # "assigned"
    BY <2>1 DEF StatsFileInv, FileOK, DefaultRate, MeasuredRate
  <2>3. \A k \in DOMAIN statistics \ {{}} :
           k \in DOMAIN file.stats
           /\ Deserialized(file.stats, conf)[k] = statistics[k]
    <3> SUFFICES ASSUME NEW k \in DOMAIN statistics, k # {}
                 PROVE  k \in DOMAIN file.stats
                        /\ Deserialized(file.stats, conf)[k] = statistics[k]
      OBVIOUS
    <3>1. statistics[k] = [db |-> statistics[k].db, built |-> statistics[k].built,
                           precision |-> conf.CompressPrecision]
      BY DEF StatsFileInv, MemoryOK
    <3> QED BY <2>1, <3>1, SummaryKept
  <2>4. CASE DOMAIN file.stats = {}
    <3>1. Serialized(statistics) = <<>>
      BY <2>1, <2>4 DEF Serialized
    <3> QED BY <2>1, <2>2, <2>3, <3>1
  <2>5. CASE DOMAIN file.stats # {}
    BY <2>1, <2>2, <2>3, <2>5 DEF Parses
  <2> QED BY <2>4, <2>5
<1> QED BY <1>1, Invariant, PTL

(***************************************************************************)
(* Only a refreshing run, or one that found no file, writes the file.      *)
(***************************************************************************)
THEOREM OnlyRefreshWrites == Spec => OnlyRefreshReplaces
<1>1. StatsFileInv /\ [Next]_vars =>
        [file' # file => conf.RefreshStatistics \/ ~hadFile]_vars
  <2> SUFFICES ASSUME StatsFileInv, Next, file' # file
               PROVE  conf.RefreshStatistics \/ ~hadFile
    BY DEF vars
  <2>1. pc \in {"open", "write"}
    BY DEF Next, Start, TryReadStatistics, ReadThrows, ReadNothing, CollectStatistics,
           OpenStatsFile, WriteSome, CloseStatsFile, WriteFails, OutputStatsSize,
           OpenThrows, AssignRates, Exit, Crash, ChangeDatabase
  <2> QED BY <2>1 DEF StatsFileInv, SavedOK
<1> QED BY <1>1, Invariant, PTL DEF Spec, OnlyRefreshReplaces
-----------------------------------------------------------------------------
\* The subsets of one equal set that a collection under s keeps.
KeptUnder(s, E) ==
    {R \in SUBSET E : ~s.EnableStarSplit \/ Cardinality(R) <= s.MaxStarSize}

(***************************************************************************)
(* The keys of a collection: all subsets within its limit.                 *)
(***************************************************************************)
LEMMA KeysCollected ==
    ASSUME NEW s \in Settings, NEW i \in DOMAIN Esets
    PROVE  SubsetsUnder(s, Esets[i]) = {Collapse(R) : R \in KeptUnder(s, Esets[i])}
<1>1. Esets[i] \in SUBSET Entries /\ IsFiniteSet(Esets[i])
  BY EsetsAssumption DEF Entries
<1>2. s.MaxStarSize \in Nat /\ s.EnableStarSplit \in BOOLEAN
  BY SettingsAssumption
<1>3. CASE s.EnableStarSplit
  <2>1. SubsetsUnder(s, Esets[i])
          = {Collapse(R) : R \in {S \in SUBSET Esets[i] : Cardinality(S) <= s.MaxStarSize}}
    BY <1>1, <1>2, <1>3, LimitedSubsetsListed DEF SubsetsUnder
  <2>2. KeptUnder(s, Esets[i]) = {S \in SUBSET Esets[i] : Cardinality(S) <= s.MaxStarSize}
    BY <1>3 DEF KeptUnder
  <2> QED BY <2>1, <2>2
<1>4. CASE ~s.EnableStarSplit
  <2>1. SubsetsUnder(s, Esets[i]) = {Collapse(R) : R \in SUBSET Esets[i]}
    BY <1>1, <1>4, AllSubsetsListed DEF SubsetsUnder
  <2>2. KeptUnder(s, Esets[i]) = SUBSET Esets[i]
    BY <1>4 DEF KeptUnder
  <2> QED BY <2>1, <2>2
<1> QED BY <1>3, <1>4

\* What a map holding a collection under s answers to: every nonempty subset
\* that was kept, and nothing larger than the limit.
LEMMA CollectionAnswers ==
    ASSUME NEW s \in Settings, NEW d, NEW stats, Collection(stats, s, d),
           NEW i \in DOMAIN Esets, NEW R \in (SUBSET Esets[i]) \ {{}}
    PROVE  Collapse(R) \in DOMAIN stats <=> R \in KeptUnder(s, Esets[i])
<1>1. IsFiniteSet(R) /\ Cardinality(R) # 0
  <2>1. IsFiniteSet(R)
    BY EsetsAssumption, FS_Subset
  <2> QED BY <2>1, FS_EmptySet
<1>2. Collapse(R) # {}
  BY <1>1, CollapseKeepsSize, FS_EmptySet
<1>3. DOMAIN stats \ {{}} = KeysUnder(s) \ {{}}
  BY DEF Collection, Serialized, CollectedStatistics
<1>4. ASSUME R \in KeptUnder(s, Esets[i]) PROVE Collapse(R) \in DOMAIN stats
  <2>1. Collapse(R) \in SubsetsUnder(s, Esets[i])
    BY <1>4, KeysCollected
  <2>2. Collapse(R) \in KeysUnder(s)
    BY <2>1 DEF KeysUnder
  <2> QED BY <1>2, <1>3, <2>2
<1>5. ASSUME Collapse(R) \in DOMAIN stats PROVE R \in KeptUnder(s, Esets[i])
  <2>1. Collapse(R) \in KeysUnder(s)
    BY <1>2, <1>3, <1>5
  <2>2. PICK j \in DOMAIN Esets : Collapse(R) \in SubsetsUnder(s, Esets[j])
    BY <2>1 DEF KeysUnder
  <2>3. PICK S \in KeptUnder(s, Esets[j]) : Collapse(R) = Collapse(S)
    BY <2>2, KeysCollected
  <2>4. S \in SUBSET Esets[j]
    BY <2>3 DEF KeptUnder
  <2>5. IsFiniteSet(S)
    BY <2>4, EsetsAssumption, FS_Subset
  <2>6. Cardinality(R) = Cardinality(S)
    BY <1>1, <2>3, <2>5, CollapseKeepsSize
  <2> QED BY <2>3, <2>6 DEF KeptUnder
<1> QED BY <1>4, <1>5

(***************************************************************************)
(* StarsAnswered, for every schema and every set of settings whose split   *)
(* limits are at least 3 (below, Split throws: equalset.hpp:145).          *)
(***************************************************************************)
THEOREM StarsAreAnswered ==
    ASSUME \A s \in Settings : s.EnableStarSplit => s.MaxStarSize >= 3
    PROVE  Spec => []StarsAnswered
<1>1. ASSUME StatsFileInv, NEW s \in Settings, NEW d \in 0..db,
             Collection(statistics, s, d),
             NEW i \in DOMAIN Esets, NEW Q \in (SUBSET Esets[i]) \ {{}}
      PROVE  LET answered == LookupUnder(conf, Q) \subseteq DOMAIN statistics
                 within == ~s.EnableStarSplit \/ Cardinality(Q) <= s.MaxStarSize
                 cutAlike == /\ conf.EnableStarSplit
                             /\ conf.MaxStarSize <= s.MaxStarSize
             IN  /\ within \/ cutAlike => answered
                 /\ ~within /\ ~conf.EnableStarSplit => ~answered
  <2> DEFINE answered == LookupUnder(conf, Q) \subseteq DOMAIN statistics
             within == ~s.EnableStarSplit \/ Cardinality(Q) <= s.MaxStarSize
             cutAlike == /\ conf.EnableStarSplit
                         /\ conf.MaxStarSize <= s.MaxStarSize
  <2>1. Esets[i] \in SUBSET Entries /\ IsFiniteSet(Esets[i])
    BY EsetsAssumption DEF Entries
  <2>2. Q \in SUBSET Entries /\ IsFiniteSet(Q) /\ Cardinality(Q) \in Nat
    BY <2>1, FS_Subset, FS_CardinalityType
  <2>3. conf \in Settings /\ conf.MaxStarSize \in Nat /\ s.MaxStarSize \in Nat
    BY <1>1, SettingsAssumption DEF StatsFileInv, TypeOK
  <2>4. \A R \in (SUBSET Esets[i]) \ {{}} :
           Collapse(R) \in DOMAIN statistics <=> R \in KeptUnder(s, Esets[i])
    BY <1>1, CollectionAnswers
  <2>5. CASE conf.EnableStarSplit
    <3>1. conf.MaxStarSize >= 3 /\ LookupUnder(conf, Q) = Split(Q, conf.MaxStarSize)
      BY <2>3, <2>5 DEF LookupUnder
    <3>2. ASSUME within \/ cutAlike, NEW k \in LookupUnder(conf, Q)
          PROVE  k \in DOMAIN statistics
      <4>1. PICK R \in (SUBSET Q) \ {{}} :
               Cardinality(R) <= conf.MaxStarSize /\ k = Collapse(R)
        BY <2>2, <2>3, <3>1, <3>2, PiecesWithinLimit
      <4>2. IsFiniteSet(R) /\ Cardinality(R) <= Cardinality(Q)
        BY <2>2, <4>1, FS_Subset
      <4>3. Cardinality(R) \in Nat
        BY <4>2, FS_CardinalityType
      <4>4. ~s.EnableStarSplit \/ Cardinality(R) <= s.MaxStarSize
        BY <2>2, <2>3, <3>2, <4>1, <4>2, <4>3
      <4>5. R \in (SUBSET Esets[i]) \ {{}} /\ R \in KeptUnder(s, Esets[i])
        BY <4>1, <4>4 DEF KeptUnder
      <4> QED BY <2>4, <4>1, <4>5
    <3> QED BY <2>5, <3>2
  <2>6. CASE ~conf.EnableStarSplit
    <3>1. LookupUnder(conf, Q) = {Collapse(Q)}
      BY <2>6 DEF LookupUnder
    <3>2. answered <=> within
      BY <2>4, <3>1 DEF KeptUnder
    <3> QED BY <2>6, <3>2
  <2> QED BY <2>5, <2>6
<1>2. StatsFileInv => StarsAnswered
  BY <1>1 DEF StarsAnswered
<1> QED BY <1>2, Invariant, PTL
=============================================================================

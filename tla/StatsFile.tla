------------------------------ MODULE StatsFile ------------------------------
(***************************************************************************)
(* The statistics file over many runs of the program (main.cpp).  A start  *)
(* reads its settings, then either loads the file or, when it is told to   *)
(* refresh or there is none, collects and rewrites the file in place; then *)
(* it serves queries until it exits.  Between runs the settings and the    *)
(* database may change.  The process may be killed anywhere, and writing   *)
(* may fail without notice: nobody looks at the state of the stream.       *)
(*                                                                         *)
(* Collection is one step here; SequentialCollect and Collect have the     *)
(* detail.  A summary is the database it was computed from, the precision  *)
(* its buckets were built with and the precision merging will use.         *)
(***************************************************************************)
EXTENDS EqualSet, Sequences

CONSTANTS
    Esets,      \* "EqualSets" of the schema file, a sequence
    Settings,   \* the contents config.json may have
    MaxDb       \* bound: how often the database changes

ASSUME EsetsAssumption ==
    /\ Esets \in Seq(SUBSET (Nat \X Nat))
    /\ \A i \in DOMAIN Esets : IsFiniteSet(Esets[i])
ASSUME SettingsAssumption ==
    Settings \subseteq
        [RefreshStatistics : BOOLEAN, EnableStarSplit : BOOLEAN,
         MaxStarSize : Nat, CompressPrecision : Nat, UseAssignedAdjustRate : BOOLEAN]
ASSUME MaxDbAssumption == MaxDb \in Nat

VARIABLES
    file,                        \* STATS_PATH: how much of it there is, and what
    db,                          \* the version of the database
    pc,                          \* where main is
    conf,                        \* the settings it has read
    statistics, AdjustRate, PredicateAdjustRate,
    hadFile,                     \* the file existed when this run started
    lost                         \* a write of this run failed

vars == <<file, db, pc, conf, statistics, AdjustRate, PredicateAdjustRate,
          hadFile, lost>>
memory == <<statistics, AdjustRate, PredicateAdjustRate>>
-----------------------------------------------------------------------------
\* The subsets PrepareCollection lists for one equal set under settings s.
SubsetsUnder(s, E) ==
    LET list == IF s.EnableStarSplit THEN GetAllSubsetLimitSize(E, s.MaxStarSize)
                ELSE GetAllSubset(E)
    IN  {list[i] : i \in DOMAIN list}

KeysUnder(s) == UNION {SubsetsUnder(s, Esets[i]) : i \in DOMAIN Esets}

\* What a whole collection under s of database version d leaves in the map.
CollectedStatistics(s, d) ==
    [k \in KeysUnder(s) |-> [db |-> d, built |-> s.CompressPrecision,
                             precision |-> s.CompressPrecision]]

\* The members' initial values, a rate measured by a collection, and the
\* rates of config.json.
DefaultRate == [kind |-> "default", by |-> <<>>]
MeasuredRate(s, d) ==
    [kind |-> "measured",
     by |-> <<s.EnableStarSplit, s.MaxStarSize, s.CompressPrecision, d>>]
AssignedRate(which) == [kind |-> "assigned", by |-> <<which>>]

\* A mutant of Serialized: the summaries of single tables are skipped.
SerializedJoins(stats) ==
    [k \in {l \in DOMAIN stats : Cardinality(l) > 1} |->
        [db |-> stats[k].db, built |-> stats[k].built]]

\* serialize: the entry of the empty set is skipped, the precision not written.
Serialized(stats) ==
    [k \in DOMAIN stats \ {{}} |-> [db |-> stats[k].db, built |-> stats[k].built]]

\* deserialize: each summary takes the precision of the current settings.
Deserialized(stats, s) ==
    [k \in DOMAIN stats |-> [db |-> stats[k].db, built |-> stats[k].built,
                             precision |-> s.CompressPrecision]]

\* A mutant of Parses: what there is of a file is taken.
ParsesPart(f) == f.state # "absent"

\* json::parse accepts the whole text only; serialize writes "Statistics",
\* which deserialize asks for, when there is at least one summary.
Parses(f) == f.state = "whole" /\ DOMAIN f.stats # {}

Remains(state) == [state |-> state, stats |-> <<>>, rate |-> DefaultRate]
-----------------------------------------------------------------------------
Init ==
    /\ file = Remains("absent")
    /\ db = 0
    /\ pc = "down"
    /\ conf \in Settings
    /\ statistics = <<>>
    /\ AdjustRate = DefaultRate /\ PredicateAdjustRate = DefaultRate
    /\ hadFile = FALSE
    /\ lost = FALSE

\* main up to TryReadStatistics; the manager is a new object.
Start ==
    /\ pc = "down"
    /\ conf' \in Settings
    /\ statistics' = <<>>
    /\ AdjustRate' = DefaultRate /\ PredicateAdjustRate' = DefaultRate
    /\ hadFile' = (file.state # "absent")
    /\ lost' = FALSE
    /\ pc' = "read"
    /\ UNCHANGED <<file, db>>

NoStatistics == conf.RefreshStatistics \/ file.state = "absent"

TryReadStatistics ==
    /\ pc = "read"
    /\ ~NoStatistics
    /\ Parses(file)
    /\ statistics' = Deserialized(file.stats, conf)
    /\ AdjustRate' = file.rate /\ PredicateAdjustRate' = file.rate
    /\ pc' = "assign"
    /\ UNCHANGED <<file, db, conf, hadFile, lost>>

\* A mutant of ReadThrows: collect when the file cannot be parsed.
ReadThrowsNot ==
    /\ pc = "read"
    /\ ~NoStatistics
    /\ ~Parses(file)
    /\ pc' = "collect"
    /\ UNCHANGED <<file, db, conf, memory, hadFile, lost>>

\* The exception of json::parse or of at() ends main.
ReadThrows ==
    /\ pc = "read"
    /\ ~NoStatistics
    /\ ~Parses(file)
    /\ pc' = "down"
    /\ UNCHANGED <<file, db, conf, memory, hadFile, lost>>

ReadNothing ==
    /\ pc = "read"
    /\ NoStatistics
    /\ pc' = "collect"
    /\ UNCHANGED <<file, db, conf, memory, hadFile, lost>>

\* A mutant of CalcAdjustRate: divides by rateCount when it is zero, too.
CalcAdjustRateAlways ==
    {[kind |-> "nan", by |-> <<>>], MeasuredRate(conf, db)}

\* The rates CalcAdjustRate may leave: without a count the rate stays.
CalcAdjustRate == {AdjustRate, MeasuredRate(conf, db)}

(***************************************************************************)
(* CollectStatistics up to CalcAdjustRate.  Whether some subset counts for *)
(* the rate depends on the data.                                           *)
(***************************************************************************)
CollectStatistics ==
    /\ pc = "collect"
    /\ statistics' = CollectedStatistics(conf, db)
    /\ \E rate \in CalcAdjustRate :
          AdjustRate' = rate /\ PredicateAdjustRate' = rate
    /\ pc' = "open"
    /\ UNCHANGED <<file, db, conf, hadFile, lost>>

\* std::ofstream truncates; its buffer may reach the file in pieces.
OpenStatsFile ==
    /\ pc = "open"
    /\ file' = Remains("empty")
    /\ pc' = "write"
    /\ UNCHANGED <<db, conf, memory, hadFile, lost>>

WriteSome ==
    /\ pc = "write"
    /\ file' = Remains("partial")
    /\ UNCHANGED <<db, pc, conf, memory, hadFile, lost>>

CloseStatsFile ==
    /\ pc = "write"
    /\ file' = [state |-> "whole", stats |-> Serialized(statistics),
                rate |-> AdjustRate]
    /\ pc' = "report"
    /\ UNCHANGED <<db, conf, memory, hadFile, lost>>

\* The device is full: the stream goes bad, which nobody checks.
WriteFails ==
    /\ pc = "write"
    /\ lost' = TRUE
    /\ pc' = "report"
    /\ UNCHANGED <<file, db, conf, memory, hadFile>>

\* OutputStatsSize, when refreshing: reporting only.
OutputStatsSize ==
    /\ pc = "report"
    /\ pc' = "assign"
    /\ UNCHANGED <<file, db, conf, memory, hadFile, lost>>

\* A file that cannot be opened for writing: the statistics file, or the one
\* for the sizes, which only a refreshing run opens.
OpenThrows ==
    /\ pc = "open" \/ (pc = "report" /\ conf.RefreshStatistics)
    /\ pc' = "down"
    /\ UNCHANGED <<file, db, conf, memory, hadFile, lost>>

AssignRates ==
    /\ pc = "assign"
    /\ IF conf.UseAssignedAdjustRate
       THEN /\ AdjustRate' = AssignedRate("ADJUST_RATE")
            /\ PredicateAdjustRate' = AssignedRate("PREDICATE_ADJUST_RATE")
       ELSE UNCHANGED <<AdjustRate, PredicateAdjustRate>>
    /\ pc' = "serve"
    /\ UNCHANGED <<file, db, conf, statistics, hadFile, lost>>

\* ExecuteSql to the end of main.
Exit ==
    /\ pc = "serve"
    /\ pc' = "down"
    /\ UNCHANGED <<file, db, conf, memory, hadFile, lost>>

\* The process is killed.
Crash ==
    /\ pc # "down"
    /\ pc' = "down"
    /\ UNCHANGED <<file, db, conf, memory, hadFile, lost>>

\* Someone else changes the database; a running process holds its lock.
ChangeDatabase ==
    /\ pc = "down"
    /\ db < MaxDb
    /\ db' = db + 1
    /\ UNCHANGED <<file, pc, conf, memory, hadFile, lost>>

Next ==
    \/ Start \/ TryReadStatistics \/ ReadThrows \/ ReadNothing
    \/ CollectStatistics \/ OpenStatsFile \/ WriteSome \/ CloseStatsFile
    \/ WriteFails \/ OutputStatsSize \/ OpenThrows \/ AssignRates
    \/ Exit \/ Crash \/ ChangeDatabase

Spec == Init /\ [][Next]_vars
-----------------------------------------------------------------------------
Rates == {DefaultRate, AssignedRate("ADJUST_RATE"), AssignedRate("PREDICATE_ADJUST_RATE")}
            \cup {MeasuredRate(s, d) : s \in Settings, d \in 0..MaxDb}

(***************************************************************************)
(* Type invariant of the program and its file.                             *)
(***************************************************************************)
TypeOK ==
    /\ pc \in {"down", "read", "collect", "open", "write", "report", "assign", "serve"}
    /\ conf \in Settings
    /\ db \in 0..MaxDb
    /\ file.state \in {"absent", "empty", "partial", "whole"}
    /\ {AdjustRate, PredicateAdjustRate, file.rate} \subseteq Rates
    /\ hadFile \in BOOLEAN /\ lost \in BOOLEAN

\* The summaries stats are those of a whole collection under s of version d.
Collection(stats, s, d) ==
    Serialized(stats) = Serialized(CollectedStatistics(s, d))

(***************************************************************************)
(* Queries are never answered from a part of a collection, or from a mix   *)
(* of two: whatever was killed, failed or changed before, the summaries    *)
(* and the rate in use come from one complete collection, of one version   *)
(* of the database and under one choice of settings.                       *)
(***************************************************************************)
ServesWholeCollection ==
    pc = "serve" =>
        \E s \in Settings, d \in 0..db :
            /\ Collection(statistics, s, d)
            /\ \/ conf.UseAssignedAdjustRate
               \/ /\ AdjustRate \in {DefaultRate, MeasuredRate(s, d)}
                  /\ PredicateAdjustRate = AdjustRate

(***************************************************************************)
(* Settings may differ from those the file was collected under.  Unsplit   *)
(* statistics serve every setting, and split ones every star within their  *)
(* limit and, by its pieces, every star under the same or a smaller limit; *)
(* a larger star that is not cut any more has no summary.                  *)
(***************************************************************************)
LookupUnder(s, E) ==
    IF s.EnableStarSplit THEN Split(E, s.MaxStarSize) ELSE {Collapse(E)}

StarsAnswered ==
    pc = "serve" =>
        \A s \in Settings, d \in 0..db : Collection(statistics, s, d) =>
            \A i \in DOMAIN Esets : \A Q \in (SUBSET Esets[i]) \ {{}} :
                LET answered == LookupUnder(conf, Q) \subseteq DOMAIN statistics
                    within == ~s.EnableStarSplit \/ Cardinality(Q) <= s.MaxStarSize
                    cutAlike == /\ conf.EnableStarSplit
                                /\ conf.MaxStarSize <= s.MaxStarSize
                IN  /\ within \/ cutAlike => answered
                    /\ ~within /\ ~conf.EnableStarSplit => ~answered

(***************************************************************************)
(* What a process serves is what the next start with these settings will   *)
(* load, unless writing failed: the file is whole, gives the same          *)
(* summaries with the same precisions, and the rates of config.json have   *)
(* not found their way into it.                                            *)
(***************************************************************************)
NextStartServesTheSame ==
    pc = "serve" /\ ~lost =>
        /\ Parses(file) \/ Serialized(statistics) = <<>>
        /\ \A k \in DOMAIN statistics \ {{}} :
              k \in DOMAIN file.stats
              /\ Deserialized(file.stats, conf)[k] = statistics[k]
        /\ file.rate.kind # "assigned"
        /\ ~conf.UseAssignedAdjustRate => file.rate = AdjustRate

(***************************************************************************)
(* An existing file, good or broken, is touched only by a run that was     *)
(* asked to refresh: a broken one is not repaired by any number of plain   *)
(* starts, and a good one is not lost to them.                             *)
(***************************************************************************)
OnlyRefreshReplaces ==
    [][file' # file => conf.RefreshStatistics \/ ~hadFile]_vars
-----------------------------------------------------------------------------
(***************************************************************************)
(* The inductive invariant behind these properties.  A whole file holds    *)
(* one collection; once the map is filled it holds one as well, with the   *)
(* precision of the settings; from the close of the file on, the two       *)
(* agree.                                                                  *)
(***************************************************************************)
FileOK ==
    file.state = "whole" =>
        \E s \in Settings, d \in 0..db :
            /\ file.stats = Serialized(CollectedStatistics(s, d))
            /\ file.rate \in {DefaultRate, MeasuredRate(s, d)}

MemoryOK ==
    /\ pc \in {"open", "write", "report", "assign", "serve"} =>
          /\ \A k \in DOMAIN statistics :
                statistics[k] = [db |-> statistics[k].db, built |-> statistics[k].built,
                                 precision |-> conf.CompressPrecision]
          /\ \E s \in Settings, d \in 0..db :
                /\ Collection(statistics, s, d)
                /\ \/ pc = "serve" /\ conf.UseAssignedAdjustRate
                   \/ /\ AdjustRate \in {DefaultRate, MeasuredRate(s, d)}
                      /\ PredicateAdjustRate = AdjustRate
    /\ pc \in {"read", "collect"} => AdjustRate = DefaultRate

SavedOK ==
    /\ pc \in {"report", "assign", "serve"} /\ ~lost =>
          /\ file.state = "whole"
          /\ file.stats = Serialized(statistics)
          /\ file.rate = AdjustRate \/ (pc = "serve" /\ conf.UseAssignedAdjustRate)
    /\ pc \in {"collect", "open", "write"} => conf.RefreshStatistics \/ ~hadFile
    /\ pc = "read" => hadFile = (file.state # "absent")

StatsFileInv == TypeOK /\ FileOK /\ MemoryOK /\ SavedOK
=============================================================================

------------------------------ MODULE Recording ------------------------------
(***************************************************************************)
(* Recording subqueries and replaying their cardinalities (main.cpp,       *)
(* starce.hpp), over several runs of the program.  A recording run notes   *)
(* the text and the estimate of every subquery the optimizer asks for and, *)
(* at its end, writes the texts, the numbers and the times to three files. *)
(* A replaying run reads texts and numbers side by side and answers from   *)
(* them instead of estimating.  The process may be killed anywhere.        *)
(*                                                                         *)
(* A line of the workload is one block of relations with its stars, its    *)
(* filters and, in order, the sets of relations the plan enumerator asks   *)
(* for: exact enumeration asks for the same sets whatever it is answered.  *)
(* An estimate is counted in halves, since the files hold whole numbers;   *)
(* Estimate has the computation.  The text of a subquery is the record of  *)
(* its three sorted clauses.                                               *)
(***************************************************************************)
EXTENDS Stars

CONSTANTS
    Workloads,     \* the files SQL_PATH may name: sequences of lines
    Settings,      \* the contents config.json may have
    Known,         \* keys of StatisticManager::statistics
    Estimates(_, _, _), \* what estimating a set of relations of a line of a workload
                   \* may return, in halves
    Uninitialised, \* what the variable card of ReadSubqueryCard may hold at first
    TextOrder      \* the texts of all subqueries in the order of std::string

Main == [tables : Seq(Nat), stars : Seq(SUBSET Attr), filters : Seq(STRING),
         asks : Seq(SUBSET Nat)]

\* The stars of a query are those AddPredicate makes (Session): disjoint.
StarsApart(stars) ==
    /\ \A i \in DOMAIN stars : IsFiniteSet(stars[i])
    /\ \A i, j \in DOMAIN stars : i # j => stars[i] \cap stars[j] = {}

\* A line joins two relations or more: for fewer, QueryGraphManager::Build
\* returns before it calls the StatisticManager.
ASSUME WorkloadsAssumption ==
    /\ Workloads \in Seq(Seq(Main)) /\ Workloads # <<>>
    /\ \A w \in DOMAIN Workloads : \A l \in DOMAIN Workloads[w] :
          /\ Len(Workloads[w][l].tables) > 1
          /\ StarsApart(Workloads[w][l].stars)
ASSUME SettingsAssumption ==
    Settings \subseteq
        [RecordingSubquery : BOOLEAN, SubqueryOutputGroupByMain : BOOLEAN,
         RecordEstimateTime : BOOLEAN, UseSubqueryCard : BOOLEAN,
         work : DOMAIN Workloads]
ASSUME EstimatesAssumption ==
    \A w \in DOMAIN Workloads : \A l \in DOMAIN Workloads[w] :
        \A a \in DOMAIN Workloads[w][l].asks :
            Estimates(w, l, Workloads[w][l].asks[a]) \subseteq Nat
ASSUME UninitialisedAssumption == Uninitialised \subseteq Int

VARIABLES
    present,       \* which of the files SUBQUERY_PATH and SUBQUERY_RESULT_PATH exist
    subqueryFile, resultFile,                                      \* their lines
    timeFile,      \* SUBQUERY_TIME_PATH, as this run has written it
    pc, conf,
    line, ask, prepared, log,         \* ExecuteSql and the session of its query
    Subqueries, RecordingSubqueryCards, RecordingSubqueryTimes,
    SubqueriesByMainQuery, subqueryCard,
    made,          \* history: the estimates of this run
    origin         \* history: the run that last opened the subquery file

files == <<present, subqueryFile, resultFile, timeFile>>
progress == <<line, ask, prepared, log>>
recorded == <<Subqueries, RecordingSubqueryCards, RecordingSubqueryTimes,
              SubqueriesByMainQuery>>
vars == <<files, pc, conf, progress, recorded, subqueryCard, made, origin>>
-----------------------------------------------------------------------------
\* A mutant of AliasId: every alias is the name of its table.
AliasIdOne(q, rels, r) == 1

\* The number that tells a relation from earlier ones over the same table.
AliasId(q, rels, r) == Cardinality({s \in rels : s <= r /\ q.tables[s] = q.tables[r]})

\* The alias of a relation in the text, and an attribute as alias.column.
Alias(q, rels, r) == <<q.tables[r], AliasId(q, rels, r)>>
Column(q, rels, a) == <<Alias(q, rels, a[1]), a[2]>>

\* A star becomes the equalities between neighbours in std::set order.
Chain(star) ==
    {p \in star \X star :
        /\ Before(p[1], p[2])
        /\ ~\E a \in star : Before(p[1], a) /\ Before(a, p[2])}

\* The text of a subquery.
GetSubquery(q, rels) ==
    [from |-> {Alias(q, rels, r) : r \in rels},
     joins |-> {<<Column(q, rels, p[1]), Column(q, rels, p[2])>> :
                   p \in UNION {Chain(star) :
                                   star \in Range(GetAttrEsetFromRels(q.stars, rels))}},
     predicates |-> {<<Alias(q, rels, r), q.filters[r]>> :
                        r \in {s \in rels : q.filters[s] # NoFilter}}]

\* filterString.at: a line without WHERE has no filters at all.
HasText(q, rels) == rels \subseteq DOMAIN q.filters

HasStatistics(q, rels) ==
    \A star \in Range(GetAttrEsetFromRels(q.stars, rels)) :
        GetEqualSetFromAttrEset(q.tables, star) \in Known

ASSUME TextsAssumption ==
    /\ TextOrder \in Seq(Range(TextOrder)) /\ IsInjective(TextOrder)
    /\ \A w \in DOMAIN Workloads : \A l \in DOMAIN Workloads[w] :
          LET q == Workloads[w][l]
          IN  \A a \in DOMAIN q.asks :
                 HasText(q, q.asks[a]) => GetSubquery(q, q.asks[a]) \in Range(TextOrder)

\* The texts in the order in which a std::set visits them.
InOrder(texts) ==
    LET at == Ascending({i \in DOMAIN TextOrder : TextOrder[i] \in texts})
    IN  [i \in DOMAIN at |-> TextOrder[at[i]]]

\* (int64_t) of an estimate.
Truncated(half) == half \div 2

\* The lines of the subquery file.
Text(t) == <<"subquery", t>>
Header(id) == <<"header", id>>
MainSql(id) == <<"main", id>>

Workload == Workloads[conf.work]
Query == Workload[line]
Rels == Query.asks[ask + 1]
-----------------------------------------------------------------------------
NoSettings ==
    [RecordingSubquery |-> FALSE, SubqueryOutputGroupByMain |-> FALSE,
     RecordEstimateTime |-> FALSE, UseSubqueryCard |-> FALSE, work |-> 1]

Init ==
    /\ present = {}
    /\ subqueryFile = <<>> /\ resultFile = <<>> /\ timeFile = <<>>
    /\ pc = "down"
    /\ conf = NoSettings
    /\ line = 0 /\ ask = 0 /\ prepared = FALSE /\ log = <<>>
    /\ Subqueries = {}
    /\ RecordingSubqueryCards = <<>> /\ RecordingSubqueryTimes = <<>>
    /\ SubqueriesByMainQuery = <<>>
    /\ subqueryCard = <<>>
    /\ made = <<>>
    /\ origin = [conf |-> NoSettings, log |-> <<>>, made |-> <<>>, done |-> FALSE]

\* main up to ReadSubqueryCard.
Start ==
    /\ pc = "down"
    /\ conf' \in Settings
    /\ pc' = IF conf'.UseSubqueryCard THEN "read" ELSE "execute"
    /\ UNCHANGED <<files, progress, recorded, subqueryCard, made, origin>>

\* The process ends, and with it all it has in memory.
Ends ==
    /\ pc' = "down"
    /\ conf' = NoSettings
    /\ line' = 0 /\ ask' = 0 /\ prepared' = FALSE /\ log' = <<>>
    /\ Subqueries' = {}
    /\ RecordingSubqueryCards' = <<>> /\ RecordingSubqueryTimes' = <<>>
    /\ SubqueriesByMainQuery' = <<>>
    /\ subqueryCard' = <<>>
    /\ made' = <<>>
    /\ timeFile' = <<>>
    /\ UNCHANGED <<present, subqueryFile, resultFile, origin>>

(***************************************************************************)
(* What file_result >> card leaves in card for line i.  At the end of the  *)
(* numbers the extraction fails and card keeps its value.                  *)
(***************************************************************************)
NumberFor(i, card) ==
    IF resultFile = <<>> THEN card ELSE resultFile[Min({i, Len(resultFile)})]

LastLine(l) == Max({i \in DOMAIN subqueryFile : subqueryFile[i] = l})

\* A mutant of CardsRead: reading ends with the numbers.
CardsReadWhileNumbers(card) ==
    [l \in {subqueryFile[i] : i \in DOMAIN subqueryFile \cap DOMAIN resultFile} |->
        NumberFor(LastLine(l), card)]

\* Every line is a key; of equal lines the last one counts.
CardsRead(card) == [l \in Range(subqueryFile) |-> NumberFor(LastLine(l), card)]

ReadSubqueryCard ==
    /\ pc = "read"
    /\ present = {"subquery", "result"}
    /\ \E card \in Uninitialised : subqueryCard' = CardsRead(card)
    /\ pc' = "execute"
    /\ UNCHANGED <<files, conf, progress, recorded, made, origin>>

\* A missing file: the exception ends main.
ReadThrows ==
    /\ pc = "read"
    /\ present # {"subquery", "result"}
    /\ Ends
-----------------------------------------------------------------------------
\* What ExecuteSql notes of a line before it is executed.
Registered(id) ==
    IF conf.RecordingSubquery /\ conf.SubqueryOutputGroupByMain
    THEN [i \in DOMAIN SubqueriesByMainQuery \cup {id} |->
            IF i = id THEN <<>> ELSE SubqueriesByMainQuery[i]]
    ELSE SubqueriesByMainQuery

\* A mutant of BeginQuery: there is a line after the last one.
BeginQueryPastEnd ==
    /\ pc = "execute"
    /\ line <= Len(Workload)
    /\ line' = line + 1
    /\ ask' = 0
    /\ SubqueriesByMainQuery' = Registered(line')
    /\ pc' = "estimate" /\ prepared' = TRUE
    /\ UNCHANGED <<files, conf, log, Subqueries, RecordingSubqueryCards,
                   RecordingSubqueryTimes, subqueryCard, made, origin>>

\* ExecuteSql takes a line; PrepareEstimate throws when a session is open.
BeginQuery ==
    /\ pc = "execute"
    /\ line < Len(Workload)
    /\ line' = line + 1
    /\ ask' = 0
    /\ SubqueriesByMainQuery' = Registered(line')
    /\ \/ /\ ~prepared
          /\ prepared' = TRUE
          /\ pc' = "estimate"
          /\ UNCHANGED log
       \/ /\ prepared
          /\ log' = Append(log, "failed")
          /\ UNCHANGED <<prepared, pc>>
    /\ UNCHANGED <<files, conf, Subqueries, RecordingSubqueryCards,
                   RecordingSubqueryTimes, subqueryCard, made, origin>>

Asking == pc = "estimate" /\ ask < Len(Query.asks)

\* The exception ends the query and leaves its session open.
EstimateThrows ==
    /\ Asking
    /\ \/ ~HasText(Query, Rels)
       \/ /\ HasText(Query, Rels)
          /\ conf.UseSubqueryCard
          /\ Text(GetSubquery(Query, Rels)) \notin DOMAIN subqueryCard
       \/ /\ HasText(Query, Rels)
          /\ ~conf.UseSubqueryCard
          /\ ~HasStatistics(Query, Rels)
    /\ log' = Append(log, "failed")
    /\ pc' = "execute"
    /\ UNCHANGED <<files, conf, line, ask, prepared, recorded, subqueryCard,
                   made, origin>>

\* With UseSubqueryCard the recorded number is returned at once.
EstimateReplayed ==
    /\ Asking
    /\ HasText(Query, Rels)
    /\ conf.UseSubqueryCard
    /\ Text(GetSubquery(Query, Rels)) \in DOMAIN subqueryCard
    /\ ask' = ask + 1
    /\ UNCHANGED <<files, pc, conf, line, prepared, log, recorded, subqueryCard,
                   made, origin>>

\* A mutant of Assigned: an entry that is there stays.
AssignedOnce(f, t, x) ==
    [u \in DOMAIN f \cup {t} |-> IF u \in DOMAIN f THEN f[u] ELSE x]

\* operator[] of a std::map and an assignment.
Assigned(f, t, x) == [u \in DOMAIN f \cup {t} |-> IF u = t THEN x ELSE f[u]]

RecordSubquery(t, card) ==
    IF conf.RecordingSubquery
    THEN /\ Subqueries' = Subqueries \cup {t}
         /\ RecordingSubqueryCards' = Assigned(RecordingSubqueryCards, t, card)
         /\ SubqueriesByMainQuery' =
                IF conf.SubqueryOutputGroupByMain
                THEN [SubqueriesByMainQuery EXCEPT ![line] = Append(@, t)]
                ELSE SubqueriesByMainQuery
    ELSE UNCHANGED <<Subqueries, RecordingSubqueryCards, SubqueriesByMainQuery>>

(***************************************************************************)
(* The time of an estimate stands for itself: it is the number of the      *)
(* estimate within the run.                                                *)
(***************************************************************************)
EstimateCardinality ==
    /\ Asking
    /\ HasText(Query, Rels)
    /\ ~conf.UseSubqueryCard
    /\ HasStatistics(Query, Rels)
    /\ \E card \in Estimates(conf.work, line, Rels) :
          LET t == GetSubquery(Query, Rels)
          IN  /\ made' = Append(made, [text |-> t, line |-> line, rels |-> Rels,
                                       card |-> card])
              /\ RecordingSubqueryTimes' =
                    IF conf.RecordEstimateTime
                    THEN Assigned(RecordingSubqueryTimes, t, Len(made) + 1)
                    ELSE RecordingSubqueryTimes
              /\ RecordSubquery(t, card)
    /\ ask' = ask + 1
    /\ UNCHANGED <<files, pc, conf, line, prepared, log, subqueryCard, origin>>

FinishEstimate ==
    /\ pc = "estimate"
    /\ ask = Len(Query.asks)
    /\ prepared' = FALSE
    /\ log' = Append(log, "ok")
    /\ pc' = "execute"
    /\ UNCHANGED <<files, conf, line, ask, recorded, subqueryCard, made, origin>>

EndOfFile ==
    /\ pc = "execute"
    /\ line = Len(Workload)
    /\ pc' = IF conf.RecordingSubquery THEN "open" ELSE "time"
    /\ UNCHANGED <<files, conf, progress, recorded, subqueryCard, made, origin>>
-----------------------------------------------------------------------------
\* OutputSubquery.  Opening truncates; each line is flushed by std::endl.
OpenSubqueryFile ==
    /\ pc = "open"
    /\ subqueryFile' = <<>>
    /\ present' = present \cup {"subquery"}
    /\ origin' = [conf |-> conf, log |-> log, made |-> made, done |-> FALSE]
    /\ pc' = "openResult"
    /\ UNCHANGED <<resultFile, timeFile, conf, progress, recorded, subqueryCard,
                   made>>

OpenResultFile ==
    /\ pc = "openResult"
    /\ resultFile' = <<>>
    /\ present' = present \cup {"result"}
    /\ pc' = "write"
    /\ UNCHANGED <<subqueryFile, timeFile, conf, progress, recorded,
                   subqueryCard, made, origin>>

Grouped == conf.SubqueryOutputGroupByMain /\ SubqueriesByMainQuery # <<>>

\* The lines of one main query, and all lines that are to be written.
GroupOf(id) ==
    <<Header(id), MainSql(id)>>
        \o [i \in DOMAIN SubqueriesByMainQuery[id] |-> Text(SubqueriesByMainQuery[id][i])]

\* A mutant of SubqueryLines: the texts come in the order of their estimates.
SubqueryLinesAsMade ==
    IF Grouped
    THEN FlattenSeq([id \in 1..Len(Workload) |-> GroupOf(id)])
    ELSE LET first == Ascending({i \in DOMAIN made :
                                    \A j \in 1..(i - 1) : made[j].text # made[i].text})
         IN  [i \in DOMAIN first |-> Text(made[first[i]].text)]

SubqueryLines ==
    IF Grouped
    THEN FlattenSeq([id \in 1..Len(Workload) |-> GroupOf(id)])
    ELSE [i \in DOMAIN InOrder(Subqueries) |-> Text(InOrder(Subqueries)[i])]

ResultLines ==
    [i \in DOMAIN InOrder(Subqueries) |->
        Truncated(RecordingSubqueryCards[InOrder(Subqueries)[i]])]

\* Grouped: all texts, then all numbers.  Otherwise in turns.
WriteSubquery ==
    /\ pc = "write"
    /\ Len(subqueryFile) < Len(SubqueryLines)
    /\ ~Grouped => Len(subqueryFile) = Len(resultFile)
    /\ subqueryFile' = Append(subqueryFile, SubqueryLines[Len(subqueryFile) + 1])
    /\ UNCHANGED <<present, resultFile, timeFile, pc, conf, progress, recorded,
                   subqueryCard, made, origin>>

WriteCard ==
    /\ pc = "write"
    /\ Len(resultFile) < Len(ResultLines)
    /\ IF Grouped THEN Len(subqueryFile) = Len(SubqueryLines)
                  ELSE Len(subqueryFile) > Len(resultFile)
    /\ resultFile' = Append(resultFile, ResultLines[Len(resultFile) + 1])
    /\ UNCHANGED <<present, subqueryFile, timeFile, pc, conf, progress, recorded,
                   subqueryCard, made, origin>>

CloseFiles ==
    /\ pc = "write"
    /\ subqueryFile = SubqueryLines /\ resultFile = ResultLines
    /\ origin' = [origin EXCEPT !.done = TRUE]
    /\ pc' = "time"
    /\ UNCHANGED <<files, conf, progress, recorded, subqueryCard, made>>

TimeOf(t) == IF t \in DOMAIN RecordingSubqueryTimes THEN RecordingSubqueryTimes[t] ELSE 0

TimeLines == [i \in DOMAIN InOrder(Subqueries) |-> TimeOf(InOrder(Subqueries)[i])]

\* OutputSubqueryTime.  Nothing reads this file back.
OutputSubqueryTime ==
    /\ pc = "time"
    /\ timeFile' = IF conf.RecordEstimateTime THEN TimeLines ELSE timeFile
    /\ pc' = "end"
    /\ UNCHANGED <<present, subqueryFile, resultFile, conf, progress, recorded,
                   subqueryCard, made, origin>>

Exit == pc = "end" /\ Ends

\* The process is killed, or ParsePredicate or a failed open ends main.
Crash == pc \notin {"down", "end"} /\ Ends

Next ==
    \/ Start \/ ReadSubqueryCard \/ ReadThrows
    \/ BeginQuery \/ EstimateThrows \/ EstimateReplayed \/ EstimateCardinality
    \/ FinishEstimate \/ EndOfFile
    \/ OpenSubqueryFile \/ OpenResultFile \/ WriteSubquery \/ WriteCard \/ CloseFiles
    \/ OutputSubqueryTime \/ Exit \/ Crash

Spec == Init /\ [][Next]_vars
-----------------------------------------------------------------------------
(***************************************************************************)
(* Type invariant.                                                         *)
(***************************************************************************)
TypeOK ==
    /\ present \subseteq {"subquery", "result"}
    /\ resultFile \in Seq(Nat) /\ timeFile \in Seq(Nat)
    /\ pc \in {"down", "read", "execute", "estimate", "open", "openResult", "write",
               "time", "end"}
    /\ conf \in Settings \cup {NoSettings}
    /\ line \in 0..Len(Workload) /\ ask \in Nat /\ prepared \in BOOLEAN
    /\ log \in Seq({"ok", "failed"}) /\ Len(log) \in {line, line - 1}
    /\ Subqueries = DOMAIN RecordingSubqueryCards
    /\ Subqueries \subseteq Range(TextOrder)

\* The last of the estimates es that was made for text t.
LastFor(es, t) == Max({i \in DOMAIN es : es[i].text = t})

(***************************************************************************)
(* A replayed number is the estimate last made for the subquery in the     *)
(* run that recorded it, without its fraction: the pairing by position of  *)
(* two files survives repeated subqueries, earlier recordings and a crash  *)
(* at any point of the writing, which can only spoil the last line of the  *)
(* subquery file.  A file grouped by main query has other lines, too, and  *)
(* is outside this promise.                                                *)
(***************************************************************************)
ReplayFaithful ==
    /\ conf.UseSubqueryCard /\ pc \in {"execute", "estimate"}
    /\ subqueryFile # <<>> /\ ~origin.conf.SubqueryOutputGroupByMain
    =>
    \A i \in DOMAIN subqueryFile :
        origin.done \/ i < Len(subqueryFile) =>
            subqueryCard[subqueryFile[i]] =
                Truncated(origin.made[LastFor(origin.made, subqueryFile[i][2])].card)

(***************************************************************************)
(* Replaying the workload that was recorded fails on the lines that failed *)
(* then, and on no other, grouped or not: every subquery the optimizer     *)
(* asks for again has a card, and the first one without leaves the session *)
(* open at the same place.  A run that recorded while it replayed has      *)
(* emptied the files and is the exception.                                 *)
(***************************************************************************)
ReplayFailsAlike ==
    /\ conf.UseSubqueryCard /\ pc \in {"execute", "estimate"}
    /\ origin.done /\ ~origin.conf.UseSubqueryCard /\ conf.work = origin.conf.work
    => IsPrefix(log, origin.log)

\* The end of a run that recorded.  One that replayed, too, recorded nothing.
RecordingEnds == pc = "end" /\ conf.RecordingSubquery /\ ~conf.UseSubqueryCard

(***************************************************************************)
(* When a recording run ends, line i of the subquery file, line i of the   *)
(* result file and line i of the time file belong to one subquery and to   *)
(* one estimate of it, the last, however often, in whichever lines of the  *)
(* workload and in which order the subqueries were estimated, and nothing  *)
(* else is in the files.  Output grouped by main query is another matter:  *)
(* see ResultNamesSubquery.                                                *)
(***************************************************************************)
LinesCorrespond ==
    RecordingEnds /\ ~conf.SubqueryOutputGroupByMain =>
        LET texts == InOrder({made[i].text : i \in DOMAIN made})
        IN  /\ subqueryFile = [i \in DOMAIN texts |-> Text(texts[i])]
            /\ resultFile = [i \in DOMAIN texts |->
                                Truncated(made[LastFor(made, texts[i])].card)]
            /\ conf.RecordEstimateTime =>
                  timeFile = [i \in DOMAIN texts |-> LastFor(made, texts[i])]

(***************************************************************************)
(* "the i-th line corresponds to the i-th subquery in subquery.sql": a     *)
(* recording run writes one number for every subquery of the subquery      *)
(* file, in the same order.  Headers and main queries are not counted.     *)
(***************************************************************************)
ResultNamesSubquery ==
    RecordingEnds =>
        LET subqueries == SelectSeq(subqueryFile, LAMBDA l : l[1] = "subquery")
        IN  resultFile = [i \in DOMAIN subqueries |->
                            Truncated(made[LastFor(made, subqueries[i][2])].card)]

\* The equalities among the attributes of rels.
Equalities(q, rels) ==
    {S \in {{a \in q.stars[i] : a[1] \in rels} : i \in DOMAIN q.stars} : Cardinality(S) > 1}

\* f maps the relations of one subquery onto those of another: same tables,
\* same filters, and the same equalities among their attributes.
Renames(f, q, rels, p, rels2) ==
    /\ {f[r] : r \in rels} = rels2
    /\ \A r \in rels : p.tables[f[r]] = q.tables[r] /\ p.filters[f[r]] = q.filters[r]
    /\ Equalities(p, rels2) = {{<<f[a[1]], a[2]>> : a \in S} : S \in Equalities(q, rels)}

(***************************************************************************)
(* The text is a sound key: estimates recorded under one text are of one   *)
(* subquery, up to the numbering of its relations.  Otherwise one          *)
(* estimate would silently replace another's, self joins in particular.    *)
(***************************************************************************)
SameTextSameSubquery ==
    \A i, j \in DOMAIN made : i < j /\ made[i].text = made[j].text =>
        \E f \in [made[i].rels -> made[j].rels] :
            Renames(f, Workload[made[i].line], made[i].rels,
                       Workload[made[j].line], made[j].rels)
-----------------------------------------------------------------------------
(***************************************************************************)
(* The inductive invariant.  First what a run has in memory, by its pc.    *)
(***************************************************************************)
Texts == Range(TextOrder)

Estimated == [text : Texts, line : Nat, rels : SUBSET Nat, card : Nat]

FileLine == ({"subquery"} \X Texts) \cup ({"header", "main"} \X Nat)

Fresh ==
    /\ line = 0 /\ log = <<>> /\ prepared = FALSE /\ made = <<>>
    /\ Subqueries = {}
    /\ RecordingSubqueryCards = <<>> /\ RecordingSubqueryTimes = <<>>
    /\ SubqueriesByMainQuery = <<>>

RunInv ==
    /\ TypeOK
    /\ conf \in Settings \/ pc = "down"
    /\ pc \in {"down", "read"} => Fresh
    /\ pc = "estimate" => /\ line \in DOMAIN Workload /\ Len(log) = line - 1
                          /\ ask <= Len(Query.asks)
    /\ pc # "estimate" => Len(log) = line
    /\ pc \notin {"down", "read", "execute", "estimate"} => line = Len(Workload)
    /\ pc \in {"open", "openResult", "write"} => conf.RecordingSubquery
    /\ made \in Seq(Estimated)
    /\ RecordingSubqueryCards \in [Subqueries -> Nat]
    /\ RecordingSubqueryTimes \in [DOMAIN RecordingSubqueryTimes -> Nat]

(***************************************************************************)
(* Every estimate of a run over workload w is of a subquery that has a     *)
(* text and statistics.                                                    *)
(***************************************************************************)
MadeOver(w, es) ==
    \A i \in DOMAIN es :
        /\ es[i].line \in DOMAIN Workloads[w]
        /\ LET q == Workloads[w][es[i].line]
           IN  /\ es[i].rels \in Range(q.asks)
               /\ HasText(q, es[i].rels) /\ HasStatistics(q, es[i].rels)
               /\ es[i].text = GetSubquery(q, es[i].rels)

TextsOf(es) == {es[i].text : i \in DOMAIN es}

\* What has been recorded is the last estimate of every text.
RecordedInv ==
    /\ MadeOver(conf.work, made)
    /\ conf.UseSubqueryCard => made = <<>>
    /\ Subqueries = IF conf.RecordingSubquery THEN TextsOf(made) ELSE {}
    /\ \A t \in Subqueries :
          RecordingSubqueryCards[t] = made[LastFor(made, t)].card
    /\ conf.RecordEstimateTime =>
          RecordingSubqueryTimes = [t \in TextsOf(made) |-> LastFor(made, t)]
    /\ conf.RecordingSubquery /\ conf.SubqueryOutputGroupByMain =>
          /\ SubqueriesByMainQuery \in [1..line -> Seq(Texts)]
          /\ Subqueries = UNION {Range(SubqueriesByMainQuery[id]) : id \in 1..line}

(***************************************************************************)
(* The files and the run that wrote them, which may be over.               *)
(***************************************************************************)
NumbersOf(es) ==
    LET texts == InOrder(TextsOf(es))
    IN  [i \in DOMAIN texts |-> Truncated(es[LastFor(es, texts[i])].card)]

SubqueriesIn(file) == {l[2] : l \in {k \in Range(file) : k[1] = "subquery"}}

FilesPaired ==
    LET texts == InOrder(TextsOf(origin.made))
    IN  /\ Len(subqueryFile) <= Len(texts)
        /\ \A i \in DOMAIN subqueryFile : subqueryFile[i] = Text(texts[i])
        /\ \A i \in DOMAIN resultFile : resultFile[i] = NumbersOf(origin.made)[i]
        /\ Len(resultFile) <= Len(subqueryFile)
        /\ Len(subqueryFile) <= Len(resultFile) + 1

ThisRun(done) == [conf |-> conf, log |-> log, made |-> made, done |-> done]

FilesInv ==
    /\ subqueryFile \in Seq(FileLine)
    /\ origin.conf \in Settings \cup {NoSettings}
    /\ origin.made \in Seq(Estimated) /\ MadeOver(origin.conf.work, origin.made)
    /\ pc = "openResult" => subqueryFile = <<>>
    /\ pc \in {"openResult", "write"} => origin = ThisRun(FALSE)
    /\ pc \in {"time", "end"} /\ conf.RecordingSubquery => origin = ThisRun(TRUE)
    /\ ~origin.conf.SubqueryOutputGroupByMain /\ (subqueryFile # <<>> \/ pc = "write") =>
          FilesPaired
    /\ origin.done => /\ SubqueriesIn(subqueryFile) = TextsOf(origin.made)
                      /\ resultFile = NumbersOf(origin.made)
    /\ pc = "end" /\ conf.RecordingSubquery /\ conf.RecordEstimateTime =>
          timeFile = [i \in DOMAIN InOrder(TextsOf(made)) |->
                        LastFor(made, InOrder(TextsOf(made))[i])]

Replaying == conf.UseSubqueryCard /\ pc \in {"execute", "estimate"}

CardsInv == Replaying => \E card \in Uninitialised : subqueryCard = CardsRead(card)

(***************************************************************************)
(* What becomes of a line is foretold by the statistics alone: the first   *)
(* ask that has no answer fails its line and all later ones.               *)
(***************************************************************************)
Answered(w, l, a) ==
    LET q == Workloads[w][l]
    IN  HasText(q, q.asks[a]) /\ HasStatistics(q, q.asks[a])

LineAnswered(w, l) == \A a \in DOMAIN Workloads[w][l].asks : Answered(w, l, a)

Foretold(w, l) == IF \A k \in 1..l : LineAnswered(w, k) THEN "ok" ELSE "failed"

\* Ask a of line l is reached and answered.
Reached(w, l, a) ==
    /\ \A k \in 1..(l - 1) : LineAnswered(w, k)
    /\ \A b \in 1..a : Answered(w, l, b)

TextAt(w, l, a) == GetSubquery(Workloads[w][l], Workloads[w][l].asks[a])

\* The log of the run that wrote the files, and the texts it recorded.
OriginAnswered ==
    LET w == origin.conf.work
    IN  /\ origin.log = [l \in 1..Len(Workloads[w]) |-> Foretold(w, l)]
        /\ \A l \in DOMAIN Workloads[w] : \A a \in DOMAIN Workloads[w][l].asks :
              Reached(w, l, a) => TextAt(w, l, a) \in TextsOf(origin.made)

\* A run whose answers are those of the statistics: an estimating one, and
\* one that replays the same workload.
ReplaysOrigin ==
    /\ Replaying
    /\ origin.done /\ ~origin.conf.UseSubqueryCard /\ conf.work = origin.conf.work

LogForetold ==
    /\ \A l \in DOMAIN log : log[l] = Foretold(conf.work, l)
    /\ pc = "estimate" => /\ prepared
                          /\ Reached(conf.work, line, ask)
    /\ pc # "estimate" => (prepared <=> \E k \in 1..line : ~LineAnswered(conf.work, k))

TextsMade ==
    \A l \in 1..line : \A a \in DOMAIN Workload[l].asks :
        Reached(conf.work, l, a) /\ (pc = "estimate" /\ l = line => a <= ask) =>
            TextAt(conf.work, l, a) \in TextsOf(made)

AnswersInv ==
    /\ ~conf.UseSubqueryCard => LogForetold /\ TextsMade
    /\ ReplaysOrigin => LogForetold
    /\ origin.done /\ ~origin.conf.UseSubqueryCard => OriginAnswered
=============================================================================

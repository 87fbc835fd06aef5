--------------------------- MODULE EstimateProofs ---------------------------
(***************************************************************************)
(* Proofs about Estimate, for any join graph: the union-find of            *)
(* EstimateCardinality never asks a summary for a relation it does not     *)
(* have, and every relation of the query is a factor of the result, in a   *)
(* Berge-acyclic graph once.                                               *)
(***************************************************************************)
EXTENDS Estimate, FoldProofs, WellFoundedInduction, FiniteSetTheorems, TLAPS

\* A nonempty set of naturals has a smallest member.
LEMMA MinIn ==
    ASSUME NEW S \in SUBSET Nat, S # {}
    PROVE  Min(S) \in S /\ \A y \in S : Min(S) <= y
<1>1. PICK R : R = OpToRel(<, Nat)
  OBVIOUS
<1>2. IsWellFoundedOn(R, Nat)
  BY <1>1, NatLessThanWellFounded
<1>3. \E x \in S : \A y \in S : ~(<<y, x>> \in R)
  BY <1>2, WFMin
<1>4. \A x, y \in S : ~(<<y, x>> \in R) => x <= y
  BY <1>1 DEF OpToRel
<1>5. \E x \in S : \A y \in S : x <= y
  BY <1>3, <1>4
<1> QED BY <1>5 DEF Min

\* The relations of a union of stars.
LEMMA RelsOfUnion ==
    ASSUME NEW s, NEW t
    PROVE  RelsOf(s \cup t) = RelsOf(s) \cup RelsOf(t)
BY DEF RelsOf

\* The relations of a star are numbers of relations.
LEMMA RelsOfType ==
    ASSUME NEW s \in SUBSET StarAttr
    PROVE  RelsOf(s) \subseteq Nat \ {0}
BY DEF RelsOf, StarAttr

\* Two stars that can be merged have a common relation, and it is found.
LEMMA CommonRel ==
    ASSUME NEW s \in SUBSET StarAttr, NEW t \in SUBSET StarAttr, CanMerge(s, t)
    PROVE  GetCommonRelation(s, t) \in RelsOf(s) \cap RelsOf(t)
<1>1. RelsOf(s) \cap RelsOf(t) \in SUBSET Nat /\ RelsOf(s) \cap RelsOf(t) # {}
  BY RelsOfType DEF CanMerge
<1> QED BY <1>1, MinIn DEF GetCommonRelation

\* A nonempty set of relations of a star has a largest member.
LEMMA MaxIn ==
    ASSUME NEW star \in SUBSET StarAttr, IsFiniteSet(star),
           NEW S \in SUBSET RelsOf(star), S # {}
    PROVE  Max(S) \in S
<1>1. S \subseteq Nat
  BY RelsOfType
<1>2. PICK q \in Seq(star) : \A a \in star : \E k \in 1..Len(q) : q[k] = a
  BY DEF IsFiniteSet
<1>3. PICK n : n = Len(q) /\ n \in Nat
  BY <1>2
<1>4. \A x \in S : \E k \in 1..n : q[k][1] = x
  BY <1>2, <1>3 DEF RelsOf
<1>5. PICK U : U = {m \in 0..n : ~\E x \in S : \A k \in 1..m : q[k][1] \in S => q[k][1] <= x}
  OBVIOUS
<1>6. n \notin U
  <2> SUFFICES ASSUME n \in U PROVE FALSE
    OBVIOUS
  <2>1. U \in SUBSET Nat /\ U # {}
    BY <1>3, <1>5
  <2>2. PICK m \in U : \A l \in U : m <= l
    BY <2>1, MinIn
  <2>3. m \in 0..n /\ m # 0
    <3>1. m \in 0..n /\ ~\E x \in S : \A k \in 1..m : q[k][1] \in S => q[k][1] <= x
      BY <1>5
    <3>2. 1..0 = {}
      OBVIOUS
    <3> QED BY <3>1, <3>2
  <2>4. m - 1 \in 0..n /\ m - 1 \notin U
    BY <1>3, <2>2, <2>3
  <2>5. PICK x \in S : \A k \in 1..(m - 1) : q[k][1] \in S => q[k][1] <= x
    BY <1>5, <2>4
  <2>6. PICK z : z = q[m][1]
    OBVIOUS
  <2>7. PICK y \in S : x <= y /\ (q[m][1] \in S => q[m][1] <= y)
    <3>1. \E y \in S : x <= y /\ (z \in S => z <= y)
      <4>1. CASE z \in S /\ z > x
        BY <1>1, <4>1
      <4>2. CASE ~(z \in S /\ z > x)
        <5>1. x \in Nat /\ x <= x
          BY <1>1
        <5>2. ASSUME z \in S PROVE z <= x
          BY <1>1, <4>2, <5>1, <5>2
        <5> QED BY <5>1, <5>2
      <4> QED BY <4>1, <4>2
    <3> QED BY <2>6, <3>1
  <2>8. \A k \in 1..m : q[k][1] \in S => q[k][1] <= y
    <3> SUFFICES ASSUME NEW k \in 1..m, q[k][1] \in S PROVE q[k][1] <= y
      OBVIOUS
    <3>1. CASE k = m
      BY <2>7, <3>1
    <3>2. CASE k \in 1..(m - 1)
      <4>1. q[k][1] <= x
        BY <2>5, <3>2
      <4>2. q[k][1] \in Nat /\ x \in Nat /\ y \in Nat
        BY <1>1, <2>7
      <4> QED BY <2>7, <4>1, <4>2
    <3> QED BY <2>3, <3>1, <3>2
  <2> QED BY <1>5, <2>7, <2>8
<1>7. PICK x \in S : \A k \in 1..n : q[k][1] \in S => q[k][1] <= x
  BY <1>3, <1>5, <1>6
<1>8. \A y \in S : x >= y
  BY <1>1, <1>4, <1>7
<1> QED BY <1>8 DEF Max

\* The relations tableIdx maps the tables of a star to are relations of it.
LEMMA TableIdxIn ==
    ASSUME NEW names, NEW s \in SUBSET StarAttr, IsFiniteSet(s)
    PROVE  Range(TableIdx(names, s)) \subseteq RelsOf(s)
<1>1. PICK T : T = {names[r] : r \in RelsOf(s)}
  OBVIOUS
<1>2. TableIdx(names, s) = [t \in T |-> Max({q \in RelsOf(s) : names[q] = t})]
  BY <1>1 DEF TableIdx
<1>3. \A x \in Range(TableIdx(names, s)) :
         \E t \in T : x = Max({q \in RelsOf(s) : names[q] = t})
  BY <1>2 DEF Range
<1>4. ASSUME NEW t \in T PROVE Max({q \in RelsOf(s) : names[q] = t}) \in RelsOf(s)
  <2>1. PICK S : S = {q \in RelsOf(s) : names[q] = t}
    OBVIOUS
  <2>2. S \in SUBSET RelsOf(s) /\ S # {}
    BY <1>1, <2>1
  <2>3. Max(S) \in S
    BY <2>2, MaxIn
  <2> QED BY <2>1, <2>2, <2>3
<1> QED BY <1>3, <1>4

\* Without self-joins tableIdx maps the tables of a star onto its relations.
LEMMA TableIdxRange ==
    ASSUME NEW names, NEW s \in SUBSET StarAttr,
           \A q, r \in RelsOf(s) : names[q] = names[r] => q = r
    PROVE  Range(TableIdx(names, s)) = RelsOf(s)
<1>1. \A r \in RelsOf(s) : Max({q \in RelsOf(s) : names[q] = names[r]}) = r
  <2> SUFFICES ASSUME NEW r \in RelsOf(s)
               PROVE  Max({q \in RelsOf(s) : names[q] = names[r]}) = r
    OBVIOUS
  <2>1. {q \in RelsOf(s) : names[q] = names[r]} = {r}
    OBVIOUS
  <2>2. r \in Nat
    BY RelsOfType
  <2>3. Max({r}) = r
    BY <2>2 DEF Max
  <2> QED BY <2>1, <2>3
<1>2. PICK T : T = {names[r] : r \in RelsOf(s)}
  OBVIOUS
<1>3. TableIdx(names, s) = [t \in T |-> Max({q \in RelsOf(s) : names[q] = t})]
  BY <1>2 DEF TableIdx
<1>4. \A x : x \in Range(TableIdx(names, s)) <=>
               \E t \in T : x = Max({q \in RelsOf(s) : names[q] = t})
  BY <1>3 DEF Range
<1>5. \A x : x \in Range(TableIdx(names, s)) <=> x \in RelsOf(s)
  <2>1. ASSUME NEW x \in Range(TableIdx(names, s)) PROVE x \in RelsOf(s)
    <3>1. PICK t \in T : x = Max({q \in RelsOf(s) : names[q] = t})
      BY <1>4
    <3>2. PICK r \in RelsOf(s) : t = names[r]
      BY <1>2
    <3> QED BY <1>1, <3>1, <3>2
  <2>2. ASSUME NEW x \in RelsOf(s) PROVE x \in Range(TableIdx(names, s))
    <3>1. names[x] \in T /\ x = Max({q \in RelsOf(s) : names[q] = names[x]})
      BY <1>1, <1>2
    <3> QED BY <1>4, <3>1
  <2> QED BY <2>1, <2>2
<1> QED BY <1>5

-----------------------------------------------------------------------------
\* What the assumption says of the current input.
LEMMA InputFacts ==
    ASSUME input \in Inputs
    PROVE  /\ input \in Input /\ N \in Nat \ {0} /\ Stars = 1..N
           /\ input.stars \in [Stars -> SUBSET StarAttr]
           /\ \A k \in Stars : RelsOf(input.stars[k]) \subseteq Rels
<1>1. input \in Input /\ input.stars # <<>>
  BY InputsAssumption
<1>2. input.stars \in Seq(SUBSET StarAttr)
  BY <1>1 DEF Input
<1>3. N \in Nat \ {0} /\ Stars = 1..N
  BY <1>1, <1>2 DEF N, Stars
<1>4. input.stars \in [Stars -> SUBSET StarAttr]
  BY <1>2 DEF Stars
<1>5. \A k \in Stars : RelsOf(input.stars[k]) \subseteq Rels
  BY DEF Rels
<1> QED BY <1>1, <1>3, <1>4, <1>5

\* What depends on the input only does not change with the rest.
LEMMA SameInput ==
    ASSUME input' = input
    PROVE  /\ Stars' = Stars /\ N' = N /\ Rels' = Rels /\ NoSelfJoin' = NoSelfJoin
           /\ Summary' = Summary
           /\ \A k : KeyOf(k)' = KeyOf(k)
           /\ \A r : FilterThrows(r)' = FilterThrows(r)
           /\ \A key : StatisticsKnown(key)' = StatisticsKnown(key)
BY DEF Stars, N, Rels, Summary, NoSelfJoin, KeyOf, FilterThrows, StatisticsKnown

\* At the start every star is its own root.
LEMMA InitInv == Init => EstimateInv
<1> SUFFICES ASSUME Init PROVE EstimateInv
  OBVIOUS
<1>1. /\ input \in Inputs /\ input \in Input /\ N \in Nat \ {0} /\ Stars = 1..N
      /\ input.stars \in [Stars -> SUBSET StarAttr]
  BY InputFacts DEF Init
<1>2. TypeOK
  <2>1. dsStats \in Seq(Summary)
    BY DEF Init
  <2>2. parent \in [Stars -> Stars] /\ card \in [Rels -> Nat]
    BY DEF Init
  <2> QED BY <1>1, <2>1, <2>2 DEF Init, TypeOK
<1>3. MergeInv
  <2>1. PICK f : f = [k \in Stars |-> k]
    OBVIOUS
  <2>2. f \in [Stars -> Stars] /\ IsRootMap(f) /\ RootsHold(f) /\ SharedMerged(f)
    BY <1>1, <2>1 DEF Init, IsRootMap, RootsHold, SharedMerged, Passed
  <2> QED BY <2>2 DEF MergeInv, Init
<1>4. StatsInv /\ FiltersInv /\ CardInv
  <2>1. Len(dsStats) = 0 /\ DOMAIN dsStats = {}
    BY DEF Init
  <2> QED BY <1>1, <2>1 DEF Init, StatsInv, FiltersInv, CardInv
<1> QED BY <1>1, <1>2, <1>3, <1>4
        DEF Init, EstimateInv, OutcomeAsInSession

(***************************************************************************)
(* The roots of the stars when a step leaves the union-find alone.         *)
(***************************************************************************)
LEMMA MergeKept ==
    ASSUME NEW f \in [Stars -> Stars], IsRootMap(f), RootsHold(f), SharedMerged(f),
           UNCHANGED <<input, attrEsets, parent>>,
           \A a, b \in Stars :
              a < b /\ Passed(a, b)' /\ CanMerge(input.stars[a], input.stars[b])
                 => Passed(a, b) \/ f[a] = f[b],
           phase' = "find" => f[root1'] = f[i'] /\ f[root2'] = f[j']
    PROVE  MergeInv'
<1>1. Stars' = Stars
  BY DEF Stars
<1>2. IsRootMap(f)'
  BY <1>1 DEF IsRootMap
<1>3. RootsHold(f)'
  BY <1>1 DEF RootsHold
<1>4. SharedMerged(f)'
  BY <1>1 DEF SharedMerged
<1> QED BY <1>1, <1>2, <1>3, <1>4 DEF MergeInv

(***************************************************************************)
(* An exception: the outcome is the one Session expects.                   *)
(***************************************************************************)
Expected ==
    IF \E k \in Stars : ~StatisticsKnown(KeyOf(k)) THEN "statistics"
    ELSE IF \E r \in Rels : FilterThrows(r) THEN "filter"
    ELSE "ok"

\* A throw with the expected outcome keeps the invariant.
LEMMA ThrowInv ==
    ASSUME EstimateInv, NEW w \in {"statistics", "filter", "out_of_range", "undefined"},
           Throw(w), NoSelfJoin => w = Expected
    PROVE  EstimateInv'
<1>1. /\ phase' = "done" /\ outcome' = w
      /\ UNCHANGED <<input, i, j, todo, attrEsets, parent, dsStats, root1, root2, card>>
  BY DEF Throw
<1>2. /\ Stars' = Stars /\ N' = N /\ Rels' = Rels /\ NoSelfJoin' = NoSelfJoin
      /\ Summary' = Summary
      /\ \A k : KeyOf(k)' = KeyOf(k)
      /\ \A r : FilterThrows(r)' = FilterThrows(r)
      /\ \A key : StatisticsKnown(key)' = StatisticsKnown(key)
  BY <1>1, SameInput
<1>3. TypeOK'
  BY <1>1, <1>2 DEF EstimateInv, TypeOK
<1>4. MergeInv'
  <2>1. PICK f \in [Stars -> Stars] : IsRootMap(f) /\ RootsHold(f) /\ SharedMerged(f)
    BY DEF EstimateInv, MergeInv
  <2>2. \A a, b : ~Passed(a, b)'
    BY <1>1 DEF Passed
  <2> QED BY <1>1, <2>1, <2>2, MergeKept
<1>5. StatsInv' /\ FiltersInv' /\ CardInv'
  BY <1>1 DEF StatsInv, FiltersInv, CardInv
<1>6. OutcomeAsInSession'
  BY <1>1, <1>2 DEF OutcomeAsInSession, Expected
<1> QED BY <1>1, <1>3, <1>4, <1>5, <1>6 DEF EstimateInv
-----------------------------------------------------------------------------
(***************************************************************************)
(* A step that leaves the union-find and the result alone and stays out of *)
(* the last loop: what is left to show.                                    *)
(***************************************************************************)
LEMMA EarlyStep ==
    ASSUME EstimateInv, phase \in {"lookup", "filter"},
           phase' \in {"lookup", "filter", "merge"},
           phase' = "merge" => i' = 1 /\ j' = 2,
           UNCHANGED <<input, attrEsets, parent, root1, root2, card, outcome>>,
           TypeOK', StatsInv', FiltersInv'
    PROVE  EstimateInv'
<1>1. /\ input \in Inputs /\ Stars = 1..N /\ N \in Nat \ {0} /\ outcome = "none"
      /\ outcome' = "none" /\ phase' # "done"
  BY InputFacts DEF EstimateInv
<1>2. Stars' = Stars /\ Rels' = Rels
  BY SameInput
<1>3. MergeInv'
  <2>1. PICK f \in [Stars -> Stars] : IsRootMap(f) /\ RootsHold(f) /\ SharedMerged(f)
    BY DEF EstimateInv, MergeInv
  <2>2. \A a, b \in Stars : a < b => ~Passed(a, b)'
    BY <1>1 DEF Passed
  <2> QED BY <2>1, <2>2, MergeKept
<1>4. CardInv'
  BY <1>2 DEF EstimateInv, CardInv
<1> QED BY <1>1, <1>3, <1>4
        DEF EstimateInv, OutcomeAsInSession

\* The summary of a star as it is looked up.
LEMMA CollectedFacts ==
    ASSUME NEW rels \in SUBSET Rels
    PROVE  /\ Collected(rels) \in Summary /\ Tables(Collected(rels)) = rels
           /\ Collected(rels).filters = {}
           /\ \A r \in Rels : Collected(rels).card[r] <= 1
<1>1. PICK c : c = [r \in Rels |-> IF r \in rels THEN 1 ELSE 0]
  OBVIOUS
<1>2. c \in [Rels -> Nat] /\ {r \in DOMAIN c : c[r] > 0} = rels
      /\ \A r \in Rels : c[r] <= 1
  BY <1>1
<1>3. PICK new : new = [card |-> c, filters |-> {}]
  OBVIOUS
<1>4. new.card = c /\ new.filters = {} /\ new \in Summary
  BY <1>2, <1>3 DEF Summary
<1>5. new = Collected(rels)
  BY <1>1, <1>3 DEF Collected
<1> QED BY <1>2, <1>4, <1>5 DEF Tables

\* The factors of a summary are naturals.
LEMMA SummaryCard ==
    ASSUME NEW s \in Summary
    PROVE  /\ s.card \in [Rels -> Nat] /\ DOMAIN s.card = Rels
           /\ \A r \in Rels : s.card[r] \in Nat /\ (r \in Tables(s) <=> s.card[r] > 0)
           /\ Tables(s) \subseteq Rels
<1>1. s.card \in [Rels -> Nat]
  BY DEF Summary
<1>2. DOMAIN s.card = Rels /\ \A r \in Rels : s.card[r] \in Nat
  BY <1>1
<1> QED BY <1>1, <1>2 DEF Tables

\* Two summaries with a common relation, joined on it.
IsMerge(new, s1, s2, c) ==
    /\ s1 \in Summary /\ s2 \in Summary
    /\ c \in Tables(s1) /\ c \in Tables(s2)
    /\ new = Merged(s1, s2, c)

\* What the joined summary is.
LEMMA MergedFacts ==
    ASSUME NEW s1, NEW s2, NEW c, NEW new, IsMerge(new, s1, s2, c)
    PROVE  /\ new \in Summary
           /\ Tables(new) = Tables(s1) \cup Tables(s2)
           /\ new.filters = s1.filters \cup s2.filters
           /\ \A r \in Rels : new.card[r]
                                 = s1.card[r] + s2.card[r] - (IF r = c THEN 1 ELSE 0)
<1>0. /\ s1 \in Summary /\ s2 \in Summary /\ c \in Tables(s1) /\ c \in Tables(s2)
      /\ new = Merged(s1, s2, c)
  BY DEF IsMerge
<1>1. PICK f1, f2 : f1 = s1.card /\ f2 = s2.card
  OBVIOUS
<1>2. /\ \A r \in Rels : f1[r] \in Nat /\ (r \in Tables(s1) <=> f1[r] > 0)
      /\ \A r \in Rels : f2[r] \in Nat /\ (r \in Tables(s2) <=> f2[r] > 0)
      /\ c \in Rels /\ f1[c] > 0 /\ f2[c] > 0
      /\ Tables(s1) \subseteq Rels /\ Tables(s2) \subseteq Rels
  BY <1>0, <1>1, SummaryCard
<1>3. PICK g : g = [r \in Rels |-> f1[r] + f2[r] - (IF r = c THEN 1 ELSE 0)]
  OBVIOUS
<1>4. ASSUME NEW r \in Rels
      PROVE  g[r] \in Nat /\ (g[r] > 0 <=> f1[r] > 0 \/ f2[r] > 0)
  BY <1>2, <1>3
<1>5. g \in [Rels -> Nat] /\ DOMAIN g = Rels
  <2>1. g = [r \in Rels |-> g[r]] /\ DOMAIN g = Rels
    BY <1>3
  <2> QED BY <1>4, <2>1
<1>6. {r \in DOMAIN g : g[r] > 0} = Tables(s1) \cup Tables(s2)
  BY <1>2, <1>4, <1>5
<1>7. PICK u : u = s1.filters \cup s2.filters /\ u \in SUBSET Nat
  BY <1>0 DEF Summary
<1>8. new = [card |-> g, filters |-> u]
  BY <1>0, <1>1, <1>3, <1>7 DEF Merged
<1>9. new.card = g /\ new.filters = u /\ new \in Summary
  BY <1>5, <1>7, <1>8 DEF Summary
<1>10. Tables(new) = Tables(s1) \cup Tables(s2)
  BY <1>6, <1>9 DEF Tables
<1>11. \A r \in Rels : new.card[r] = s1.card[r] + s2.card[r] - (IF r = c THEN 1 ELSE 0)
  BY <1>1, <1>3, <1>9
<1> QED BY <1>7, <1>9, <1>10, <1>11

\* A star without a summary is what Session fails for.
LEMMA LookUpInv == EstimateInv /\ LookUp => EstimateInv'
<1> SUFFICES ASSUME EstimateInv, LookUp PROVE EstimateInv'
  OBVIOUS
<1>0. /\ TypeOK /\ input \in Inputs /\ StatsInv /\ FiltersInv /\ phase = "lookup"
      /\ i \in Nat \ {0} /\ i <= N
  BY DEF EstimateInv, LookUp, TypeOK
<1>1. /\ N \in Nat \ {0} /\ Stars = 1..N
      /\ input.stars \in [Stars -> SUBSET StarAttr]
  BY <1>0, InputFacts
<1>2. i \in Stars /\ attrEsets[i] = input.stars[i] /\ attrEsets = input.stars
  BY <1>0, <1>1 DEF FiltersInv
<1>3. PICK rels : rels = Range(TableIdx(input.tableName, input.stars[i]))
  OBVIOUS
<1>4. CASE ~StatisticsKnown(KeyOf(i)) /\ Throw("statistics")
  <2>1. "statistics" = Expected
    BY <1>2, <1>4 DEF Expected
  <2> QED BY <1>4, <2>1, ThrowInv
<1>5. CASE /\ StatisticsKnown(KeyOf(i))
           /\ dsStats' = Append(dsStats, Collected(rels))
           /\ i' = i + 1
           /\ UNCHANGED <<input, phase, j, todo, attrEsets, parent, root1, root2,
                          card, outcome>>
  <2>1. PICK new : new = Collected(rels)
    OBVIOUS
  <2>2. rels \subseteq Rels /\ (NoSelfJoin => rels = RelsOf(input.stars[i]))
    <3>1. input.stars[i] \in SUBSET StarAttr /\ IsFiniteSet(input.stars[i])
      BY <1>0, <1>1, <1>2, InputsAssumption DEF Stars
    <3>2. rels \subseteq RelsOf(input.stars[i])
      BY <1>3, <3>1, TableIdxIn
    <3>3. rels \subseteq Rels
      BY <1>0, <1>2, <3>2, InputFacts
    <3>4. NoSelfJoin => rels = RelsOf(input.stars[i])
      BY <1>2, <1>3, <3>1, TableIdxRange DEF NoSelfJoin
    <3> QED BY <3>3, <3>4
  <2>3. new \in Summary /\ Tables(new) = rels
    BY <2>1, <2>2, CollectedFacts
  <2>4. /\ dsStats \in Seq(Summary)
        /\ Len(dsStats) = i - 1
    BY <1>0 DEF TypeOK, StatsInv
  <2>5. /\ dsStats' \in Seq(Summary)
        /\ Len(dsStats') = i /\ DOMAIN dsStats' = 1..i /\ DOMAIN dsStats = 1..(i - 1)
        /\ dsStats'[i] = new /\ \A k \in DOMAIN dsStats : dsStats'[k] = dsStats[k]
    BY <1>0, <1>5, <2>1, <2>3, <2>4
  <2>6. /\ Stars' = Stars /\ N' = N /\ Rels' = Rels /\ NoSelfJoin' = NoSelfJoin
        /\ Summary' = Summary
        /\ \A k : KeyOf(k)' = KeyOf(k)
        /\ \A key : StatisticsKnown(key)' = StatisticsKnown(key)
    BY <1>5, SameInput
  <2>7. TypeOK'
    BY <1>0, <1>5, <2>5, <2>6 DEF TypeOK
  <2>8. \A k \in DOMAIN dsStats' : k = i \/ k \in DOMAIN dsStats
    BY <1>0, <2>5
  <2>9. \A k \in DOMAIN dsStats' : StatisticsKnown(KeyOf(k))
    BY <1>0, <1>5, <2>8 DEF StatsInv
  <2>10. NoSelfJoin => \A k \in DOMAIN dsStats' : Tables(dsStats'[k]) = RelsOf(attrEsets[k])
    <3> SUFFICES ASSUME NoSelfJoin, NEW k \in DOMAIN dsStats'
                 PROVE  Tables(dsStats'[k]) = RelsOf(attrEsets[k])
      OBVIOUS
    <3>1. CASE k = i
      BY <1>2, <2>2, <2>3, <2>5, <3>1
    <3>2. CASE k \in DOMAIN dsStats
      BY <1>0, <2>5, <3>2 DEF StatsInv
    <3> QED BY <2>8, <3>1, <3>2
  <2>11. StatsInv'
    <3>1. /\ phase' = "lookup" /\ Len(dsStats') = i' - 1 /\ i' <= N' + 1
          /\ attrEsets' = attrEsets
      BY <1>0, <1>1, <1>5, <2>5, <2>6
    <3>2. \A k \in DOMAIN dsStats' : StatisticsKnown(KeyOf(k))'
      BY <2>6, <2>9 DEF StatisticsKnown
    <3> QED BY <2>6, <2>10, <3>1, <3>2 DEF StatsInv
  <2>12. FiltersInv'
    BY <1>0, <1>5 DEF FiltersInv
  <2> QED BY <1>0, <1>5, <2>7, <2>11, <2>12, EarlyStep
<1> QED BY <1>0, <1>2, <1>3, <1>4, <1>5 DEF LookUp, KeyOf

\* The first attribute in the order of a std::set exists.
LEMMA NextAttrIn ==
    ASSUME todo \subseteq StarAttr, todo # {}
    PROVE  NextAttr \in todo /\ NextRel \in RelsOf(todo)
<1>1. PICK r \in RelsOf(todo) : \A q \in RelsOf(todo) : r <= q
  <2>1. RelsOf(todo) \in SUBSET Nat /\ RelsOf(todo) # {}
    BY RelsOfType DEF RelsOf
  <2> QED BY <2>1, MinIn
<1>2. PICK C : C = {a[2] : a \in {b \in todo : b[1] = r}}
  OBVIOUS
<1>3. C \in SUBSET Nat /\ C # {}
  BY <1>1, <1>2 DEF StarAttr, RelsOf
<1>4. PICK c \in C : \A d \in C : c <= d
  BY <1>3, MinIn
<1>5. PICK a \in todo : a[1] = r /\ a[2] = c
  BY <1>2, <1>4
<1>6. ASSUME NEW b \in todo PROVE ~Before(b, a)
  <2>1. b[1] \in Nat /\ b[2] \in Nat /\ r \in Nat /\ c \in Nat
    BY <1>1, <1>3, <1>4, RelsOfType DEF StarAttr
  <2>2. r <= b[1] /\ (b[1] = r => c <= b[2])
    BY <1>1, <1>2, <1>4 DEF RelsOf
  <2> QED BY <1>5, <2>1, <2>2 DEF Before
<1>7. NextAttr \in todo
  BY <1>5, <1>6 DEF NextAttr
<1> QED BY <1>7 DEF NextRel, RelsOf

\* The filters start with the first star.
LEMMA StartFiltersInv == EstimateInv /\ StartFilters => EstimateInv'
<1> SUFFICES ASSUME EstimateInv, StartFilters PROVE EstimateInv'
  OBVIOUS
<1>0. /\ TypeOK /\ input \in Inputs /\ StatsInv /\ FiltersInv /\ phase = "lookup" /\ i > N
      /\ phase' = "filter" /\ i' = 1 /\ todo' = attrEsets[1]
      /\ UNCHANGED <<input, j, attrEsets, parent, dsStats, root1, root2, card, outcome>>
  BY DEF EstimateInv, StartFilters
<1>1. N \in Nat \ {0} /\ Stars = 1..N /\ i \in Nat /\ 1 \in Stars
  BY <1>0, InputFacts DEF TypeOK
<1>2. /\ Stars' = Stars /\ N' = N /\ Rels' = Rels /\ NoSelfJoin' = NoSelfJoin
      /\ Summary' = Summary
      /\ \A k : KeyOf(k)' = KeyOf(k)
      /\ \A r : FilterThrows(r)' = FilterThrows(r)
  BY <1>0, SameInput
<1>3. TypeOK'
  BY <1>0, <1>1, <1>2 DEF TypeOK
<1>4. StatsInv'
  BY <1>0, <1>1, <1>2 DEF StatsInv, StatisticsKnown
<1>5. FiltersInv'
  BY <1>0, <1>1, <1>2 DEF FiltersInv, RelsOf
<1> QED BY <1>0, <1>3, <1>4, <1>5, EarlyStep

\* An attribute of which the filter has been applied, or has not to be.
LEMMA FilteredInv ==
    ASSUME EstimateInv, phase = "filter", todo # {}, ~FilterThrows(NextRel),
           NEW stats \in Seq(Summary),
           Len(stats) = Len(dsStats), Filtered(stats),
           \A k \in DOMAIN dsStats : Tables(stats[k]) = Tables(dsStats[k])
    PROVE  EstimateInv'
<1>0. /\ TypeOK /\ input \in Inputs /\ StatsInv /\ FiltersInv
      /\ dsStats' = stats /\ todo' = todo \ {NextAttr}
      /\ UNCHANGED <<input, phase, i, j, attrEsets, parent, root1, root2, card, outcome>>
  BY DEF EstimateInv, Filtered
<1>1. N \in Nat \ {0} /\ Stars = 1..N /\ i \in Stars
  BY <1>0, InputFacts DEF TypeOK
<1>2. /\ Stars' = Stars /\ N' = N /\ Rels' = Rels /\ NoSelfJoin' = NoSelfJoin
      /\ Summary' = Summary
      /\ \A k : KeyOf(k)' = KeyOf(k)
      /\ \A r : FilterThrows(r)' = FilterThrows(r)
  BY <1>0, SameInput
<1>3. TypeOK'
  BY <1>0, <1>1, <1>2 DEF TypeOK
<1>4. StatsInv'
  <2>1. DOMAIN stats = DOMAIN dsStats
    BY <1>0 DEF TypeOK
  <2> QED BY <1>0, <1>2, <2>1 DEF StatsInv, StatisticsKnown
<1>5. FiltersInv'
  <2>1. todo' \subseteq attrEsets[i] /\ attrEsets = input.stars
    BY <1>0 DEF FiltersInv
  <2>2. \A r \in RelsOf(attrEsets[i] \ todo') : ~FilterThrows(r)
    <3>1. \A a \in attrEsets[i] \ todo' : a = NextAttr \/ a \in attrEsets[i] \ todo
      BY <1>0
    <3>2. \A r \in RelsOf(attrEsets[i] \ todo') :
             r = NextRel \/ r \in RelsOf(attrEsets[i] \ todo)
      BY <3>1 DEF RelsOf, NextRel
    <3> QED BY <1>0, <3>2 DEF FiltersInv
  <2> QED BY <1>0, <1>2, <2>1, <2>2 DEF FiltersInv
<1> QED BY <1>0, <1>3, <1>4, <1>5, EarlyStep

\* An element of dsStats.
LEMMA StatsElement ==
    ASSUME NEW T, NEW s \in Seq(T), NEW n \in Nat, Len(s) = n, NEW k \in 1..n
    PROVE  s[k] \in T
OBVIOUS

\* An element of dsStats is replaced.
LEMMA StatsReplaced ==
    ASSUME NEW T, NEW s \in Seq(T), NEW n \in Nat, Len(s) = n, NEW k \in 1..n,
           NEW x \in T, NEW t, t = [s EXCEPT ![k] = x]
    PROVE  /\ t \in Seq(T) /\ Len(t) = n /\ DOMAIN t = 1..n /\ t[k] = x
           /\ \A l \in 1..n : l # k => t[l] = s[l]
OBVIOUS

\* The filter actions.
LEMMA FilterActionsInv ==
    ASSUME EstimateInv, NoFilterToApply \/ ApplyFilter \/ FilterMisses \/ FilterFails
    PROVE  EstimateInv'
<1>0. /\ TypeOK /\ input \in Inputs /\ StatsInv /\ FiltersInv /\ phase = "filter" /\ todo # {}
  BY DEF EstimateInv, NoFilterToApply, ApplyFilter, FilterMisses, FilterFails
<1>1. /\ N \in Nat \ {0} /\ Stars = 1..N /\ i \in Stars /\ input \in Input
      /\ dsStats \in Seq(Summary) /\ Len(dsStats) = N
  BY <1>0, InputFacts DEF TypeOK, StatsInv
<1>2. NextRel \in RelsOf(attrEsets[i]) /\ NextRel \in Rels
  <2>1. NextRel \in RelsOf(todo) /\ todo \subseteq attrEsets[i] /\ attrEsets = input.stars
    BY <1>0, NextAttrIn DEF TypeOK, FiltersInv
  <2>2. NextRel \in RelsOf(attrEsets[i])
    BY <2>1 DEF RelsOf
  <2> QED BY <1>0, <1>1, <2>1, <2>2, InputFacts
<1>3. \A k \in Stars : StatisticsKnown(KeyOf(k))
  BY <1>0, <1>1 DEF StatsInv
<1>4. CASE NoFilterToApply
  BY <1>0, <1>1, <1>4, FilteredInv DEF NoFilterToApply
<1>5. CASE ApplyFilter
  <2>1. PICK stats : stats = [dsStats EXCEPT ![i].filters = @ \cup {NextRel}]
    OBVIOUS
  <2>2. NextRel \in Nat
    <3>1. NextRel \in DOMAIN input.filters
      BY <1>5 DEF ApplyFilter, FilterThrows
    <3>2. input.filters \in Seq(STRING)
      BY <1>1 DEF Input
    <3> QED BY <3>1, <3>2
  <2>3. PICK new : new = [dsStats[i] EXCEPT !.filters = @ \cup {NextRel}]
    OBVIOUS
  <2>4. /\ new \in Summary
        /\ Tables(new) = Tables(dsStats[i])
    <3>1. dsStats[i] \in Summary
      BY <1>1, StatsElement
    <3>2. new.card = dsStats[i].card /\ new \in Summary
      BY <2>2, <2>3, <3>1 DEF Summary
    <3> QED BY <3>2 DEF Tables
  <2>5. stats = [dsStats EXCEPT ![i] = new]
    BY <2>1, <2>3
  <2>6. /\ stats \in Seq(Summary)
        /\ Len(stats) = Len(dsStats)
        /\ \A k \in DOMAIN dsStats : Tables(stats[k]) = Tables(dsStats[k])
    BY <1>1, <2>4, <2>5
  <2>7. ~FilterThrows(NextRel) /\ Filtered(stats)
    BY <1>5, <2>1 DEF ApplyFilter
  <2> QED BY <1>0, <2>6, <2>7, FilteredInv
<1>6. CASE FilterMisses
  <2>1. ~NoSelfJoin
    BY <1>0, <1>1, <1>2, <1>6 DEF FilterMisses, StatsInv
  <2>2. PICK w \in {"out_of_range", "undefined"} : Throw(w)
    BY <1>6 DEF FilterMisses
  <2> QED BY <2>1, <2>2, ThrowInv
<1>7. CASE FilterFails
  <2>1. "filter" = Expected
    BY <1>2, <1>3, <1>7 DEF FilterFails, Expected
  <2> QED BY <1>7, <2>1, ThrowInv DEF FilterFails
<1> QED BY <1>4, <1>5, <1>6, <1>7

\* After the filters of the last star, no relation has one that throws.
LEMMA NextStarInv == EstimateInv /\ NextStar => EstimateInv'
<1> SUFFICES ASSUME EstimateInv, NextStar PROVE EstimateInv'
  OBVIOUS
<1>0. /\ TypeOK /\ input \in Inputs /\ StatsInv /\ FiltersInv /\ phase = "filter" /\ todo = {}
      /\ UNCHANGED <<input, attrEsets, parent, dsStats, root1, root2, card, outcome>>
  BY DEF EstimateInv, NextStar
<1>1. /\ N \in Nat \ {0} /\ Stars = 1..N /\ i \in Stars
      /\ attrEsets = input.stars /\ attrEsets \in [Stars -> SUBSET StarAttr]
  BY <1>0, InputFacts DEF TypeOK, FiltersInv
<1>2. /\ Stars' = Stars /\ N' = N /\ Rels' = Rels /\ NoSelfJoin' = NoSelfJoin
      /\ Summary' = Summary
      /\ \A k : KeyOf(k)' = KeyOf(k)
      /\ \A r : FilterThrows(r)' = FilterThrows(r)
  BY <1>0, SameInput
<1>3. \A k \in Stars : k < i + 1 => \A r \in RelsOf(attrEsets[k]) : ~FilterThrows(r)
  <2>1. attrEsets[i] \ todo = attrEsets[i]
    BY <1>0
  <2>2. \A r \in RelsOf(attrEsets[i]) : ~FilterThrows(r)
    BY <1>0, <2>1 DEF FiltersInv
  <2>3. \A k \in Stars : k < i + 1 => k = i \/ k < i
    BY <1>1
  <2> QED BY <1>0, <2>2, <2>3 DEF FiltersInv
<1>4. CASE i < N /\ i' = i + 1 /\ j' = j /\ todo' = attrEsets[i + 1] /\ phase' = phase
  <2>1. i' \in Stars /\ i' \in Nat \ {0}
    BY <1>1, <1>4
  <2>2. TypeOK'
    BY <1>0, <1>1, <1>2, <1>4, <2>1 DEF TypeOK
  <2>3. StatsInv'
    BY <1>0, <1>2, <1>4 DEF StatsInv, StatisticsKnown
  <2>4. FiltersInv'
    <3>1. \A r : r \notin RelsOf(attrEsets'[i'] \ todo')
      BY <1>0, <1>4 DEF RelsOf
    <3> QED BY <1>0, <1>1, <1>2, <1>3, <1>4, <3>1 DEF FiltersInv
  <2> QED BY <1>0, <1>4, <2>2, <2>3, <2>4, EarlyStep
<1>5. CASE i = N /\ phase' = "merge" /\ i' = 1 /\ j' = 2 /\ todo' = todo
  <2>1. /\ i' \in Nat \ {0} /\ j' \in Nat \ {0} /\ i' \in Stars
        /\ i' < N' => j' \in Stars /\ i' < j'
    BY <1>1, <1>2, <1>5
  <2>2. TypeOK'
    <3>1. phase' \notin {"filter", "find"} /\ todo' = todo
      BY <1>5
    <3> QED BY <1>0, <1>2, <1>5, <2>1, <3>1 DEF TypeOK
  <2>3. StatsInv'
    BY <1>0, <1>2, <1>5 DEF StatsInv, StatisticsKnown
  <2>4. FiltersInv'
    <3>1. \A k \in Stars : k < i + 1
      BY <1>1, <1>5
    <3>2. \A r \in Rels : ~FilterThrows(r)
      BY <1>1, <1>3, <3>1 DEF Rels
    <3> QED BY <1>2, <1>5, <3>2 DEF FiltersInv
  <2> QED BY <1>0, <1>5, <2>2, <2>3, <2>4, EarlyStep
<1> QED BY <1>4, <1>5 DEF NextStar
-----------------------------------------------------------------------------
\* The pair loop: what has been passed after NextPair is the pair and what
\* had been passed before.
LEMMA PairStep ==
    ASSUME EstimateInv, NextPair, phase \in {"merge", "find"}, phase = "merge" => i < N,
           phase' = "merge", N' = N, NEW a \in Stars, NEW b \in Stars, a < b,
           Passed(a, b)'
    PROVE  Passed(a, b) \/ (a = i /\ b = j)
<1>1. /\ input \in Inputs /\ i \in Stars /\ j \in Stars /\ i < j
  BY DEF EstimateInv, TypeOK
<1>2. N \in Nat \ {0} /\ Stars = 1..N
  BY <1>1, InputFacts
<1> QED BY <1>1, <1>2 DEF NextPair, Passed

\* The indices stay in bounds.
LEMMA PairBounds ==
    ASSUME EstimateInv, NextPair, phase \in {"merge", "find"}, phase = "merge" => i < N
    PROVE  /\ i' \in Nat \ {0} /\ j' \in Nat \ {0}
           /\ i' < N => i' \in Stars /\ j' \in Stars /\ i' < j'
<1>1. /\ input \in Inputs /\ i \in Stars /\ j \in Stars /\ i < j
  BY DEF EstimateInv, TypeOK
<1>2. N \in Nat \ {0} /\ Stars = 1..N
  BY <1>1, InputFacts
<1> QED BY <1>1, <1>2 DEF NextPair

(***************************************************************************)
(* A step of the pair loop that leaves the summaries alone.                *)
(***************************************************************************)
LEMMA LoopStep ==
    ASSUME EstimateInv, phase \in {"merge", "find"}, phase' \in {"merge", "find"},
           UNCHANGED <<input, todo, attrEsets, parent, dsStats, card, outcome>>,
           root1' \in Stars, root2' \in Stars,
           i' \in Nat \ {0}, j' \in Nat \ {0},
           phase' = "find" \/ i' < N => i' \in Stars /\ j' \in Stars /\ i' < j',
           phase' = "find" => CanMerge(attrEsets[i'], attrEsets[j']),
           MergeInv'
    PROVE  EstimateInv'
<1>0. /\ TypeOK /\ input \in Inputs /\ StatsInv /\ FiltersInv /\ CardInv
      /\ outcome = "none"
  BY DEF EstimateInv
<1>1. /\ Stars' = Stars /\ N' = N /\ Rels' = Rels /\ NoSelfJoin' = NoSelfJoin
      /\ Summary' = Summary
      /\ \A k : KeyOf(k)' = KeyOf(k)
      /\ \A r : FilterThrows(r)' = FilterThrows(r)
  BY SameInput
<1>2. TypeOK'
  <2>1. phase' # "filter"
    OBVIOUS
  <2> QED BY <1>0, <1>1, <2>1 DEF TypeOK
<1>3. StatsInv'
  BY <1>0, <1>1 DEF StatsInv, StatisticsKnown
<1>4. FiltersInv'
  BY <1>0, <1>1 DEF FiltersInv
<1>5. CardInv'
  BY <1>0, <1>1 DEF CardInv
<1> QED BY <1>0, <1>2, <1>3, <1>4, <1>5
        DEF EstimateInv, OutcomeAsInSession

\* A pair that shares nothing is passed.
LEMMA SkipPairInv == EstimateInv /\ SkipPair => EstimateInv'
<1> SUFFICES ASSUME EstimateInv, SkipPair PROVE EstimateInv'
  OBVIOUS
<1>0. /\ phase = "merge" /\ i < N /\ ~CanMerge(attrEsets[i], attrEsets[j]) /\ NextPair
      /\ UNCHANGED <<input, phase, todo, attrEsets, parent, dsStats, root1, root2, card,
                     outcome>>
  BY DEF SkipPair
<1>1. /\ i' \in Nat \ {0} /\ j' \in Nat \ {0} /\ root1' \in Stars /\ root2' \in Stars
      /\ i' < N => i' \in Stars /\ j' \in Stars /\ i' < j'
      /\ i \in Stars /\ j \in Stars /\ N' = N
  BY <1>0, PairBounds, SameInput DEF EstimateInv, TypeOK
<1>2. PICK f \in [Stars -> Stars] : IsRootMap(f) /\ RootsHold(f) /\ SharedMerged(f)
  BY DEF EstimateInv, MergeInv
<1>3. ~CanMerge(input.stars[i], input.stars[j])
  BY <1>0, <1>1, <1>2 DEF RootsHold, CanMerge
<1>4. \A a, b \in Stars :
         a < b /\ Passed(a, b)' /\ CanMerge(input.stars[a], input.stars[b])
            => Passed(a, b)
  BY <1>0, <1>1, <1>3, PairStep
<1>5. MergeInv'
  BY <1>0, <1>2, <1>4, MergeKept
<1> QED BY <1>0, <1>1, <1>5, LoopStep

\* The roots of a pair are looked for, starting with its indices.
LEMMA MergePairInv == EstimateInv /\ MergePair => EstimateInv'
<1> SUFFICES ASSUME EstimateInv, MergePair PROVE EstimateInv'
  OBVIOUS
<1>0. /\ phase = "merge" /\ i < N /\ CanMerge(attrEsets[i], attrEsets[j])
      /\ phase' = "find" /\ root1' = i /\ root2' = j
      /\ UNCHANGED <<input, i, j, todo, attrEsets, parent, dsStats, card, outcome>>
  BY DEF MergePair
<1>1. i \in Stars /\ j \in Stars /\ i < j /\ i \in Nat \ {0} /\ j \in Nat \ {0}
  BY <1>0 DEF EstimateInv, TypeOK
<1>2. PICK f \in [Stars -> Stars] : IsRootMap(f) /\ RootsHold(f) /\ SharedMerged(f)
  BY DEF EstimateInv, MergeInv
<1>3. \A a, b \in Stars : Passed(a, b)' => Passed(a, b)
  BY <1>0 DEF Passed
<1>4. MergeInv'
  BY <1>0, <1>2, <1>3, MergeKept
<1> QED BY <1>0, <1>1, <1>4, LoopStep

\* Climbing to the parent keeps the root.
LEMMA ClimbInv == EstimateInv /\ Climb => EstimateInv'
<1> SUFFICES ASSUME EstimateInv, Climb PROVE EstimateInv'
  OBVIOUS
<1>0. /\ phase = "find" /\ phase' = phase
      /\ UNCHANGED <<input, i, j, todo, attrEsets, parent, dsStats, card, outcome>>
      /\ \/ root1' = parent[root1] /\ root2' = root2
         \/ root2' = parent[root2] /\ root1' = root1
  BY DEF Climb
<1>1. /\ i \in Stars /\ j \in Stars /\ i < j /\ i \in Nat \ {0} /\ j \in Nat \ {0}
      /\ root1 \in Stars /\ root2 \in Stars /\ parent \in [Stars -> Stars]
      /\ CanMerge(attrEsets[i], attrEsets[j])
  BY <1>0 DEF EstimateInv, TypeOK, CardInv
<1>2. PICK f \in [Stars -> Stars] : /\ IsRootMap(f) /\ RootsHold(f) /\ SharedMerged(f)
                                    /\ f[root1] = f[i] /\ f[root2] = f[j]
  BY <1>0 DEF EstimateInv, MergeInv
<1>3. \A a, b \in Stars : Passed(a, b)' => Passed(a, b)
  BY <1>0 DEF Passed
<1>4. root1' \in Stars /\ root2' \in Stars /\ f[root1'] = f[i] /\ f[root2'] = f[j]
  BY <1>0, <1>1, <1>2 DEF IsRootMap
<1>5. MergeInv'
  BY <1>0, <1>2, <1>3, <1>4, MergeKept
<1> QED BY <1>0, <1>1, <1>4, <1>5, LoopStep

\* The pair already has one root.
LEMMA SameRootInv == EstimateInv /\ SameRoot => EstimateInv'
<1> SUFFICES ASSUME EstimateInv, SameRoot PROVE EstimateInv'
  OBVIOUS
<1>0. /\ phase = "find" /\ root1 = root2 /\ phase' = "merge" /\ NextPair
      /\ UNCHANGED <<input, todo, attrEsets, parent, dsStats, root1, root2, card, outcome>>
  BY DEF SameRoot, RootsFound
<1>1. /\ i' \in Nat \ {0} /\ j' \in Nat \ {0} /\ root1' \in Stars /\ root2' \in Stars
      /\ i' < N => i' \in Stars /\ j' \in Stars /\ i' < j'
      /\ i \in Stars /\ j \in Stars /\ N' = N
  BY <1>0, PairBounds, SameInput DEF EstimateInv, TypeOK
<1>2. PICK f \in [Stars -> Stars] : /\ IsRootMap(f) /\ RootsHold(f) /\ SharedMerged(f)
                                    /\ f[root1] = f[i] /\ f[root2] = f[j]
  BY <1>0 DEF EstimateInv, MergeInv
<1>3. \A a, b \in Stars : a < b /\ Passed(a, b)' => Passed(a, b) \/ f[a] = f[b]
  BY <1>0, <1>1, <1>2, PairStep
<1>4. MergeInv'
  BY <1>0, <1>2, <1>3, MergeKept
<1> QED BY <1>0, <1>1, <1>4, LoopStep

(***************************************************************************)
(* Linking root2 below root1: the stars below root2 now have root1.        *)
(***************************************************************************)
LEMMA LinkedRoots ==
    ASSUME TypeOK, NEW f \in [Stars -> Stars], IsRootMap(f), RootsHold(f),
           parent[root1] = root1, parent[root2] = root2, root1 # root2,
           parent' = Linked, input' = input,
           attrEsets' = [attrEsets EXCEPT ![root1] = @ \cup attrEsets[root2]],
           NEW g, g = [k \in Stars |-> IF f[k] = root2 THEN root1 ELSE f[k]]
    PROVE  g \in [Stars -> Stars] /\ IsRootMap(g)' /\ RootsHold(g)'
<1>0. /\ root1 \in Stars /\ root2 \in Stars /\ parent \in [Stars -> Stars]
      /\ attrEsets \in [Stars -> SUBSET StarAttr] /\ Stars' = Stars
  BY SameInput DEF TypeOK
<1>1. f[root1] = root1 /\ f[root2] = root2
  BY <1>0 DEF IsRootMap
<1>2. /\ parent'[root2] = root1
      /\ \A k \in Stars : k # root2 => parent'[k] = parent[k]
  BY <1>0 DEF Linked
<1>3. /\ g \in [Stars -> Stars] /\ g[root1] = root1 /\ g[root2] = root1
      /\ \A k \in Stars : g[k] = IF f[k] = root2 THEN root1 ELSE f[k]
      /\ \A k, l \in Stars : f[k] = f[l] => g[k] = g[l]
  BY <1>0, <1>1
<1>4. ASSUME NEW k \in Stars
      PROVE  /\ parent'[g[k]] = g[k] /\ g[parent'[k]] = g[k]
             /\ parent'[k] = k => g[k] = k
  <2>1. f[k] \in Stars /\ parent[k] \in Stars /\ parent[f[k]] = f[k] /\ f[parent[k]] = f[k]
        /\ (parent[k] = k => f[k] = k)
    BY <1>0 DEF IsRootMap
  <2>2. parent'[g[k]] = g[k]
    BY <1>0, <1>2, <1>3, <2>1
  <2>3. g[parent'[k]] = g[k]
    BY <1>0, <1>2, <1>3, <2>1
  <2>4. parent'[k] = k => g[k] = k
    BY <1>0, <1>2, <1>3, <2>1
  <2> QED BY <2>2, <2>3, <2>4
<1>5. IsRootMap(g)'
  BY <1>0, <1>3, <1>4 DEF IsRootMap
<1>6. /\ RelsOf(attrEsets'[root1]) = RelsOf(attrEsets[root1]) \cup RelsOf(attrEsets[root2])
      /\ \A k \in Stars : k # root1 => attrEsets'[k] = attrEsets[k]
      /\ \A k \in Stars : RelsOf(attrEsets[k]) \subseteq RelsOf(attrEsets'[k])
  <2>1. /\ attrEsets'[root1] = attrEsets[root1] \cup attrEsets[root2]
        /\ \A k \in Stars : k # root1 => attrEsets'[k] = attrEsets[k]
    BY <1>0
  <2>2. RelsOf(attrEsets'[root1]) = RelsOf(attrEsets[root1]) \cup RelsOf(attrEsets[root2])
    BY <2>1, RelsOfUnion
  <2> QED BY <2>1, <2>2
<1>7. ASSUME NEW k \in Stars
      PROVE  /\ RelsOf(input.stars[k]) \subseteq RelsOf(attrEsets'[k])
             /\ RelsOf(attrEsets'[k]) \subseteq RelsOf(attrEsets'[g[k]])
  <2>1. /\ f[k] \in Stars
        /\ RelsOf(input.stars[k]) \subseteq RelsOf(attrEsets[k])
        /\ RelsOf(attrEsets[k]) \subseteq RelsOf(attrEsets[f[k]])
    BY DEF RootsHold
  <2>2. CASE k = root1
    BY <1>3, <1>6, <2>1, <2>2
  <2>3. CASE k # root1
    BY <1>0, <1>3, <1>6, <2>1, <2>3
  <2> QED BY <2>2, <2>3
<1>8. ASSUME NEW k \in Stars, NEW r \in RelsOf(attrEsets'[k])
      PROVE  \E l \in Stars : g[l] = g[k] /\ r \in RelsOf(input.stars[l])
  <2>1. CASE r \in RelsOf(attrEsets[k])
    BY <1>3, <2>1 DEF RootsHold
  <2>2. CASE k = root1 /\ r \in RelsOf(attrEsets[root2])
    <3>1. PICK l \in Stars : f[l] = f[root2] /\ r \in RelsOf(input.stars[l])
      BY <1>0, <2>2 DEF RootsHold
    <3> QED BY <1>0, <1>3, <2>2, <3>1
  <2> QED BY <1>6, <1>8, <2>1, <2>2
<1>9. RootsHold(g)'
  <2>1. \A k \in Stars : /\ RelsOf(input.stars[k]) \subseteq RelsOf(attrEsets'[k])
                         /\ RelsOf(attrEsets'[k]) \subseteq RelsOf(attrEsets'[g[k]])
    BY <1>7
  <2>2. \A k \in Stars : \A r \in RelsOf(attrEsets'[k]) :
           \E l \in Stars : g[l] = g[k] /\ r \in RelsOf(input.stars[l])
    BY <1>8
  <2> QED BY ONLY input' = input, <1>0, <2>1, <2>2 DEF RootsHold
<1> QED BY <1>3, <1>5, <1>9

\* Two roots are merged through a relation both summaries have.
LEMMA MergeRootsInv == EstimateInv /\ MergeRoots => EstimateInv'
<1> SUFFICES ASSUME EstimateInv, MergeRoots PROVE EstimateInv'
  OBVIOUS
<1>0. /\ TypeOK /\ input \in Inputs /\ StatsInv /\ FiltersInv /\ CardInv
      /\ outcome = "none" /\ phase = "find"
      /\ parent[root1] = root1 /\ parent[root2] = root2 /\ root1 # root2
  BY DEF EstimateInv, MergeRoots, RootsFound
<1>1. /\ N \in Nat \ {0} /\ Stars = 1..N /\ i \in Stars /\ j \in Stars /\ i < j
      /\ root1 \in Stars /\ root2 \in Stars /\ parent \in [Stars -> Stars]
      /\ attrEsets \in [Stars -> SUBSET StarAttr]
      /\ dsStats \in Seq(Summary) /\ Len(dsStats) = N
      /\ DOMAIN dsStats = Stars
  BY <1>0, InputFacts DEF TypeOK, StatsInv
<1>2. PICK f \in [Stars -> Stars] : /\ IsRootMap(f) /\ RootsHold(f) /\ SharedMerged(f)
                                    /\ f[root1] = f[i] /\ f[root2] = f[j]
  BY <1>0 DEF EstimateInv, MergeInv
<1>3. f[i] = root1 /\ f[j] = root2
  BY <1>0, <1>1, <1>2 DEF IsRootMap
<1>4. PICK c : c = GetCommonRelation(attrEsets[root1], attrEsets[root2])
  OBVIOUS
<1>5. NoSelfJoin => c \in Tables(dsStats[root1]) \cap Tables(dsStats[root2])
  <2>1. CanMerge(attrEsets[i], attrEsets[j])
    BY <1>0 DEF CardInv
  <2>2. CanMerge(attrEsets[root1], attrEsets[root2])
    BY <1>1, <1>2, <1>3, <2>1 DEF CanMerge, RootsHold
  <2>3. c \in RelsOf(attrEsets[root1]) \cap RelsOf(attrEsets[root2])
    BY <1>1, <1>4, <2>2, CommonRel
  <2> QED BY <1>0, <1>1, <2>3 DEF StatsInv
<1>6. CASE /\ c \notin Tables(dsStats[root1]) \cap Tables(dsStats[root2])
           /\ Throw("out_of_range")
  BY <1>5, <1>6, ThrowInv
<1>7. CASE /\ c \in Tables(dsStats[root1]) \cap Tables(dsStats[root2])
           /\ parent' = Linked
           /\ attrEsets' = [attrEsets EXCEPT ![root1] = @ \cup attrEsets[root2]]
           /\ dsStats' = [dsStats EXCEPT
                             ![root1] = Merged(dsStats[root1], dsStats[root2], c)]
           /\ phase' = "merge" /\ NextPair
           /\ UNCHANGED <<input, todo, root1, root2, card, outcome>>
  <2>1. /\ Stars' = Stars /\ N' = N /\ Rels' = Rels /\ NoSelfJoin' = NoSelfJoin
        /\ Summary' = Summary
        /\ \A k : KeyOf(k)' = KeyOf(k)
        /\ \A r : FilterThrows(r)' = FilterThrows(r)
    BY <1>7, SameInput
  <2>2. PICK g : g = [k \in Stars |-> IF f[k] = root2 THEN root1 ELSE f[k]]
    OBVIOUS
  <2>3. g \in [Stars -> Stars] /\ IsRootMap(g)' /\ RootsHold(g)'
    BY <1>0, <1>2, <1>7, <2>2, LinkedRoots
  <2>4. SharedMerged(g)'
    <3> SUFFICES ASSUME NEW a \in Stars, NEW b \in Stars, a < b, Passed(a, b)',
                        CanMerge(input.stars[a], input.stars[b])
                 PROVE  g[a] = g[b]
      BY <1>7, <2>1 DEF SharedMerged
    <3>1. CASE Passed(a, b)
      <4>1. f[a] = f[b]
        BY <1>2, <3>1 DEF SharedMerged
      <4> QED BY <2>2, <4>1
    <3>2. CASE a = i /\ b = j
      BY <1>1, <1>3, <2>2, <3>2
    <3>3. Passed(a, b) \/ (a = i /\ b = j)
      BY <1>0, <1>7, <2>1, PairStep
    <3> QED BY <3>1, <3>2, <3>3
  <2>5. MergeInv'
    BY <1>7, <2>1, <2>3, <2>4 DEF MergeInv
  <2>6. PICK T : T = Summary
    OBVIOUS
  <2>7. PICK new : new = Merged(dsStats[root1], dsStats[root2], c)
    OBVIOUS
  <2>8. new \in T /\ Tables(new) = Tables(dsStats[root1]) \cup Tables(dsStats[root2])
    <3>1. dsStats[root1] \in T /\ dsStats[root2] \in T
      BY <1>1, <2>6, StatsElement
    <3>2. IsMerge(new, dsStats[root1], dsStats[root2], c)
      BY <1>7, <2>6, <2>7, <3>1 DEF IsMerge
    <3> QED BY <2>6, <3>2, MergedFacts
  <2>9. /\ dsStats' \in Seq(T) /\ Len(dsStats') = N /\ DOMAIN dsStats' = Stars
        /\ dsStats'[root1] = new
        /\ \A k \in Stars : k # root1 => dsStats'[k] = dsStats[k]
    <3>1. dsStats \in Seq(T) /\ dsStats' = [dsStats EXCEPT ![root1] = new]
      BY <1>1, <1>7, <2>6, <2>7
    <3> QED BY <1>1, <2>8, <3>1, StatsReplaced
  <2>10. /\ attrEsets' \in [Stars -> SUBSET StarAttr]
         /\ attrEsets'[root1] = attrEsets[root1] \cup attrEsets[root2]
         /\ \A k \in Stars : k # root1 => attrEsets'[k] = attrEsets[k]
    BY <1>1, <1>7
  <2>11. TypeOK'
    <3>1. /\ i' \in Nat \ {0} /\ j' \in Nat \ {0}
          /\ i' < N => i' \in Stars /\ j' \in Stars /\ i' < j'
      BY <1>0, <1>7, PairBounds
    <3>2. parent' \in [Stars -> Stars] /\ phase' \notin {"find", "filter"}
      BY <1>1, <1>7 DEF Linked
    <3> QED BY <1>0, <1>7, <2>1, <2>6, <2>9, <2>10, <3>1, <3>2 DEF TypeOK
  <2>12. StatsInv'
    <3>1. NoSelfJoin => \A k \in Stars : Tables(dsStats'[k]) = RelsOf(attrEsets'[k])
      <4> SUFFICES ASSUME NoSelfJoin, NEW k \in Stars
                   PROVE  Tables(dsStats'[k]) = RelsOf(attrEsets'[k])
        OBVIOUS
      <4>0. /\ Tables(dsStats[root1]) = RelsOf(attrEsets[root1])
            /\ Tables(dsStats[root2]) = RelsOf(attrEsets[root2])
            /\ Tables(dsStats[k]) = RelsOf(attrEsets[k])
        BY <1>0, <1>1 DEF StatsInv
      <4>1. CASE k = root1
        <5>1. RelsOf(attrEsets'[root1])
                 = RelsOf(attrEsets[root1]) \cup RelsOf(attrEsets[root2])
          BY <2>10, RelsOfUnion
        <5>2. Tables(dsStats'[root1]) = Tables(dsStats[root1]) \cup Tables(dsStats[root2])
          BY <2>8, <2>9
        <5> QED BY <4>0, <4>1, <5>1, <5>2
      <4>2. CASE k # root1
        BY <2>9, <2>10, <4>0, <4>2
      <4> QED BY <4>1, <4>2
    <3>2. \A k \in Stars : StatisticsKnown(KeyOf(k))
      BY <1>0, <1>1 DEF StatsInv
    <3> QED BY <1>7, <2>1, <2>9, <3>1, <3>2 DEF StatsInv, StatisticsKnown
  <2>13. FiltersInv' /\ CardInv'
    BY <1>0, <1>7, <2>1 DEF FiltersInv, CardInv
  <2> QED BY <1>0, <1>7, <2>5, <2>11, <2>12, <2>13
          DEF EstimateInv, OutcomeAsInSession
<1> QED BY <1>4, <1>6, <1>7 DEF MergeRoots
-----------------------------------------------------------------------------
\* When the pair loop ends it has passed every pair.
LEMMA StartProductInv == EstimateInv /\ StartProduct => EstimateInv'
<1> SUFFICES ASSUME EstimateInv, StartProduct PROVE EstimateInv'
  OBVIOUS
<1>0. /\ TypeOK /\ input \in Inputs /\ StatsInv /\ FiltersInv /\ CardInv
      /\ outcome = "none" /\ phase = "merge" /\ i >= N /\ phase' = "product" /\ i' = 1
      /\ UNCHANGED <<input, j, todo, attrEsets, parent, dsStats, root1, root2, card,
                     outcome>>
  BY DEF EstimateInv, StartProduct
<1>1. N \in Nat \ {0} /\ Stars = 1..N /\ i \in Nat
  BY <1>0, InputFacts DEF TypeOK
<1>2. /\ Stars' = Stars /\ N' = N /\ Rels' = Rels /\ NoSelfJoin' = NoSelfJoin
      /\ Summary' = Summary
      /\ \A k : KeyOf(k)' = KeyOf(k)
      /\ \A r : FilterThrows(r)' = FilterThrows(r)
  BY <1>0, SameInput
<1>3. TypeOK'
  BY <1>0, <1>2 DEF TypeOK
<1>4. MergeInv'
  <2>1. PICK f \in [Stars -> Stars] : IsRootMap(f) /\ RootsHold(f) /\ SharedMerged(f)
    BY DEF EstimateInv, MergeInv
  <2>2. \A a, b \in Stars : a < b => Passed(a, b)
    BY <1>0, <1>1 DEF Passed
  <2> QED BY <1>0, <2>1, <2>2, MergeKept
<1>5. StatsInv'
  BY <1>0, <1>2 DEF StatsInv, StatisticsKnown
<1>6. FiltersInv'
  BY <1>0, <1>2 DEF FiltersInv
<1>7. CardInv'
  <2>1. \A r \in Rels : card[r] = 0
    BY <1>0 DEF CardInv
  <2>2. \A k \in Stars : ~(k < 1)
    BY <1>1
  <2> QED BY <1>0, <1>2, <2>1, <2>2 DEF CardInv
<1> QED BY <1>0, <1>3, <1>4, <1>5, <1>6, <1>7
        DEF EstimateInv, OutcomeAsInSession

(***************************************************************************)
(* In the last loop two roots have no relation in common: it would be a    *)
(* relation of a star below each, and the pair loop merged those.          *)
(***************************************************************************)
LEMMA RootsDisjoint ==
    ASSUME EstimateInv, phase = "product", NEW k \in Stars, NEW l \in Stars,
           parent[k] = k, parent[l] = l,
           NEW r, r \in RelsOf(attrEsets[k]), r \in RelsOf(attrEsets[l])
    PROVE  k = l
<1>1. Stars = 1..N /\ N \in Nat
  BY InputFacts DEF EstimateInv
<1>2. PICK f \in [Stars -> Stars] : IsRootMap(f) /\ RootsHold(f) /\ SharedMerged(f)
  BY DEF EstimateInv, MergeInv
<1>3. f[k] = k /\ f[l] = l
  BY <1>2 DEF IsRootMap
<1>4. PICK a \in Stars : f[a] = k /\ r \in RelsOf(input.stars[a])
  BY <1>2, <1>3 DEF RootsHold
<1>5. PICK b \in Stars : f[b] = l /\ r \in RelsOf(input.stars[b])
  BY <1>2, <1>3 DEF RootsHold
<1>6. CanMerge(input.stars[a], input.stars[b]) /\ CanMerge(input.stars[b], input.stars[a])
  BY <1>4, <1>5 DEF CanMerge
<1>7. \A c, d \in Stars :
         c < d /\ CanMerge(input.stars[c], input.stars[d]) => f[c] = f[d]
  BY <1>2 DEF SharedMerged, Passed
<1>8. a < b \/ b < a \/ a = b
  BY <1>1
<1> QED BY <1>4, <1>5, <1>6, <1>7, <1>8

\* A root multiplies the result by the relations of its own.
LEMMA MultiplyInv == EstimateInv /\ Multiply => EstimateInv'
<1> SUFFICES ASSUME EstimateInv, Multiply PROVE EstimateInv'
  OBVIOUS
<1>0. /\ TypeOK /\ input \in Inputs /\ StatsInv /\ FiltersInv /\ CardInv
      /\ outcome = "none" /\ phase = "product" /\ phase' = "product" /\ i <= N
      /\ i' = i + 1
      /\ UNCHANGED <<input, phase, j, todo, attrEsets, parent, dsStats, root1, root2,
                     outcome>>
  BY DEF EstimateInv, Multiply
<1>1. /\ N \in Nat \ {0} /\ Stars = 1..N /\ i \in Stars /\ i \in Nat \ {0}
      /\ card \in [Rels -> Nat] /\ Len(dsStats) = N /\ DOMAIN dsStats = Stars
  BY <1>0, InputFacts DEF TypeOK, StatsInv
<1>2. /\ Stars' = Stars /\ N' = N /\ Rels' = Rels /\ NoSelfJoin' = NoSelfJoin
      /\ Summary' = Summary
      /\ \A k : KeyOf(k)' = KeyOf(k)
      /\ \A r : FilterThrows(r)' = FilterThrows(r)
  BY <1>0, SameInput
<1>3. dsStats[i] \in Summary /\ \A r \in Rels : dsStats[i].card[r] \in Nat
  BY <1>0, <1>1, StatsElement, SummaryCard DEF TypeOK
<1>4. card' = IF parent[i] = i THEN [r \in Rels |-> card[r] + dsStats[i].card[r]] ELSE card
  BY DEF Multiply
<1>5. card' \in [Rels -> Nat]
  BY <1>1, <1>3, <1>4
<1>6. TypeOK'
  <2>1. i' \in Nat \ {0}
    BY <1>0, <1>1
  <2> QED BY <1>0, <1>2, <1>5, <2>1 DEF TypeOK
<1>7. MergeInv'
  <2>1. PICK f \in [Stars -> Stars] : IsRootMap(f) /\ RootsHold(f) /\ SharedMerged(f)
    BY DEF EstimateInv, MergeInv
  <2>2. \A a, b \in Stars : Passed(a, b)
    BY <1>0 DEF Passed
  <2> QED BY <1>0, <2>1, <2>2, MergeKept
<1>8. StatsInv'
  BY <1>0, <1>2 DEF StatsInv, StatisticsKnown
<1>9. FiltersInv'
  BY <1>0, <1>2 DEF FiltersInv
<1>10. CardInv'
  <2> SUFFICES ASSUME NoSelfJoin, NEW r \in Rels
               PROVE  card'[r] > 0 <=> \E k \in Stars : /\ k < i + 1 /\ parent[k] = k
                                                        /\ r \in RelsOf(attrEsets[k])
    BY <1>0, <1>2 DEF CardInv
  <2>1. Tables(dsStats[i]) = RelsOf(attrEsets[i])
    BY <1>0, <1>1 DEF StatsInv
  <2>2. card[r] > 0 <=> \E k \in Stars : /\ k < i /\ parent[k] = k
                                         /\ r \in RelsOf(attrEsets[k])
    BY <1>0 DEF CardInv
  <2>3. \A k \in Stars : k < i + 1 <=> k < i \/ k = i
    BY <1>1
  <2>4. PICK n \in Nat : n = card[r]
    BY <1>1
  <2>5. PICK m \in Nat : m = dsStats[i].card[r] /\ (m > 0 <=> r \in RelsOf(attrEsets[i]))
    BY <1>3, <2>1, SummaryCard
  <2>6. card'[r] = IF parent[i] = i THEN n + m ELSE n
    BY <1>4, <2>4, <2>5
  <2>7. card'[r] > 0 <=> n > 0 \/ (parent[i] = i /\ m > 0)
    BY <2>4, <2>5, <2>6
  <2> QED BY <1>1, <2>2, <2>3, <2>4, <2>5, <2>7
<1> QED BY <1>0, <1>6, <1>7, <1>8, <1>9, <1>10
        DEF EstimateInv, OutcomeAsInSession

\* Every relation is one of the root of its star, and was counted there.
LEMMA ReturnCardInv == EstimateInv /\ ReturnCard => EstimateInv'
<1> SUFFICES ASSUME EstimateInv, ReturnCard PROVE EstimateInv'
  OBVIOUS
<1>0. /\ TypeOK /\ input \in Inputs /\ StatsInv /\ FiltersInv /\ CardInv
      /\ phase = "product" /\ phase' = "done" /\ i > N /\ outcome' = "ok"
      /\ UNCHANGED <<input, i, j, todo, attrEsets, parent, dsStats, root1, root2, card>>
  BY DEF EstimateInv, ReturnCard
<1>1. /\ N \in Nat \ {0} /\ Stars = 1..N /\ i \in Nat \ {0} /\ DOMAIN dsStats = Stars
  BY <1>0, InputFacts DEF TypeOK, StatsInv
<1>2. /\ Stars' = Stars /\ N' = N /\ Rels' = Rels /\ NoSelfJoin' = NoSelfJoin
      /\ Summary' = Summary
      /\ \A k : KeyOf(k)' = KeyOf(k)
      /\ \A r : FilterThrows(r)' = FilterThrows(r)
      /\ \A key : StatisticsKnown(key)' = StatisticsKnown(key)
  BY <1>0, SameInput
<1>3. TypeOK'
  BY <1>0, <1>2 DEF TypeOK
<1>4. PICK f \in [Stars -> Stars] : IsRootMap(f) /\ RootsHold(f) /\ SharedMerged(f)
  BY DEF EstimateInv, MergeInv
<1>5. MergeInv'
  <2>1. \A a, b : ~Passed(a, b)'
    BY <1>0 DEF Passed
  <2> QED BY <1>0, <1>4, <2>1, MergeKept
<1>6. StatsInv' /\ FiltersInv' /\ CardInv'
  BY <1>0 DEF StatsInv, FiltersInv, CardInv
<1>7. OutcomeAsInSession'
  <2>1. \A k \in Stars : StatisticsKnown(KeyOf(k))
    BY <1>0, <1>1 DEF StatsInv
  <2>2. \A r \in Rels : ~FilterThrows(r)
    BY <1>0 DEF FiltersInv
  <2> QED BY <1>0, <1>2, <2>1, <2>2 DEF OutcomeAsInSession
<1>8. ASSUME NoSelfJoin, NEW r \in Rels PROVE card[r] > 0
  <2>1. PICK k \in Stars : r \in RelsOf(input.stars[k])
    BY <1>8 DEF Rels
  <2>2. /\ f[k] \in Stars /\ parent[f[k]] = f[k] /\ r \in RelsOf(attrEsets[f[k]])
    BY <1>4, <2>1 DEF IsRootMap, RootsHold
  <2>3. f[k] < i
    BY <1>0, <1>1, <2>2
  <2> QED BY <1>0, <1>8, <2>2, <2>3 DEF CardInv
<1> QED BY <1>0, <1>2, <1>3, <1>5, <1>6, <1>7, <1>8 DEF EstimateInv
-----------------------------------------------------------------------------
\* A step that changes nothing.
LEMMA StutterInv == EstimateInv /\ UNCHANGED vars => EstimateInv'
<1> SUFFICES ASSUME EstimateInv, UNCHANGED vars PROVE EstimateInv'
  OBVIOUS
<1>0. UNCHANGED <<input, phase, i, j, todo, attrEsets, parent, dsStats, root1, root2,
                  card, outcome>>
  BY DEF vars
<1>1. /\ Stars' = Stars /\ N' = N /\ Rels' = Rels /\ NoSelfJoin' = NoSelfJoin
      /\ Summary' = Summary
      /\ \A k : KeyOf(k)' = KeyOf(k)
      /\ \A r : FilterThrows(r)' = FilterThrows(r)
      /\ \A key : StatisticsKnown(key)' = StatisticsKnown(key)
  BY <1>0, SameInput
<1>2. TypeOK'
  BY <1>0, <1>1 DEF EstimateInv, TypeOK
<1>3. MergeInv'
  <2>1. PICK f \in [Stars -> Stars] :
           /\ IsRootMap(f) /\ RootsHold(f) /\ SharedMerged(f)
           /\ phase = "find" => f[root1] = f[i] /\ f[root2] = f[j]
    BY DEF EstimateInv, MergeInv
  <2>2. \A a, b : Passed(a, b)' <=> Passed(a, b)
    BY <1>0 DEF Passed
  <2> QED BY <1>0, <2>1, <2>2, MergeKept
<1>4. StatsInv'
  BY <1>0, <1>1 DEF EstimateInv, StatsInv
<1>5. FiltersInv'
  BY <1>0, <1>1 DEF EstimateInv, FiltersInv
<1>6. CardInv'
  BY <1>0, <1>1 DEF EstimateInv, CardInv
<1>7. OutcomeAsInSession'
  BY <1>0, <1>1 DEF EstimateInv, OutcomeAsInSession
<1>8. outcome' = "ok" /\ NoSelfJoin' => \A r \in Rels' : card'[r] > 0
  BY <1>0, <1>1 DEF EstimateInv
<1> QED BY <1>0, <1>2, <1>3, <1>4, <1>5, <1>6, <1>7, <1>8 DEF EstimateInv

\* Every step keeps the invariant.
LEMMA NextInv == EstimateInv /\ [Next]_vars => EstimateInv'
<1>1. EstimateInv /\ Step => EstimateInv'
  BY LookUpInv, StartFiltersInv, FilterActionsInv, NextStarInv, SkipPairInv,
     MergePairInv, ClimbInv, SameRootInv, MergeRootsInv, StartProductInv, MultiplyInv,
     ReturnCardInv
     DEF Step
<1>2. Returned => UNCHANGED vars
  BY DEF Returned
<1> QED BY <1>1, <1>2, StutterInv DEF Next

(***************************************************************************)
(* The inductive invariant of EstimateCardinality, for every join graph.   *)
(***************************************************************************)
THEOREM Invariant == Spec => []EstimateInv
BY InitInv, NextInv, PTL DEF Spec

(***************************************************************************)
(* The loops of EstimateCardinality index its vectors within their bounds. *)
(***************************************************************************)
THEOREM TypeCorrect == Spec => []TypeOK
<1>1. EstimateInv => TypeOK
  BY DEF EstimateInv
<1> QED BY <1>1, Invariant, PTL

(***************************************************************************)
(* EstimateCardinality throws for a star without summary, then for a       *)
(* filter, and never because of the order in which it merges the stars:    *)
(* what Session takes as one step.                                         *)
(***************************************************************************)
THEOREM ThrowsAsInSession == Spec => []OutcomeAsInSession
<1>1. EstimateInv => OutcomeAsInSession
  BY DEF EstimateInv
<1> QED BY <1>1, Invariant, PTL
-----------------------------------------------------------------------------
(***************************************************************************)
(* Why two roots of a Berge-acyclic graph share one relation only: their   *)
(* stars and relations together would have too many edges for a forest.    *)
(***************************************************************************)
RelsBelow(K) == UNION {RelsOf(input.stars[k]) : k \in K}

\* There are finitely many stars and relations.
LEMMA FiniteGraph ==
    ASSUME input \in Inputs
    PROVE  /\ IsFiniteSet(Stars) /\ IsFiniteSet(Rels)
           /\ Nats(StarSizes, Stars)
           /\ \A K \in SUBSET Stars : RelsBelow(K) \subseteq Rels
<1>1. N \in Nat \ {0} /\ Stars = 1..N /\ input \in Input
  BY InputFacts
<1>2. IsFiniteSet(Stars)
  BY <1>1, FS_Interval
<1>3. PICK n \in Nat : DOMAIN input.tableName = 1..n
  BY <1>1 DEF Input
<1>4. Rels \in SUBSET (1..n)
  BY <1>3, InputsAssumption DEF Rels, Stars
<1>5. IsFiniteSet(Rels)
  <2>1. IsFiniteSet(1..n)
    BY FS_Interval
  <2> QED BY <1>4, <2>1, FS_Subset
<1>6. ASSUME NEW k \in Stars PROVE StarSizes[k] \in Nat
  <2>1. RelsOf(input.stars[k]) \in SUBSET Rels
    BY InputFacts
  <2>2. IsFiniteSet(RelsOf(input.stars[k]))
    BY <1>5, <2>1, FS_Subset
  <2> QED BY <2>2, FS_CardinalityType DEF StarSizes
<1>7. \A K \in SUBSET Stars : RelsBelow(K) \subseteq Rels
  BY DEF RelsBelow, Rels
<1> QED BY <1>2, <1>5, <1>6, <1>7 DEF Nats

\* The edges are the sum of the sizes of the stars.
LEMMA EdgesSum ==
    ASSUME NEW K
    PROVE  Edges(K) = SumOf(StarSizes, K)
BY DEF Edges, SumFunctionOnSet, FoldFunctionOnSet, SumOf, MapThenSumSet, MapThenFoldSet

\* The sizes are those of the input.
LEMMA SameGraph ==
    ASSUME input' = input
    PROVE  /\ BergeAcyclic' = BergeAcyclic
           /\ \A K : Edges(K)' = Edges(K) /\ RelsBelow(K)' = RelsBelow(K)
<1>1. Stars' = Stars /\ StarSizes' = StarSizes
  BY DEF Stars, StarSizes
<1>2. ASSUME NEW K PROVE Edges(K)' = Edges(K)
  <2>1. Edges(K)' = SumFunctionOnSet(StarSizes', K)
    BY DEF Edges
  <2> QED BY <1>1, <2>1 DEF Edges
<1>3. BergeAcyclic' = BergeAcyclic
  BY <1>1, <1>2 DEF BergeAcyclic
<1> QED BY <1>2, <1>3 DEF RelsBelow

\* The relations of a root are those of the stars below it.
LEMMA RootRels ==
    ASSUME input \in Inputs, NEW f \in [Stars -> Stars], IsRootMap(f), RootsHold(f),
           NEW k \in Stars, parent[k] = k
    PROVE  /\ RelsOf(attrEsets[k]) = RelsBelow(Below(f, k))
           /\ IsFiniteSet(RelsOf(attrEsets[k]))
           /\ k \in Below(f, k)
<1>1. f[k] = k
  BY DEF IsRootMap
<1>2. ASSUME NEW r \in RelsOf(attrEsets[k]) PROVE r \in RelsBelow(Below(f, k))
  <2>1. PICK l \in Stars : f[l] = k /\ r \in RelsOf(input.stars[l])
    BY <1>1 DEF RootsHold
  <2> QED BY <2>1 DEF RelsBelow, Below
<1>3. ASSUME NEW r \in RelsBelow(Below(f, k)) PROVE r \in RelsOf(attrEsets[k])
  <2>1. PICK l \in Stars : f[l] = k /\ r \in RelsOf(input.stars[l])
    BY DEF RelsBelow, Below
  <2>2. /\ RelsOf(input.stars[l]) \subseteq RelsOf(attrEsets[l])
        /\ RelsOf(attrEsets[l]) \subseteq RelsOf(attrEsets[f[l]])
    BY DEF RootsHold
  <2> QED BY <2>1, <2>2
<1>4. RelsOf(attrEsets[k]) = RelsBelow(Below(f, k))
  BY <1>2, <1>3
<1>5. IsFiniteSet(RelsOf(attrEsets[k]))
  <2>1. Below(f, k) \in SUBSET Stars
    BY DEF Below
  <2>2. RelsOf(attrEsets[k]) \in SUBSET Rels /\ IsFiniteSet(Rels)
    BY <1>4, <2>1, FiniteGraph
  <2> QED BY <2>2, FS_Subset
<1> QED BY <1>1, <1>4, <1>5 DEF Below

\* What is known of two roots: the numbers of relations, of stars below and
\* of edges, and of the relations in common.
TwoRoots(f, k1, k2, B, u1, u2, n1, n2, e1, e2, s) ==
    /\ B = Below(f, k1) \cup Below(f, k2)
    /\ u1 = Cardinality(RelsOf(attrEsets[k1])) /\ u2 = Cardinality(RelsOf(attrEsets[k2]))
    /\ n1 = Cardinality(Below(f, k1)) /\ n2 = Cardinality(Below(f, k2))
    /\ e1 = Edges(Below(f, k1)) /\ e2 = Edges(Below(f, k2))
    /\ s = Cardinality(RelsOf(attrEsets[k1]) \cap RelsOf(attrEsets[k2]))
    /\ Cardinality(B) = n1 + n2 /\ Edges(B) = e1 + e2
    /\ RelsBelow(B) = RelsOf(attrEsets[k1]) \cup RelsOf(attrEsets[k2])
    /\ Cardinality(RelsBelow(B)) = u1 + u2 - s

\* Two roots have no star below both.
LEMMA TwoRootsFacts ==
    ASSUME input \in Inputs, NEW f \in [Stars -> Stars], IsRootMap(f), RootsHold(f),
           NEW k1 \in Stars, NEW k2 \in Stars, parent[k1] = k1, parent[k2] = k2, k1 # k2
    PROVE  \E B \in SUBSET Stars, u1, u2, n1, n2, e1, e2, s \in Nat :
              B # {} /\ TwoRoots(f, k1, k2, B, u1, u2, n1, n2, e1, e2, s)
<1>1. PICK B1, B2 : B1 = Below(f, k1) /\ B2 = Below(f, k2)
  OBVIOUS
<1>2. /\ B1 \in SUBSET Stars /\ B2 \in SUBSET Stars /\ B1 \cap B2 = {}
      /\ B1 \cup B2 \in SUBSET Stars
  BY <1>1 DEF Below
<1>3. PICK U1, U2 : U1 = RelsOf(attrEsets[k1]) /\ U2 = RelsOf(attrEsets[k2])
  OBVIOUS
<1>4. /\ U1 = RelsBelow(B1) /\ U2 = RelsBelow(B2) /\ IsFiniteSet(U1) /\ IsFiniteSet(U2)
      /\ k1 \in B1
  BY <1>1, <1>3, RootRels
<1>5. RelsBelow(B1 \cup B2) = U1 \cup U2
  BY <1>4 DEF RelsBelow
<1>6. IsFiniteSet(B1) /\ IsFiniteSet(B2)
  BY <1>2, FiniteGraph, FS_Subset
<1>7. PICK n1 \in Nat, n2 \in Nat : n1 = Cardinality(B1) /\ n2 = Cardinality(B2)
  BY <1>6, FS_CardinalityType
<1>8. PICK u1 \in Nat, u2 \in Nat : u1 = Cardinality(U1) /\ u2 = Cardinality(U2)
  BY <1>4, FS_CardinalityType
<1>9. PICK s \in Nat : s = Cardinality(U1 \cap U2)
  BY <1>4, FS_Intersection, FS_CardinalityType
<1>10. PICK e1 \in Nat, e2 \in Nat : e1 = Edges(B1) /\ e2 = Edges(B2)
  <2>1. SumOf(StarSizes, B1) \in Nat /\ SumOf(StarSizes, B2) \in Nat
    BY <1>2, FiniteGraph, NatsOfPart
  <2> QED BY <2>1, EdgesSum
<1>11. Edges(B1 \cup B2) = e1 + e2
  <2>1. SumOf(StarSizes, B1 \cup B2) = SumOf(StarSizes, B1) + SumOf(StarSizes, B2)
    BY <1>2, FiniteGraph, SumUnion
  <2> QED BY <1>10, <2>1, EdgesSum
<1>12. Cardinality(B1 \cup B2) = n1 + n2
  <2>1. Cardinality(B1 \cap B2) = 0
    BY <1>2, FS_EmptySet
  <2>2. Cardinality(B1 \cup B2) = Cardinality(B1) + Cardinality(B2) - Cardinality(B1 \cap B2)
    BY <1>6, FS_Union
  <2> QED BY <1>7, <2>1, <2>2
<1>13. Cardinality(U1 \cup U2) = u1 + u2 - s
  BY <1>4, <1>8, <1>9, FS_Union
<1>14. TwoRoots(f, k1, k2, B1 \cup B2, u1, u2, n1, n2, e1, e2, s)
  BY <1>1, <1>3, <1>5, <1>7, <1>8, <1>9, <1>10, <1>11, <1>12, <1>13 DEF TwoRoots
<1> QED BY <1>2, <1>4, <1>14

\* Two roots of a forest have at most one relation in common.
LEMMA OneInCommon ==
    ASSUME input \in Inputs, BergeAcyclic,
           NEW f \in [Stars -> Stars], IsRootMap(f), RootsHold(f), RootsConnected(f),
           NEW k1 \in Stars, NEW k2 \in Stars, parent[k1] = k1, parent[k2] = k2, k1 # k2,
           NEW c, NEW r,
           c \in RelsOf(attrEsets[k1]) \cap RelsOf(attrEsets[k2]),
           r \in RelsOf(attrEsets[k1]) \cap RelsOf(attrEsets[k2])
    PROVE  r = c
<1>1. PICK B \in SUBSET Stars, u1, u2, n1, n2, e1, e2, s \in Nat :
         B # {} /\ TwoRoots(f, k1, k2, B, u1, u2, n1, n2, e1, e2, s)
  BY TwoRootsFacts
<1>2. e1 + e2 < (n1 + n2) + (u1 + u2 - s)
  <2>1. Edges(B) < Cardinality(B) + Cardinality(RelsBelow(B))
    BY <1>1 DEF BergeAcyclic, RelsBelow
  <2> QED BY <1>1, <2>1 DEF TwoRoots
<1>3. u1 + n1 <= 1 + e1 /\ u2 + n2 <= 1 + e2
  BY <1>1 DEF TwoRoots, RootsConnected
<1>4. s < 2
  BY <1>2, <1>3
<1>5. PICK I : I = RelsOf(attrEsets[k1]) \cap RelsOf(attrEsets[k2]) /\ IsFiniteSet(I)
  BY RootRels, FS_Intersection
<1>6. Cardinality(I) < 2
  BY <1>1, <1>4, <1>5 DEF TwoRoots
<1>7. ASSUME r # c PROVE FALSE
  <2>1. {c} \cup {r} \in SUBSET I
    BY <1>5
  <2>2. IsFiniteSet({c}) /\ Cardinality({c}) = 1 /\ r \notin {c}
    BY <1>7, FS_Singleton
  <2>3. Cardinality({c} \cup {r}) = 2
    <3>1. PICK C : C = {c} /\ IsFiniteSet(C) /\ Cardinality(C) = 1 /\ r \notin C
      BY <2>2
    <3>2. Cardinality(C \cup {r}) = Cardinality(C) + 1
      BY <3>1, FS_AddElement
    <3> QED BY <3>1, <3>2
  <2>4. Cardinality({c} \cup {r}) <= Cardinality(I)
    BY <1>5, <2>1, FS_Subset
  <2>5. Cardinality(I) \in Nat
    BY <1>5, FS_CardinalityType
  <2> QED BY <1>6, <2>3, <2>4, <2>5
<1> QED BY <1>7

\* Linking two roots that share a relation leaves the roots connected.
LEMMA LinkedConnected ==
    ASSUME TypeOK, input \in Inputs,
           NEW f \in [Stars -> Stars], IsRootMap(f), RootsHold(f), RootsConnected(f),
           parent[root1] = root1, parent[root2] = root2, root1 # root2,
           parent' = Linked, input' = input,
           attrEsets' = [attrEsets EXCEPT ![root1] = @ \cup attrEsets[root2]],
           NEW g, g = [k \in Stars |-> IF f[k] = root2 THEN root1 ELSE f[k]],
           RelsOf(attrEsets[root1]) \cap RelsOf(attrEsets[root2]) # {}
    PROVE  RootsConnected(g)'
<1>0. /\ root1 \in Stars /\ root2 \in Stars /\ parent \in [Stars -> Stars]
      /\ attrEsets \in [Stars -> SUBSET StarAttr] /\ Stars' = Stars
  BY SameInput DEF TypeOK
<1>1. \A K : Edges(K)' = Edges(K)
  BY SameGraph
<1>2. \A k : Below(g, k)' = Below(g, k)
  BY <1>0 DEF Below
<1>3. ASSUME NEW k \in Stars, parent'[k] = k
      PROVE  Cardinality(RelsOf(attrEsets'[k])) + Cardinality(Below(g, k))
                <= 1 + Edges(Below(g, k))
  <2>1. k # root2 /\ parent[k] = k
    BY <1>0, <1>3 DEF Linked
  <2>2. CASE k = root1
    <3>1. PICK B \in SUBSET Stars, u1, u2, n1, n2, e1, e2, s \in Nat :
             B # {} /\ TwoRoots(f, root1, root2, B, u1, u2, n1, n2, e1, e2, s)
      BY <1>0, TwoRootsFacts
    <3>2. Below(g, k) = B
      BY <1>0, <2>2, <3>1 DEF Below, TwoRoots
    <3>3. RelsOf(attrEsets'[k]) = RelsBelow(B)
      <4>1. attrEsets'[k] = attrEsets[root1] \cup attrEsets[root2]
        BY <1>0, <2>2
      <4>2. RelsOf(attrEsets'[k]) = RelsOf(attrEsets[root1]) \cup RelsOf(attrEsets[root2])
        BY <4>1, RelsOfUnion
      <4> QED BY <3>1, <4>2 DEF TwoRoots
    <3>4. s >= 1
      <4>1. PICK I : I = RelsOf(attrEsets[root1]) \cap RelsOf(attrEsets[root2])
                     /\ IsFiniteSet(I) /\ I # {}
        <5>1. IsFiniteSet(RelsOf(attrEsets[root1]))
          BY <1>0, RootRels
        <5>2. IsFiniteSet(RelsOf(attrEsets[root1]) \cap RelsOf(attrEsets[root2]))
          BY <5>1, FS_Intersection
        <5> QED BY <5>2
      <4>2. Cardinality(I) # 0
        BY <4>1, FS_EmptySet
      <4> QED BY <3>1, <4>1, <4>2 DEF TwoRoots
    <3>5. u1 + n1 <= 1 + e1 /\ u2 + n2 <= 1 + e2
      BY <1>0, <3>1 DEF TwoRoots, RootsConnected
    <3>6. (u1 + u2 - s) + (n1 + n2) <= 1 + (e1 + e2)
      BY <3>4, <3>5
    <3> QED BY <3>1, <3>2, <3>3, <3>6 DEF TwoRoots
  <2>3. CASE k # root1
    <3>1. Below(g, k) = Below(f, k)
      BY <1>0, <2>1, <2>3 DEF Below
    <3>2. attrEsets'[k] = attrEsets[k]
      BY <1>0, <2>3
    <3> QED BY <2>1, <3>1, <3>2 DEF RootsConnected
  <2> QED BY <2>2, <2>3
<1> QED BY <1>0, <1>1, <1>2, <1>3 DEF RootsConnected

-----------------------------------------------------------------------------
(***************************************************************************)
(* No relation is a factor twice.                                          *)
(***************************************************************************)

\* At the start every star is a root: it has as many edges as relations.
LEMMA InitOnce == Init => OnceInv
<1> SUFFICES ASSUME Init PROVE OnceInv
  OBVIOUS
<1>1. /\ input \in Inputs /\ N \in Nat \ {0} /\ Stars = 1..N
      /\ attrEsets = input.stars /\ parent = [k \in Stars |-> k]
      /\ phase = "lookup" /\ outcome = "none" /\ DOMAIN dsStats = {}
  BY InputFacts DEF Init
<1>2. PICK f : f = [k \in Stars |-> k]
  OBVIOUS
<1>3. f \in [Stars -> Stars] /\ IsRootMap(f) /\ RootsHold(f)
  BY <1>1, <1>2 DEF IsRootMap, RootsHold
<1>4. RootsConnected(f)
  <2> SUFFICES ASSUME NEW k \in Stars
               PROVE  Cardinality(RelsOf(attrEsets[k])) + Cardinality(Below(f, k))
                         <= 1 + Edges(Below(f, k))
    BY DEF RootsConnected
  <2>1. Below(f, k) = {k}
    BY <1>2 DEF Below
  <2>2. Cardinality({k}) = 1
    BY FS_Singleton
  <2>3. PICK n \in Nat : n = StarSizes[k] /\ n = Cardinality(RelsOf(attrEsets[k]))
    BY <1>1, FiniteGraph DEF Nats, StarSizes
  <2>4. SumOf(StarSizes, {k}) = n
    <3>1. {k} \in SUBSET Stars
      OBVIOUS
    <3>2. Nats(StarSizes, {k})
      BY <1>1, <3>1, FiniteGraph, NatsOfPart
    <3>3. SumOf(StarSizes, {k}) = StarSizes[k] + SumOf(StarSizes, {k} \ {k})
      BY <3>2, SumTakeOut
    <3>4. {k} \ {k} = {}
      OBVIOUS
    <3> QED BY <2>3, <3>3, <3>4, SumEmpty
  <2> QED BY <2>1, <2>2, <2>3, <2>4, EdgesSum
<1> QED BY <1>1, <1>3, <1>4 DEF OnceInv

\* A step that leaves the union-find alone: what is left to show.
LEMMA OnceKept ==
    ASSUME OnceInv, UNCHANGED <<input, attrEsets, parent>>,
           phase' # "done" => phase # "done",
           NoSelfJoin /\ BergeAcyclic =>
              /\ phase' # "done" =>
                    \A k \in DOMAIN dsStats', r \in Rels : dsStats'[k].card[r] <= 1
              /\ phase' = "product" \/ outcome' = "ok" => \A r \in Rels : card'[r] <= 1
    PROVE  OnceInv'
<1>1. /\ Stars' = Stars /\ Rels' = Rels /\ NoSelfJoin' = NoSelfJoin
      /\ BergeAcyclic' = BergeAcyclic
  BY SameInput, SameGraph
<1>2. ASSUME NoSelfJoin, BergeAcyclic, phase' # "done"
      PROVE  \E f \in [Stars' -> Stars'] :
                IsRootMap(f)' /\ RootsHold(f)' /\ RootsConnected(f)'
  <2>1. PICK f \in [Stars -> Stars] : IsRootMap(f) /\ RootsHold(f) /\ RootsConnected(f)
    BY <1>2 DEF OnceInv
  <2>2. IsRootMap(f)' /\ RootsHold(f)'
    BY <1>1, <2>1 DEF IsRootMap, RootsHold
  <2>3. \A k : Below(f, k)' = Below(f, k) /\ Edges(Below(f, k))' = Edges(Below(f, k))
    <3>1. \A k : Below(f, k)' = Below(f, k)
      BY <1>1 DEF Below
    <3>2. StarSizes' = StarSizes
      BY <1>1 DEF StarSizes
    <3> QED BY <3>1, <3>2 DEF Edges
  <2>4. RootsConnected(f)'
    BY <1>1, <2>1, <2>3 DEF RootsConnected
  <2> QED BY <1>1, <2>1, <2>2, <2>4
<1> QED BY <1>1, <1>2 DEF OnceInv

\* A summary that is looked up has every relation of its star once.
LEMMA LookUpOnce ==
    ASSUME EstimateInv, OnceInv, LookUp
    PROVE  OnceInv'
<1>1. /\ phase = "lookup" /\ outcome = "none" /\ dsStats \in Seq(Summary)
      /\ UNCHANGED <<input, attrEsets, parent>>
  BY DEF LookUp, EstimateInv, TypeOK, Throw
<1>2. CASE phase' = "done" /\ outcome' = "statistics"
  BY <1>1, <1>2, OnceKept
<1>3. CASE phase' = "lookup" /\ outcome' = "none"
  <2>1. PICK rels : /\ dsStats' = Append(dsStats, Collected(rels))
                    /\ rels = Range(TableIdx(input.tableName, attrEsets[i]))
    BY <1>3 DEF LookUp, Throw
  <2>2. PICK new : new = Collected(rels)
    OBVIOUS
  <2>3. \A r \in Rels : new.card[r] <= 1
    <3>1. PICK c : c = [r \in Rels |-> IF r \in rels THEN 1 ELSE 0]
      OBVIOUS
    <3>2. new.card = c
      BY <2>2, <3>1 DEF Collected
    <3> QED BY <3>1, <3>2
  <2>4. PICK n \in Nat : n = Len(dsStats) /\ DOMAIN dsStats = 1..n
    BY <1>1
  <2>5. /\ DOMAIN dsStats' = 1..(n + 1) /\ dsStats'[n + 1] = new
        /\ \A k \in 1..n : dsStats'[k] = dsStats[k]
    BY <1>1, <2>1, <2>2, <2>4
  <2>6. \A k \in DOMAIN dsStats' : k = n + 1 \/ k \in DOMAIN dsStats
    BY <2>4, <2>5
  <2>7. ASSUME NoSelfJoin, BergeAcyclic
        PROVE  \A k \in DOMAIN dsStats', r \in Rels : dsStats'[k].card[r] <= 1
    BY <1>1, <2>3, <2>4, <2>5, <2>6, <2>7 DEF OnceInv
  <2> QED BY <1>1, <1>3, <2>7, OnceKept
<1> QED BY <1>1, <1>2, <1>3 DEF LookUp, Throw

\* A filter adds no relation to the summary.
LEMMA FilterOnce ==
    ASSUME EstimateInv, OnceInv, NoFilterToApply \/ ApplyFilter
    PROVE  OnceInv'
<1>1. /\ phase = "filter" /\ outcome = "none" /\ dsStats \in Seq(Summary)
      /\ UNCHANGED <<input, attrEsets, parent, phase, outcome>>
  BY DEF NoFilterToApply, ApplyFilter, Filtered, EstimateInv, TypeOK
<1>2. PICK n \in Nat : n = Len(dsStats) /\ DOMAIN dsStats = 1..n
  BY <1>1
<1>3. i \in 1..n
  BY <1>1, <1>2, InputFacts DEF EstimateInv, TypeOK, StatsInv
<1>4. DOMAIN dsStats' = 1..n /\ \A k \in 1..n : dsStats'[k].card = dsStats[k].card
  <2>1. CASE NoFilterToApply
    BY <1>2, <2>1 DEF NoFilterToApply, Filtered
  <2>2. CASE ApplyFilter
    <3>1. PICK x : x = NextRel
      OBVIOUS
    <3>2. PICK new : new = [dsStats[i] EXCEPT !.filters = @ \cup {x}]
      OBVIOUS
    <3>3. dsStats[i] \in Summary
      BY <1>1, <1>2, <1>3, StatsElement
    <3>4. new.card = dsStats[i].card
      BY <3>2, <3>3 DEF Summary
    <3>5. dsStats' = [dsStats EXCEPT ![i] = new]
      BY <2>2, <3>1, <3>2 DEF ApplyFilter, Filtered
    <3> QED BY <1>1, <1>2, <1>3, <3>4, <3>5
  <2> QED BY <2>1, <2>2
<1>5. ASSUME NoSelfJoin, BergeAcyclic
      PROVE  \A k \in DOMAIN dsStats', r \in Rels : dsStats'[k].card[r] <= 1
  BY <1>1, <1>2, <1>4, <1>5 DEF OnceInv
<1> QED BY <1>1, <1>5, OnceKept

\* Two roots are merged on the only relation they have in common.
LEMMA MergeRootsOnce ==
    ASSUME EstimateInv, OnceInv, MergeRoots
    PROVE  OnceInv'
<1>0. /\ TypeOK /\ input \in Inputs /\ StatsInv /\ CardInv /\ outcome = "none"
      /\ phase = "find" /\ parent[root1] = root1 /\ parent[root2] = root2 /\ root1 # root2
  BY DEF EstimateInv, MergeRoots, RootsFound
<1>1. /\ N \in Nat \ {0} /\ Stars = 1..N /\ root1 \in Stars /\ root2 \in Stars
      /\ attrEsets \in [Stars -> SUBSET StarAttr]
      /\ dsStats \in Seq(Summary) /\ Len(dsStats) = N /\ DOMAIN dsStats = Stars
  BY <1>0, InputFacts DEF TypeOK, StatsInv
<1>2. CASE Throw("out_of_range")
  BY <1>2, OnceKept DEF Throw
<1>3. CASE /\ parent' = Linked /\ phase' = "merge"
           /\ attrEsets' = [attrEsets EXCEPT ![root1] = @ \cup attrEsets[root2]]
           /\ \E c \in Tables(dsStats[root1]) \cap Tables(dsStats[root2]) :
                 dsStats' = [dsStats EXCEPT
                                ![root1] = Merged(dsStats[root1], dsStats[root2], c)]
           /\ UNCHANGED <<input, card, outcome>>
  <2>0. /\ Stars' = Stars /\ Rels' = Rels /\ NoSelfJoin' = NoSelfJoin
        /\ BergeAcyclic' = BergeAcyclic
    BY <1>3, SameInput, SameGraph
  <2> SUFFICES ASSUME NoSelfJoin, BergeAcyclic
               PROVE  /\ \E f \in [Stars -> Stars] :
                            IsRootMap(f)' /\ RootsHold(f)' /\ RootsConnected(f)'
                      /\ \A k \in DOMAIN dsStats', r \in Rels : dsStats'[k].card[r] <= 1
    BY <1>0, <1>3, <2>0 DEF OnceInv
  <2>1. PICK f \in [Stars -> Stars] : IsRootMap(f) /\ RootsHold(f) /\ RootsConnected(f)
    BY <1>0 DEF OnceInv
  <2>2. PICK c \in Tables(dsStats[root1]) \cap Tables(dsStats[root2]) :
           dsStats' = [dsStats EXCEPT
                          ![root1] = Merged(dsStats[root1], dsStats[root2], c)]
    BY <1>3
  <2>3. /\ Tables(dsStats[root1]) = RelsOf(attrEsets[root1])
        /\ Tables(dsStats[root2]) = RelsOf(attrEsets[root2])
    BY <1>0, <1>1 DEF StatsInv
  <2>4. PICK g : g = [k \in Stars |-> IF f[k] = root2 THEN root1 ELSE f[k]]
    OBVIOUS
  <2>5. g \in [Stars -> Stars] /\ IsRootMap(g)' /\ RootsHold(g)'
    BY <1>0, <1>3, <2>1, <2>4, LinkedRoots
  <2>6. RootsConnected(g)'
    <3>1. RelsOf(attrEsets[root1]) \cap RelsOf(attrEsets[root2]) # {}
      BY <2>2, <2>3
    <3> QED BY <1>0, <1>3, <2>1, <2>4, <3>1, LinkedConnected
  <2>7. PICK s1, s2, new : /\ s1 = dsStats[root1] /\ s2 = dsStats[root2]
                           /\ new = Merged(s1, s2, c)
    OBVIOUS
  <2>8. s1 \in Summary /\ s2 \in Summary
    BY <1>1, <2>7, StatsElement
  <2>9. IsMerge(new, s1, s2, c)
    BY <2>2, <2>7, <2>8 DEF IsMerge
  <2>10. ASSUME NEW r \in Rels PROVE new.card[r] <= 1
    <3>1. PICK a \in Nat : a = s1.card[r] /\ a <= 1 /\ (r \in Tables(s1) <=> a > 0)
      BY <1>0, <1>1, <2>7, <2>8, SummaryCard DEF OnceInv
    <3>2. PICK b \in Nat : b = s2.card[r] /\ b <= 1 /\ (r \in Tables(s2) <=> b > 0)
      BY <1>0, <1>1, <2>7, <2>8, SummaryCard DEF OnceInv
    <3>3. new.card[r] = a + b - (IF r = c THEN 1 ELSE 0)
      BY <2>9, <3>1, <3>2, MergedFacts
    <3>4. ASSUME a > 0, b > 0 PROVE r = c
      <4>1. r \in RelsOf(attrEsets[root1]) \cap RelsOf(attrEsets[root2])
        BY <2>3, <2>7, <3>1, <3>2, <3>4
      <4>2. c \in RelsOf(attrEsets[root1]) \cap RelsOf(attrEsets[root2])
        BY <2>2, <2>3
      <4> QED BY <1>0, <1>1, <2>1, <4>1, <4>2, OneInCommon
    <3> QED BY <3>1, <3>2, <3>3, <3>4
  <2>11. \A k \in DOMAIN dsStats' : k \in Stars /\ (k = root1 => dsStats'[k] = new)
                                   /\ (k # root1 => dsStats'[k] = dsStats[k])
    BY <1>1, <2>2, <2>7
  <2>12. \A k \in DOMAIN dsStats', r \in Rels : dsStats'[k].card[r] <= 1
    BY <1>0, <1>1, <2>10, <2>11 DEF OnceInv
  <2> QED BY <2>5, <2>6, <2>12
<1> QED BY <1>2, <1>3 DEF MergeRoots

\* A root multiplies the result by relations no other root has.
LEMMA MultiplyOnce ==
    ASSUME EstimateInv, OnceInv, Multiply
    PROVE  OnceInv'
<1>0. /\ input \in Inputs /\ StatsInv /\ CardInv /\ outcome = "none" /\ outcome' = "none"
      /\ phase = "product" /\ phase' = "product" /\ i <= N /\ TypeOK
      /\ UNCHANGED <<input, attrEsets, parent, dsStats>>
  BY DEF EstimateInv, Multiply
<1>1. /\ N \in Nat \ {0} /\ Stars = 1..N /\ i \in Stars /\ i \in Nat
      /\ card \in [Rels -> Nat] /\ Len(dsStats) = N /\ DOMAIN dsStats = Stars
      /\ dsStats \in Seq(Summary)
  BY <1>0, InputFacts DEF TypeOK, StatsInv
<1>2. ASSUME NoSelfJoin, BergeAcyclic, NEW r \in Rels PROVE card'[r] <= 1
  <2>1. dsStats[i] \in Summary
    BY <1>1, StatsElement
  <2>2. PICK m \in Nat : /\ m = dsStats[i].card[r] /\ m <= 1
                         /\ m > 0 <=> r \in RelsOf(attrEsets[i])
    BY <1>0, <1>1, <1>2, <2>1, SummaryCard DEF OnceInv, StatsInv
  <2>3. PICK n \in Nat : n = card[r] /\ n <= 1
    BY <1>0, <1>1, <1>2 DEF OnceInv
  <2>4. card'[r] = IF parent[i] = i THEN n + m ELSE n
    BY <2>2, <2>3 DEF Multiply
  <2>5. ASSUME parent[i] = i, m > 0, n > 0 PROVE FALSE
    <3>1. PICK k \in Stars : k < i /\ parent[k] = k /\ r \in RelsOf(attrEsets[k])
      BY <1>0, <1>2, <2>3, <2>5 DEF CardInv
    <3>2. k = i
      BY <1>0, <1>1, <2>2, <2>5, <3>1, RootsDisjoint
    <3> QED BY <1>1, <3>1, <3>2
  <2> QED BY <2>2, <2>3, <2>4, <2>5
<1>3. ASSUME NoSelfJoin, BergeAcyclic
      PROVE  \A k \in DOMAIN dsStats', r \in Rels : dsStats'[k].card[r] <= 1
  BY <1>0, <1>3 DEF OnceInv
<1> QED BY <1>0, <1>2, <1>3, OnceKept

\* Every step keeps the factors.
LEMMA NextOnce == EstimateInv /\ OnceInv /\ [Next]_vars => OnceInv'
<1> SUFFICES ASSUME EstimateInv, OnceInv, [Next]_vars PROVE OnceInv'
  OBVIOUS
<1>1. CASE FilterMisses \/ FilterFails
  <2>1. phase' = "done" /\ outcome' # "ok" /\ UNCHANGED <<input, attrEsets, parent>>
    BY <1>1 DEF FilterMisses, FilterFails, Throw
  <2> QED BY <2>1, OnceKept
<1>2. CASE StartFilters \/ NextStar \/ SkipPair \/ MergePair \/ Climb \/ SameRoot
  <2>1. /\ phase # "done" /\ phase' \notin {"done", "product"} /\ outcome' = "none"
        /\ UNCHANGED <<input, attrEsets, parent, dsStats>>
    BY <1>2 DEF EstimateInv, StartFilters, NextStar, SkipPair, MergePair, Climb, SameRoot,
                RootsFound
  <2> QED BY <2>1, OnceKept DEF OnceInv
<1>3. CASE StartProduct
  <2>1. /\ phase = "merge" /\ phase' = "product"
        /\ UNCHANGED <<input, attrEsets, parent, dsStats, card>>
    BY <1>3 DEF StartProduct
  <2>2. \A r \in Rels : card'[r] <= 1
    BY <2>1 DEF EstimateInv, CardInv
  <2> QED BY <2>1, <2>2, OnceKept DEF OnceInv
<1>4. CASE ReturnCard
  <2>1. /\ phase = "product" /\ phase' = "done"
        /\ UNCHANGED <<input, attrEsets, parent, card>>
    BY <1>4 DEF ReturnCard
  <2> QED BY <2>1, OnceKept DEF OnceInv
<1>5. CASE UNCHANGED vars
  <2>1. UNCHANGED <<input, phase, attrEsets, parent, dsStats, card, outcome>>
    BY <1>5 DEF vars
  <2> QED BY <2>1, OnceKept DEF OnceInv
<1> QED BY <1>1, <1>2, <1>3, <1>4, <1>5, LookUpOnce, FilterOnce, MergeRootsOnce,
           MultiplyOnce
        DEF Next, Step, Returned

(***************************************************************************)
(* Whatever the join graph, the union-find over the stars leaves every     *)
(* relation in the returned product; whatever the Berge-acyclic graph, and *)
(* in whatever order its stars come, once: Merge joins two roots on one    *)
(* relation (statistic.hpp:436-495), and they share no other.              *)
(***************************************************************************)
THEOREM RelationsCountedOnce == Spec => []EachRelationOnce
<1>1. Spec => []OnceInv
  BY Invariant, InitOnce, NextOnce, PTL DEF Spec
<1>2. EstimateInv /\ OnceInv => EachRelationOnce
  <2> SUFFICES ASSUME EstimateInv, OnceInv, outcome = "ok", NoSelfJoin, NEW r \in Rels
               PROVE  card[r] >= 1 /\ (BergeAcyclic => card[r] = 1)
    BY DEF EachRelationOnce
  <2>1. PICK n \in Nat : n = card[r] /\ n > 0
    BY DEF EstimateInv, TypeOK
  <2>2. BergeAcyclic => n <= 1
    BY <2>1 DEF OnceInv
  <2> QED BY <2>1, <2>2
<1> QED BY <1>1, <1>2, Invariant, PTL
-----------------------------------------------------------------------------
(***************************************************************************)
(* The filters of the summaries.                                           *)
(***************************************************************************)

\* The filters of a union of stars.
LEMMA FiltersOfUnion ==
    ASSUME NEW s, NEW t
    PROVE  FiltersOf(s \cup t) = FiltersOf(s) \cup FiltersOf(t)
<1>1. PICK u, v, w : u = RelsOf(s) /\ v = RelsOf(t) /\ w = RelsOf(s \cup t)
  OBVIOUS
<1>2. w = u \cup v
  BY <1>1, RelsOfUnion
<1>3. {r \in w : input.filters[r] # NoFilter}
         = {r \in u : input.filters[r] # NoFilter} \cup {r \in v : input.filters[r] # NoFilter}
  BY <1>2
<1> QED BY <1>1, <1>3 DEF FiltersOf

\* The filters of no attribute.
LEMMA FiltersOfNone == FiltersOf({}) = {}
BY DEF FiltersOf, RelsOf

\* The filters of one more attribute.
LEMMA FiltersOfOne ==
    ASSUME NEW a
    PROVE  FiltersOf({a}) = IF input.filters[a[1]] # NoFilter THEN {a[1]} ELSE {}
BY DEF FiltersOf, RelsOf

\* At the start there is no summary.
LEMMA InitSummaryFilters == Init => SummaryFiltersInv
BY DEF Init, SummaryFiltersInv

\* A summary that is looked up has no filter yet.
LEMMA LookUpSummaryFilters ==
    ASSUME EstimateInv, SummaryFiltersInv, LookUp
    PROVE  SummaryFiltersInv'
<1>1. phase = "lookup" /\ outcome = "none" /\ dsStats \in Seq(Summary)
  BY DEF LookUp, EstimateInv, TypeOK
<1>2. CASE phase' = "done"
  BY <1>1, <1>2 DEF LookUp, Throw, SummaryFiltersInv
<1>3. CASE phase' # "done"
  <2>1. PICK rels : /\ dsStats' = Append(dsStats, Collected(rels))
                    /\ UNCHANGED <<phase, outcome>>
    BY <1>3 DEF LookUp, Throw
  <2>2. PICK new : new = Collected(rels)
    OBVIOUS
  <2>3. PICK n \in Nat : n = Len(dsStats) /\ DOMAIN dsStats = 1..n
    BY <1>1
  <2>4. /\ DOMAIN dsStats' = 1..(n + 1) /\ dsStats'[n + 1] = new
        /\ \A k \in 1..n : dsStats'[k] = dsStats[k]
    BY <1>1, <2>1, <2>2, <2>3
  <2>5. new.filters = {}
    BY <2>2 DEF Collected
  <2>6. \A k \in DOMAIN dsStats' : k = n + 1 \/ k \in DOMAIN dsStats
    BY <2>3, <2>4
  <2>7. \A k \in DOMAIN dsStats' : dsStats'[k].filters = {}
    BY <1>1, <2>3, <2>4, <2>5, <2>6 DEF SummaryFiltersInv
  <2> QED BY <1>1, <2>1, <2>7 DEF SummaryFiltersInv
<1> QED BY <1>2, <1>3

\* Before the first attribute nothing has been applied.
LEMMA StartSummaryFilters ==
    ASSUME EstimateInv, SummaryFiltersInv, StartFilters
    PROVE  SummaryFiltersInv'
<1>1. /\ phase = "lookup" /\ phase' = "filter" /\ outcome' = "none" /\ i > N /\ i' = 1
      /\ todo' = attrEsets[1] /\ UNCHANGED <<input, attrEsets, dsStats>>
  BY DEF EstimateInv, StartFilters
<1>2. /\ N \in Nat \ {0} /\ Stars = 1..N /\ Stars' = Stars
      /\ dsStats \in Seq(Summary) /\ Len(dsStats) = N
  BY <1>1, InputFacts, SameInput DEF EstimateInv, TypeOK, StatsInv
<1>3. \A k \in Stars : dsStats[k].filters = {}
  BY <1>1, <1>2 DEF SummaryFiltersInv
<1>4. \A k \in Stars : AttrsPassed(k)' = {}
  BY <1>1, <1>2 DEF AttrsPassed
<1>5. FiltersOf({})' = {}
  BY <1>1, FiltersOfNone DEF FiltersOf
<1>6. \A k \in Stars : FiltersOf(AttrsPassed(k))' = {}
  BY <1>4, <1>5 DEF FiltersOf
<1> QED BY <1>1, <1>2, <1>3, <1>6 DEF SummaryFiltersInv

(***************************************************************************)
(* One attribute: its relation joins the filters of star i exactly when it *)
(* has a filter.  Several attributes of a relation apply it to the same    *)
(* summary, whose set of filters is the same.                              *)
(***************************************************************************)
LEMMA FilteredSummaryFilters ==
    ASSUME EstimateInv, SummaryFiltersInv, phase = "filter", todo # {},
           NEW stats, Filtered(stats),
           \A k \in Stars : stats[k].filters =
              IF k = i THEN dsStats[i].filters \cup FiltersOf({NextAttr})
              ELSE dsStats[k].filters
    PROVE  SummaryFiltersInv'
<1>1. /\ dsStats' = stats /\ todo' = todo \ {NextAttr} /\ outcome' = "none"
      /\ UNCHANGED <<input, phase, i, attrEsets>>
  BY DEF EstimateInv, Filtered
<1>2. /\ Stars' = Stars /\ i \in Stars /\ Stars = 1..N /\ N \in Nat
      /\ todo \subseteq attrEsets[i]
  BY <1>1, InputFacts, SameInput DEF EstimateInv, TypeOK, FiltersInv
<1>3. NextAttr \in todo
  BY NextAttrIn DEF EstimateInv, TypeOK
<1>4. attrEsets[i] \ todo' = (attrEsets[i] \ todo) \cup {NextAttr}
  BY <1>1, <1>2, <1>3
<1>5. ASSUME NEW k \in Stars PROVE stats[k].filters = FiltersOf(AttrsPassed(k)')
  <2>1. dsStats[k].filters = FiltersOf(AttrsPassed(k))
    BY DEF SummaryFiltersInv
  <2>2. CASE k = i
    <3>1. AttrsPassed(k) = attrEsets[i] \ todo /\ AttrsPassed(k)' = attrEsets[i] \ todo'
      BY <1>1, <1>2, <2>2 DEF AttrsPassed
    <3>2. FiltersOf(attrEsets[i] \ todo')
             = FiltersOf(attrEsets[i] \ todo) \cup FiltersOf({NextAttr})
      BY <1>4, FiltersOfUnion
    <3> QED BY <2>1, <2>2, <3>1, <3>2
  <2>3. CASE k # i
    <3>1. AttrsPassed(k)' = AttrsPassed(k)
      BY <1>1, <2>3 DEF AttrsPassed
    <3> QED BY <2>1, <2>3, <3>1
  <2> QED BY <2>2, <2>3
<1>6. \A k \in Stars : FiltersOf(AttrsPassed(k))' = FiltersOf(AttrsPassed(k)')
  BY <1>1 DEF FiltersOf
<1> QED BY <1>1, <1>2, <1>5, <1>6 DEF SummaryFiltersInv

\* The filter actions.
LEMMA FilterActionsSummaryFilters ==
    ASSUME EstimateInv, SummaryFiltersInv,
           NoFilterToApply \/ ApplyFilter \/ FilterMisses \/ FilterFails
    PROVE  SummaryFiltersInv'
<1>1. /\ phase = "filter" /\ todo # {} /\ outcome = "none" /\ i \in Stars
      /\ dsStats \in Seq(Summary)
      /\ N \in Nat /\ Len(dsStats) = N /\ Stars = 1..N /\ DOMAIN dsStats = Stars
  <2>1. phase = "filter" /\ todo # {}
    BY DEF NoFilterToApply, ApplyFilter, FilterMisses, FilterFails
  <2>2. /\ input \in Inputs /\ outcome = "none" /\ i \in Stars /\ Len(dsStats) = N
        /\ dsStats \in Seq(Summary)
    BY <2>1 DEF EstimateInv, TypeOK, StatsInv
  <2> QED BY <2>1, <2>2, InputFacts
<1>2. CASE NoFilterToApply
  <2>1. FiltersOf({NextAttr}) = {}
    BY <1>2, FiltersOfOne DEF NoFilterToApply, NextRel
  <2>2. \A k \in Stars : dsStats[k].filters =
           IF k = i THEN dsStats[i].filters \cup FiltersOf({NextAttr})
           ELSE dsStats[k].filters
    BY <2>1
  <2> QED BY <1>1, <1>2, <2>2, FilteredSummaryFilters DEF NoFilterToApply
<1>3. CASE ApplyFilter
  <2>1. FiltersOf({NextAttr}) = {NextRel}
    BY <1>3, FiltersOfOne DEF ApplyFilter, NextRel
  <2>2. PICK stats : stats = [dsStats EXCEPT ![i].filters = @ \cup {NextRel}]
    OBVIOUS
  <2>3. dsStats[i] \in Summary
    BY <1>1, StatsElement
  <2>4. PICK new : /\ new = [dsStats[i] EXCEPT !.filters = @ \cup {NextRel}]
                   /\ new.filters = dsStats[i].filters \cup {NextRel}
    <3>1. PICK x : x = NextRel
      OBVIOUS
    <3>2. PICK new : new = [dsStats[i] EXCEPT !.filters = @ \cup {x}]
      OBVIOUS
    <3>3. new.filters = dsStats[i].filters \cup {x}
      BY <2>3, <3>2
    <3> QED BY <3>1, <3>2, <3>3
  <2>5. stats = [dsStats EXCEPT ![i] = new]
    BY <2>2, <2>4
  <2>6. \A k \in Stars : stats[k] = IF k = i THEN new ELSE dsStats[k]
    BY <1>1, <2>5
  <2>7. \A k \in Stars : stats[k].filters =
           IF k = i THEN dsStats[i].filters \cup FiltersOf({NextAttr})
           ELSE dsStats[k].filters
    BY <2>1, <2>4, <2>6
  <2>8. Filtered(stats)
    BY <1>3, <2>2 DEF ApplyFilter
  <2> QED BY <1>1, <2>7, <2>8, FilteredSummaryFilters
<1>4. CASE FilterMisses \/ FilterFails
  <2>1. phase' = "done" /\ outcome' # "ok"
    BY <1>4 DEF FilterMisses, FilterFails, Throw
  <2> QED BY <2>1 DEF SummaryFiltersInv
<1> QED BY <1>2, <1>3, <1>4

\* After the last attribute of a star all of it has been passed.
LEMMA NextStarSummaryFilters ==
    ASSUME EstimateInv, SummaryFiltersInv, NextStar
    PROVE  SummaryFiltersInv'
<1>1. /\ phase = "filter" /\ todo = {} /\ outcome' = "none"
      /\ UNCHANGED <<input, attrEsets, dsStats>>
  BY DEF EstimateInv, NextStar
<1>2. /\ Stars' = Stars /\ i \in Stars /\ Stars = 1..N /\ N \in Nat
  BY <1>1, InputFacts, SameInput DEF EstimateInv, TypeOK
<1>3. \A k \in Stars : dsStats[k].filters = FiltersOf(AttrsPassed(k))
  BY <1>1 DEF SummaryFiltersInv
<1>4. \A s : FiltersOf(s)' = FiltersOf(s')
  BY <1>1 DEF FiltersOf
<1>5. CASE i < N /\ i' = i + 1 /\ todo' = attrEsets[i + 1] /\ phase' = phase
  <2>1. \A k \in Stars : AttrsPassed(k)' = AttrsPassed(k)
    <3> SUFFICES ASSUME NEW k \in Stars PROVE AttrsPassed(k)' = AttrsPassed(k)
      OBVIOUS
    <3>1. k \in Nat /\ i \in Nat /\ attrEsets'[k] = attrEsets[k]
      BY <1>1, <1>2
    <3>2. CASE k < i
      <4>1. k < i'
        BY <1>5, <3>1, <3>2
      <4> QED BY <3>1, <3>2, <4>1 DEF AttrsPassed
    <3>3. CASE k = i
      <4>1. k < i'
        BY <1>5, <3>1, <3>3
      <4> QED BY <1>1, <3>1, <3>3, <4>1 DEF AttrsPassed
    <3>4. CASE k = i + 1
      <4>1. k = i' /\ ~(k < i') /\ ~(k < i) /\ k # i
        BY <1>5, <3>1, <3>4
      <4>2. attrEsets'[k] \ todo' = {}
        BY <1>5, <3>1, <3>4
      <4> QED BY <4>1, <4>2 DEF AttrsPassed
    <3>5. CASE k > i + 1
      <4>1. ~(k < i') /\ k # i' /\ ~(k < i) /\ k # i
        BY <1>5, <3>1, <3>5
      <4> QED BY <4>1 DEF AttrsPassed
    <3> QED BY <3>1, <3>2, <3>3, <3>4, <3>5
  <2>2. \A k \in Stars : FiltersOf(AttrsPassed(k))' = FiltersOf(AttrsPassed(k))
    BY <1>1, <2>1 DEF FiltersOf
  <2> QED BY <1>1, <1>2, <1>3, <1>5, <2>2 DEF SummaryFiltersInv
<1>6. CASE i = N /\ phase' = "merge"
  <2>1. \A k \in Stars : AttrsPassed(k) = attrEsets[k]
    BY <1>1, <1>2, <1>6 DEF AttrsPassed
  <2>2. \A k \in Stars : FiltersOf(attrEsets[k])' = FiltersOf(attrEsets[k])
    BY <1>1 DEF FiltersOf
  <2> QED BY <1>1, <1>2, <1>3, <1>6, <2>1, <2>2 DEF SummaryFiltersInv
<1> QED BY <1>5, <1>6 DEF NextStar

\* Merging two roots unites their stars and their filters.
LEMMA MergeRootsSummaryFilters ==
    ASSUME EstimateInv, SummaryFiltersInv, MergeRoots
    PROVE  SummaryFiltersInv'
<1>1. /\ phase = "find" /\ outcome = "none" /\ input \in Inputs
      /\ root1 \in Stars /\ root2 \in Stars /\ attrEsets \in [Stars -> SUBSET StarAttr]
      /\ dsStats \in Seq(Summary)
      /\ Len(dsStats) = N
  BY DEF MergeRoots, RootsFound, EstimateInv, TypeOK, StatsInv
<1>2. DOMAIN dsStats = Stars
  BY <1>1, InputFacts
<1>3. CASE Throw("out_of_range")
  BY <1>3 DEF Throw, SummaryFiltersInv
<1>4. CASE /\ attrEsets' = [attrEsets EXCEPT ![root1] = @ \cup attrEsets[root2]]
           /\ phase' = "merge" /\ UNCHANGED <<input, outcome>>
           /\ \E c \in Tables(dsStats[root1]) \cap Tables(dsStats[root2]) :
                 dsStats' = [dsStats EXCEPT
                                ![root1] = Merged(dsStats[root1], dsStats[root2], c)]
  <2>1. Stars' = Stars
    BY <1>4, SameInput
  <2>2. \A k \in Stars : dsStats[k].filters = FiltersOf(attrEsets[k])
    BY <1>1 DEF SummaryFiltersInv
  <2>3. PICK new : /\ dsStats' = [dsStats EXCEPT ![root1] = new]
                   /\ new.filters = dsStats[root1].filters \cup dsStats[root2].filters
    <3>1. dsStats[root1] \in Summary /\ dsStats[root2] \in Summary
      BY <1>1, <1>2, InputFacts, StatsElement
    <3>2. PICK c \in Tables(dsStats[root1]) \cap Tables(dsStats[root2]) :
             dsStats' = [dsStats EXCEPT
                            ![root1] = Merged(dsStats[root1], dsStats[root2], c)]
      BY <1>4
    <3>3. PICK new : new = Merged(dsStats[root1], dsStats[root2], c)
      OBVIOUS
    <3>4. IsMerge(new, dsStats[root1], dsStats[root2], c)
      BY <3>1, <3>3 DEF IsMerge
    <3>5. new.filters = dsStats[root1].filters \cup dsStats[root2].filters
      BY <3>4, MergedFacts
    <3> QED BY <3>2, <3>3, <3>5
  <2>4. \A k \in Stars : dsStats'[k] = IF k = root1 THEN new ELSE dsStats[k]
    <3>1. dsStats' = [dsStats EXCEPT ![root1] = new]
      BY <1>4, <2>3
    <3> QED BY <1>1, <1>2, <3>1
  <2>5. \A k \in Stars : attrEsets'[k] = IF k = root1
                                       THEN attrEsets[root1] \cup attrEsets[root2]
                                       ELSE attrEsets[k]
    BY <1>1, <1>4
  <2>6. FiltersOf(attrEsets[root1] \cup attrEsets[root2])
           = FiltersOf(attrEsets[root1]) \cup FiltersOf(attrEsets[root2])
    BY FiltersOfUnion
  <2>7. \A k \in Stars : dsStats'[k].filters = FiltersOf(attrEsets'[k])
    BY <1>1, <2>2, <2>3, <2>4, <2>5, <2>6
  <2>8. \A k \in Stars : FiltersOf(attrEsets[k])' = FiltersOf(attrEsets'[k])
    BY <1>4 DEF FiltersOf
  <2> QED BY <1>4, <2>1, <2>7, <2>8 DEF SummaryFiltersInv
<1> QED BY <1>3, <1>4 DEF MergeRoots

\* The other steps leave stars and summaries alone.
LEMMA SummaryFiltersKept ==
    ASSUME EstimateInv, SummaryFiltersInv,
           UNCHANGED <<input, attrEsets, dsStats>>,
           \/ /\ phase \in {"merge", "find", "product"}
              /\ phase' \in {"merge", "find", "product", "done"}
           \/ UNCHANGED <<phase, i, todo, outcome>>
    PROVE  SummaryFiltersInv'
<1>1. Stars' = Stars /\ \A k : FiltersOf(attrEsets[k])' = FiltersOf(attrEsets[k])
  BY SameInput DEF FiltersOf
<1>2. CASE /\ phase \in {"merge", "find", "product"}
           /\ phase' \in {"merge", "find", "product", "done"}
  BY <1>1, <1>2 DEF SummaryFiltersInv
<1>3. CASE UNCHANGED <<phase, i, todo, outcome>>
  <2>1. \A k : FiltersOf(AttrsPassed(k))' = FiltersOf(AttrsPassed(k))
    BY <1>3 DEF FiltersOf, AttrsPassed
  <2> QED BY <1>1, <1>3, <2>1 DEF SummaryFiltersInv
<1> QED BY <1>2, <1>3

\* Every step keeps the filters of the summaries.
LEMMA NextSummaryFilters ==
    EstimateInv /\ SummaryFiltersInv /\ [Next]_vars => SummaryFiltersInv'
<1> SUFFICES ASSUME EstimateInv, SummaryFiltersInv, [Next]_vars PROVE SummaryFiltersInv'
  OBVIOUS
<1>1. CASE SkipPair \/ MergePair \/ Climb \/ SameRoot \/ StartProduct \/ Multiply
           \/ ReturnCard
  <2>1. /\ UNCHANGED <<input, attrEsets, dsStats>>
        /\ phase \in {"merge", "find", "product"}
        /\ phase' \in {"merge", "find", "product", "done"}
    BY <1>1 DEF SkipPair, MergePair, Climb, SameRoot, RootsFound, StartProduct, Multiply,
                ReturnCard
  <2> QED BY <2>1, SummaryFiltersKept
<1>2. CASE UNCHANGED vars
  BY <1>2, SummaryFiltersKept DEF vars
<1> QED BY <1>1, <1>2, LookUpSummaryFilters, StartSummaryFilters,
           FilterActionsSummaryFilters, NextStarSummaryFilters, MergeRootsSummaryFilters
        DEF Next, Step, Returned

(***************************************************************************)
(* Whatever the join graph and the filters, self-joins included: when      *)
(* EstimateCardinality returns, the summary of a root carries the filters  *)
(* of all relations of the stars merged into it, and no other              *)
(* (starce.hpp:795-874).                                                   *)
(***************************************************************************)
THEOREM FiltersAllCounted == Spec => []FiltersCounted
<1>1. Spec => []SummaryFiltersInv
  BY Invariant, InitSummaryFilters, NextSummaryFilters, PTL DEF Spec
<1>2. SummaryFiltersInv => FiltersCounted
  BY DEF SummaryFiltersInv, FiltersCounted, FiltersOf
<1> QED BY <1>1, <1>2, PTL
=============================================================================

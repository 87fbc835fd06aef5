--------------------------- MODULE RecordingProofs ---------------------------
(***************************************************************************)
(* The properties of Recording, for every workload, every configuration    *)
(* and any number of runs and crashes.  The inductive invariant is proved  *)
(* in layers, each relative to those before it: what a run has in memory   *)
(* (RunInv), what it has recorded (RecordedInv), the files (FilesInv), the *)
(* cards that were read (CardsInv), and what becomes of every line         *)
(* (AnswersInv).  The text of a subquery is a sound key: equal texts are   *)
(* those of one subquery up to the numbering of its relations, and have    *)
(* the same statistics.                                                    *)
(***************************************************************************)
EXTENDS Recording, EqualSetProofs, FiniteSetTheorems, SequenceTheorems, TLAPS

(***************************************************************************)
(* The order in which texts are written lists every text once.             *)
(***************************************************************************)
LEMMA InOrderEnumerates ==
    ASSUME NEW T \in SUBSET Texts
    PROVE  /\ InOrder(T) \in Seq(T)
           /\ IsInjective(InOrder(T))
           /\ Range(InOrder(T)) = T
<1>1. PICK n \in Nat : n = Len(TextOrder) /\ DOMAIN TextOrder = 1..n
  BY TextsAssumption
<1>2. PICK K : K = {i \in DOMAIN TextOrder : TextOrder[i] \in T}
  OBVIOUS
<1>3. K \in SUBSET Nat /\ IsFiniteSet(K)
  BY <1>1, <1>2, IndicesFinite
<1>4. PICK at, c : at = Ascending(K) /\ c = Cardinality(K)
  OBVIOUS
<1>5. c \in Nat /\ at \in [1..c -> K] /\ IsInjective(at) /\ Range(at) = K
  BY <1>3, <1>4, AscendingEnumerates
<1>6. InOrder(T) = [i \in 1..c |-> TextOrder[at[i]]]
  BY <1>2, <1>4, <1>5 DEF InOrder
<1>7. \A i \in 1..c : TextOrder[at[i]] \in T
  BY <1>2, <1>5
<1>8. InOrder(T) \in Seq(T)
  BY <1>5, <1>6, <1>7
<1>9. IsInjective(InOrder(T))
  <2>1. \A i, j \in 1..c : TextOrder[at[i]] = TextOrder[at[j]] => i = j
    BY <1>2, <1>5, TextsAssumption DEF IsInjective
  <2> QED BY <1>6, <2>1 DEF IsInjective
<1>10. ASSUME NEW t \in T PROVE t \in Range(InOrder(T))
  <2>1. PICK k \in DOMAIN TextOrder : TextOrder[k] = t
    BY DEF Texts, Range
  <2>2. PICK i \in 1..c : at[i] = k
    BY <1>2, <1>5, <2>1 DEF Range
  <2> QED BY <1>6, <2>1, <2>2 DEF Range
<1>11. Range(InOrder(T)) \subseteq T
  BY <1>6, <1>7 DEF Range
<1> QED BY <1>8, <1>9, <1>10, <1>11
-----------------------------------------------------------------------------
(***************************************************************************)
(* The stars of a set of relations, as a set: what of the query's stars is *)
(* an equality among rels, and the relations in none of them.              *)
(***************************************************************************)
Shared(stars, rels) ==
    {S \in {{a \in stars[i] : a[1] \in rels} : i \in DOMAIN stars} : Cardinality(S) > 1}

LoneRels(stars, rels) == rels \ UNION {RelsOf(S) : S \in Shared(stars, rels)}

LEMMA StarsOfRels ==
    ASSUME NEW stars, NEW n \in Nat, DOMAIN stars = 1..n,
           NEW rels \in SUBSET Nat, IsFiniteSet(rels)
    PROVE  Range(GetAttrEsetFromRels(stars, rels))
              = Shared(stars, rels) \cup {{<<r, NoColumn>>} : r \in LoneRels(stars, rels)}
<1> DEFINE part == [i \in DOMAIN stars |-> {a \in stars[i] : a[1] \in rels}]
           K == {i \in DOMAIN part : Cardinality(part[i]) > 1}
           kept == Ascending(K)
           shared == [i \in DOMAIN kept |-> part[kept[i]]]
           L == rels \ UNION {RelsOf(shared[i]) : i \in DOMAIN shared}
           alone == Ascending(L)
           singles == [i \in DOMAIN alone |-> {<<alone[i], NoColumn>>}]
<1>0. GetAttrEsetFromRels(stars, rels) = shared \o singles
  BY DEF GetAttrEsetFromRels
<1> HIDE DEF part, K, kept, shared, L, alone, singles
<1>1. part = [i \in DOMAIN stars |-> {a \in stars[i] : a[1] \in rels}]
  BY DEF part
<1>2. K = {i \in DOMAIN part : Cardinality(part[i]) > 1}
  BY DEF K
<1>3. K \in SUBSET Nat /\ IsFiniteSet(K)
  BY <1>1, <1>2, IndicesFinite
<1>4. PICK c : kept = Ascending(K) /\ c = Cardinality(K)
  BY DEF kept
<1>5. c \in Nat /\ kept \in [1..c -> K] /\ Range(kept) = K
  BY <1>3, <1>4, AscendingEnumerates
<1>6. shared = [i \in DOMAIN kept |-> part[kept[i]]]
  BY DEF shared
<1>7. PICK B : B = Shared(stars, rels)
  OBVIOUS
<1>8. \A S : S \in B <=> \E i \in K : part[i] = S
  BY <1>1, <1>2, <1>7 DEF Shared
<1>9. DOMAIN shared = 1..c /\ (\A i \in 1..c : shared[i] \in B)
      /\ \A S \in B : \E i \in 1..c : shared[i] = S
  <2>1. DOMAIN shared = 1..c /\ \A i \in 1..c : shared[i] = part[kept[i]] /\ kept[i] \in K
    BY <1>5, <1>6
  <2>2. \A k \in K : \E i \in 1..c : kept[i] = k
    BY <1>5 DEF Range
  <2> QED BY <1>8, <2>1, <2>2
<1>10. UNION {RelsOf(shared[i]) : i \in DOMAIN shared} = UNION {RelsOf(S) : S \in B}
  BY <1>9
<1>11. L = LoneRels(stars, rels)
  BY <1>7, <1>10 DEF LoneRels, L
<1>13. L \in SUBSET Nat /\ IsFiniteSet(L)
  <2>1. L \in SUBSET rels
    BY DEF L
  <2>2. IsFiniteSet(L)
    BY <2>1, FS_Subset
  <2> QED BY <2>1, <2>2
<1>14. PICK d : alone = Ascending(L) /\ d = Cardinality(L)
  BY DEF alone
<1>15. d \in Nat /\ alone \in [1..d -> L] /\ Range(alone) = L
  BY <1>13, <1>14, AscendingEnumerates
<1>16. singles = [i \in DOMAIN alone |-> {<<alone[i], NoColumn>>}]
  BY DEF singles
<1>18. PICK U : U = {{<<r, NoColumn>>} : r \in L}
  OBVIOUS
<1>19. DOMAIN singles = 1..d /\ (\A i \in 1..d : singles[i] \in U)
       /\ \A S \in U : \E i \in 1..d : singles[i] = S
  <2>1. DOMAIN singles = 1..d
        /\ \A i \in 1..d : singles[i] = {<<alone[i], NoColumn>>} /\ alone[i] \in L
    BY <1>15, <1>16
  <2>2. \A r \in L : \E i \in 1..d : alone[i] = r
    BY <1>15 DEF Range
  <2>3. ASSUME NEW S \in U PROVE \E i \in 1..d : singles[i] = S
    <3>1. PICK r \in L : S = {<<r, NoColumn>>}
      BY <1>18
    <3> QED BY <2>1, <2>2, <3>1
  <2>4. \A i \in 1..d : singles[i] \in U
    BY <1>18, <2>1
  <2> QED BY <2>1, <2>3, <2>4
<1>20. shared \in Seq(B \cup U) /\ Len(shared) = c
  <2>1. shared = [i \in 1..c |-> shared[i]]
    BY <1>6, <1>9
  <2> QED BY <1>5, <1>9, <2>1
<1>21. singles \in Seq(B \cup U) /\ Len(singles) = d
  <2>1. singles = [i \in 1..d |-> singles[i]]
    BY <1>16, <1>19
  <2> QED BY <1>15, <1>19, <2>1
<1>22. PICK all : all = shared \o singles
  OBVIOUS
<1>23. /\ all \in Seq(B \cup U) /\ Len(all) = c + d
       /\ \A i \in 1..(c + d) : all[i] = IF i <= c THEN shared[i] ELSE singles[i - c]
  BY <1>20, <1>21, <1>22, ConcatProperties
<1>24. DOMAIN all = 1..(c + d) /\ \A i \in 1..(c + d) : all[i] \in B \cup U
  BY <1>23
<1>25. ASSUME NEW S \in B PROVE \E i \in 1..(c + d) : all[i] = S
  <2>1. PICK i \in 1..c : shared[i] = S
    BY <1>9
  <2>2. i \in 1..(c + d) /\ i <= c
    BY <1>5, <1>15
  <2> QED BY <1>23, <2>1, <2>2
<1>26. ASSUME NEW S \in U PROVE \E i \in 1..(c + d) : all[i] = S
  <2>1. PICK i \in 1..d : singles[i] = S
    BY <1>19
  <2>2. c + i \in 1..(c + d) /\ ~(c + i <= c) /\ (c + i) - c = i
    BY <1>5, <1>15
  <2> QED BY <1>23, <2>1, <2>2
<1>27. Range(all) = B \cup U
  BY <1>24, <1>25, <1>26 DEF Range
<1> QED BY <1>0, <1>7, <1>11, <1>18, <1>22, <1>27
-----------------------------------------------------------------------------
IsQuery(q) == q \in Main /\ StarsApart(q.stars)

\* The relations of a subquery that has a text.
LEMMA RelsFinite ==
    ASSUME NEW q, IsQuery(q), NEW rels, HasText(q, rels)
    PROVE  rels \in SUBSET Nat /\ IsFiniteSet(rels)
<1>1. q.filters \in Seq(STRING)
  BY DEF IsQuery, Main
<1>2. PICK n \in Nat : DOMAIN q.filters = 1..n
  BY <1>1
<1> QED BY <1>2, IndicesFinite DEF HasText

\* Two relations over one table have different numbers in their aliases.
LEMMA AliasInjective ==
    ASSUME NEW q, NEW rels \in SUBSET Nat, IsFiniteSet(rels),
           NEW r \in rels, NEW s \in rels, Alias(q, rels, r) = Alias(q, rels, s)
    PROVE  r = s
<1>1. q.tables[r] = q.tables[s] /\ AliasId(q, rels, r) = AliasId(q, rels, s)
  BY DEF Alias
<1>2. ASSUME NEW x \in rels, NEW y \in rels, q.tables[x] = q.tables[y], x < y,
             AliasId(q, rels, x) = AliasId(q, rels, y)
      PROVE  FALSE
  <2>1. PICK A, B : /\ A = {u \in rels : u <= x /\ q.tables[u] = q.tables[x]}
                    /\ B = {u \in rels : u <= y /\ q.tables[u] = q.tables[y]}
    OBVIOUS
  <2>2. x \in Nat /\ y \in Nat /\ \A u \in rels : u \in Nat
    OBVIOUS
  <2>3. A \in SUBSET B /\ B \in SUBSET rels /\ y \in B /\ y \notin A
    <3>1. \A u \in rels : u <= x => u <= y
      BY <1>2, <2>2
    <3>2. y <= y /\ ~(y <= x)
      BY <1>2, <2>2
    <3> QED BY <1>2, <2>1, <3>1, <3>2
  <2>4. IsFiniteSet(B) /\ Cardinality(A) = Cardinality(B)
    BY <1>2, <2>1, <2>3, FS_Subset DEF AliasId
  <2>5. A = B
    BY <2>3, <2>4, FS_Subset
  <2> QED BY <2>3, <2>5
<1>3. r \in Nat /\ s \in Nat
  OBVIOUS
<1>4. r < s \/ s < r \/ r = s
  BY <1>3
<1> QED BY <1>1, <1>2, <1>4

\* An attribute is known by its alias and column.
LEMMA ColumnInjective ==
    ASSUME NEW q, NEW rels \in SUBSET Nat, IsFiniteSet(rels),
           NEW a \in Attr, NEW b \in Attr, a[1] \in rels, b[1] \in rels,
           Column(q, rels, a) = Column(q, rels, b)
    PROVE  a = b
<1>1. Alias(q, rels, a[1]) = Alias(q, rels, b[1]) /\ a[2] = b[2]
  BY DEF Column
<1>2. a[1] = b[1]
  BY <1>1, AliasInjective
<1> QED BY <1>1, <1>2 DEF Attr

\* What is an equality among the attributes of rels.
LEMMA EqualityFacts ==
    ASSUME NEW q, IsQuery(q), NEW rels, NEW S \in Equalities(q, rels)
    PROVE  /\ S \in SUBSET Attr /\ IsFiniteSet(S) /\ \A a \in S : a[1] \in rels
           /\ \A a \in S : S # {a}
           /\ S # {}
           /\ \A T \in Equalities(q, rels) : S \cap T # {} => S = T
<1>1. PICK i \in DOMAIN q.stars : S = {a \in q.stars[i] : a[1] \in rels} /\ Cardinality(S) > 1
  BY DEF Equalities
<1>2. q.stars \in Seq(SUBSET Attr) /\ StarsApart(q.stars)
  BY DEF IsQuery, Main
<1>3. q.stars[i] \in SUBSET Attr /\ IsFiniteSet(q.stars[i])
  BY <1>2 DEF StarsApart
<1>4. IsFiniteSet(S)
  <2>1. S \in SUBSET q.stars[i]
    BY <1>1
  <2> QED BY <1>3, <2>1, FS_Subset
<1>5. \A a \in S : S # {a}
  BY <1>1, FS_Singleton
<1>6. S # {}
  BY <1>1, FS_EmptySet
<1>7. ASSUME NEW T \in Equalities(q, rels), S \cap T # {} PROVE S = T
  <2>1. PICK j \in DOMAIN q.stars : T = {a \in q.stars[j] : a[1] \in rels}
    BY DEF Equalities
  <2>2. q.stars[i] \cap q.stars[j] # {}
    BY <1>1, <1>7, <2>1
  <2>3. i = j
    BY <1>2, <2>2 DEF StarsApart
  <2> QED BY <1>1, <2>1, <2>3
<1> QED BY <1>1, <1>3, <1>4, <1>5, <1>6, <1>7

\* The order of attributes is a strict total order.
LEMMA BeforeOrder ==
    ASSUME NEW a \in Attr, NEW b \in Attr
    PROVE  /\ ~Before(a, a)
           /\ a = b \/ Before(a, b) \/ Before(b, a)
           /\ \A c \in Attr : Before(a, b) /\ Before(b, c) => Before(a, c)
<1>1. /\ a[1] \in Nat /\ a[2] \in Nat /\ b[1] \in Nat /\ b[2] \in Nat
      /\ \A c \in Attr : c[1] \in Nat /\ c[2] \in Nat
      /\ (a[1] = b[1] /\ a[2] = b[2] => a = b)
  BY DEF Attr
<1>2. ~Before(a, a) /\ (a = b \/ Before(a, b) \/ Before(b, a))
  BY <1>1 DEF Before
<1>3. ASSUME NEW c \in Attr, Before(a, b), Before(b, c) PROVE Before(a, c)
  BY <1>1, <1>3 DEF Before
<1> QED BY <1>2, <1>3

(***************************************************************************)
(* The chain of a star connects it: some link leads from any part of the   *)
(* star to the rest.                                                       *)
(***************************************************************************)
LEMMA ChainConnects ==
    ASSUME NEW S \in SUBSET Attr, IsFiniteSet(S), NEW D \in SUBSET S, D # {}, D # S
    PROVE  \E p \in Chain(S) : (p[1] \in D) # (p[2] \in D)
<1> DEFINE Gap(a, b) == {x \in S : Before(a, x) /\ Before(x, b)}
           Crosses(a, b) == Before(a, b) /\ ((a \in D) # (b \in D))
           G == {n \in Nat : \E a, b \in S : Crosses(a, b) /\ n = Cardinality(Gap(a, b))}
<1>1. ASSUME NEW a \in S, NEW b \in S
      PROVE  IsFiniteSet(Gap(a, b)) /\ Cardinality(Gap(a, b)) \in Nat
  <2>1. Gap(a, b) \in SUBSET S
    OBVIOUS
  <2>2. IsFiniteSet(Gap(a, b))
    BY <2>1, FS_Subset
  <2> QED BY <2>2, FS_CardinalityType
<1>2. PICK a, b \in S : Crosses(a, b)
  <2>1. PICK c \in D : TRUE
    OBVIOUS
  <2>2. PICK d \in S : d \notin D
    OBVIOUS
  <2>3. c \in Attr /\ d \in Attr /\ c # d /\ c \in S
    BY <2>1, <2>2
  <2>4. Before(c, d) \/ Before(d, c)
    BY <2>3, BeforeOrder
  <2>5. Crosses(c, d) \/ Crosses(d, c)
    BY <2>1, <2>2, <2>4
  <2> QED BY <2>2, <2>3, <2>5
<1>3. G \in SUBSET Nat /\ G # {}
  BY <1>1, <1>2
<1>4. PICK n \in G : \A m \in G : n <= m
  BY <1>3, LeastNat
<1>5. PICK c, d \in S : Crosses(c, d) /\ n = Cardinality(Gap(c, d))
  OBVIOUS
<1>6. ASSUME NEW x \in Gap(c, d) PROVE FALSE
  <2>1. x \in S /\ Before(c, x) /\ Before(x, d) /\ x \in Attr /\ c \in Attr /\ d \in Attr
    BY <1>6
  <2>2. ASSUME NEW e \in S, NEW f \in S, Crosses(e, f), Gap(e, f) \subseteq Gap(c, d),
               x \notin Gap(e, f)
        PROVE  FALSE
    <3>1. IsFiniteSet(Gap(c, d)) /\ Cardinality(Gap(c, d)) \in Nat
          /\ Cardinality(Gap(e, f)) \in Nat
      BY <1>1
    <3>2. /\ Cardinality(Gap(e, f)) <= Cardinality(Gap(c, d))
          /\ Cardinality(Gap(c, d)) = Cardinality(Gap(e, f)) => Gap(c, d) = Gap(e, f)
      BY <2>2, <3>1, FS_Subset
    <3>3. Gap(c, d) # Gap(e, f)
      BY <1>6, <2>2
    <3>4. Cardinality(Gap(e, f)) \in G
      BY <2>2, <3>1
    <3>5. n <= Cardinality(Gap(e, f))
      BY <1>4, <3>4
    <3> HIDE DEF Gap, G
    <3> QED BY <1>5, <3>1, <3>2, <3>3, <3>5
  <2>3. CASE (x \in D) # (d \in D)
    <3>1. Crosses(x, d)
      BY <2>1, <2>3
    <3>2. Gap(x, d) \subseteq Gap(c, d)
      BY <2>1, BeforeOrder
    <3>3. x \notin Gap(x, d)
      BY <2>1, BeforeOrder
    <3> QED BY <2>1, <2>2, <3>1, <3>2, <3>3
  <2>4. CASE (x \in D) = (d \in D)
    <3>1. Crosses(c, x)
      BY <1>5, <2>1, <2>4
    <3>2. Gap(c, x) \subseteq Gap(c, d)
      BY <2>1, BeforeOrder
    <3>3. x \notin Gap(c, x)
      BY <2>1, BeforeOrder
    <3> QED BY <2>1, <2>2, <3>1, <3>2, <3>3
  <2> QED BY <2>3, <2>4
<1>7. <<c, d>> \in Chain(S)
  BY <1>5, <1>6 DEF Chain
<1>8. PICK p : p = <<c, d>>
  OBVIOUS
<1> QED BY <1>5, <1>7, <1>8

\* A star of one attribute has no chain.
LEMMA ChainOfOne ==
    ASSUME NEW r \in Nat
    PROVE  Chain({<<r, NoColumn>>}) = {}
<1>1. ~Before(<<r, NoColumn>>, <<r, NoColumn>>)
  BY DEF Before, NoColumn
<1>2. PICK x : x = <<r, NoColumn>>
  OBVIOUS
<1>3. Chain({x}) = {}
  BY <1>1, <1>2 DEF Chain
<1> QED BY <1>2, <1>3

\* The stars of a subquery.
LEMMA StarsOfText ==
    ASSUME NEW q, IsQuery(q), NEW rels, HasText(q, rels)
    PROVE  Range(GetAttrEsetFromRels(q.stars, rels))
              = Equalities(q, rels) \cup {{<<r, NoColumn>>} : r \in LoneRels(q.stars, rels)}
<1>1. rels \in SUBSET Nat /\ IsFiniteSet(rels)
  BY RelsFinite
<1>2. PICK n \in Nat : DOMAIN q.stars = 1..n
  BY DEF IsQuery, Main
<1>3. Equalities(q, rels) = Shared(q.stars, rels)
  BY DEF Equalities, Shared
<1> QED BY <1>1, <1>2, <1>3, StarsOfRels

\* The joins of a text are the links of the equalities.
LEMMA JoinsOfText ==
    ASSUME NEW q, IsQuery(q), NEW rels, HasText(q, rels), NEW z
    PROVE  z \in GetSubquery(q, rels).joins <=>
              \E S \in Equalities(q, rels) : \E p \in Chain(S) :
                 z = <<Column(q, rels, p[1]), Column(q, rels, p[2])>>
<1>1. rels \in SUBSET Nat
  BY RelsFinite
<1>4. Range(GetAttrEsetFromRels(q.stars, rels))
         = Equalities(q, rels) \cup {{<<r, NoColumn>>} : r \in LoneRels(q.stars, rels)}
  BY StarsOfText
<1>5. LoneRels(q.stars, rels) \subseteq Nat
  BY <1>1 DEF LoneRels
<1>6. \A p : (\E S \in Range(GetAttrEsetFromRels(q.stars, rels)) : p \in Chain(S))
                <=> (\E S \in Equalities(q, rels) : p \in Chain(S))
  BY <1>4, <1>5, ChainOfOne
<1>7. PICK R : R = Range(GetAttrEsetFromRels(q.stars, rels))
  OBVIOUS
<1>8. GetSubquery(q, rels).joins
         = {<<Column(q, rels, p[1]), Column(q, rels, p[2])>> :
              p \in UNION {Chain(S) : S \in R}}
  BY <1>7 DEF GetSubquery
<1> QED BY <1>6, <1>7, <1>8

(***************************************************************************)
(* An equality of one subquery lies within one of the other.               *)
(***************************************************************************)
LEMMA EqualityWithin ==
    ASSUME NEW q, IsQuery(q), NEW rels, HasText(q, rels),
           NEW p, IsQuery(p), NEW rels2, HasText(p, rels2),
           GetSubquery(q, rels) = GetSubquery(p, rels2),
           NEW S \in Equalities(q, rels)
    PROVE  \E T \in Equalities(p, rels2) : \A a \in S : \E b \in T :
              Column(q, rels, a) = Column(p, rels2, b)
<1>1. /\ S \in SUBSET Attr /\ IsFiniteSet(S) /\ \A a \in S : S # {a}
      /\ S # {}
  BY EqualityFacts
<1>2. rels2 \in SUBSET Nat /\ IsFiniteSet(rels2)
  BY RelsFinite
\* A link of S is a link of an equality of p.
<1>3. ASSUME NEW l \in Chain(S)
      PROVE  \E T \in Equalities(p, rels2) : \E c, d \in T :
                /\ Column(q, rels, l[1]) = Column(p, rels2, c)
                /\ Column(q, rels, l[2]) = Column(p, rels2, d)
  <2>1. PICK z : z = <<Column(q, rels, l[1]), Column(q, rels, l[2])>>
    OBVIOUS
  <2>2. z \in GetSubquery(p, rels2).joins
    BY <2>1, JoinsOfText
  <2>3. PICK T \in Equalities(p, rels2) : \E k \in Chain(T) :
           z = <<Column(p, rels2, k[1]), Column(p, rels2, k[2])>>
    BY <2>2, JoinsOfText
  <2>4. PICK k \in Chain(T) : z = <<Column(p, rels2, k[1]), Column(p, rels2, k[2])>>
    BY <2>3
  <2>5. k[1] \in T /\ k[2] \in T
    BY <2>4 DEF Chain
  <2> QED BY <2>1, <2>4, <2>5
<1>4. PICK a0 \in S : TRUE
  BY <1>1
<1>5. PICK l \in Chain(S) : (l[1] \in {a0}) # (l[2] \in {a0})
  <2>1. {a0} \in SUBSET S /\ {a0} # {} /\ {a0} # S
    BY <1>1, <1>4
  <2> QED BY <1>1, <2>1, ChainConnects
<1>6. PICK T \in Equalities(p, rels2) : \E c \in T : Column(q, rels, a0) = Column(p, rels2, c)
  BY <1>3, <1>5
<1>7. PICK D : D = {a \in S : \E b \in T : Column(q, rels, a) = Column(p, rels2, b)}
  OBVIOUS
<1>8. D \in SUBSET S /\ a0 \in D
  BY <1>4, <1>6, <1>7
<1>9. ASSUME D # S PROVE FALSE
  <2>1. PICK k \in Chain(S) : (k[1] \in D) # (k[2] \in D)
    BY <1>1, <1>8, <1>9, ChainConnects
  <2>2. k[1] \in S /\ k[2] \in S
    BY <2>1 DEF Chain
  <2>3. PICK U \in Equalities(p, rels2) : \E c, d \in U :
           /\ Column(q, rels, k[1]) = Column(p, rels2, c)
           /\ Column(q, rels, k[2]) = Column(p, rels2, d)
    BY <1>3, <2>1
  <2>4. PICK c, d \in U : /\ Column(q, rels, k[1]) = Column(p, rels2, c)
                          /\ Column(q, rels, k[2]) = Column(p, rels2, d)
    BY <2>3
  <2>5. ASSUME NEW b \in T, NEW e \in U, Column(p, rels2, b) = Column(p, rels2, e)
        PROVE  T = U
    <3>1. b \in Attr /\ e \in Attr /\ b[1] \in rels2 /\ e[1] \in rels2
      BY <2>5, EqualityFacts
    <3>2. b = e
      BY <1>2, <2>5, <3>1, ColumnInjective
    <3>3. T \cap U # {}
      BY <2>5, <3>2
    <3> QED BY <3>3, EqualityFacts
  <2>6. k[1] \in D \/ k[2] \in D
    BY <2>1
  <2>7. T = U
    <3>1. CASE k[1] \in D
      <4>1. PICK b \in T : Column(q, rels, k[1]) = Column(p, rels2, b)
        BY <1>7, <3>1
      <4> QED BY <2>4, <2>5, <4>1
    <3>2. CASE k[2] \in D
      <4>1. PICK b \in T : Column(q, rels, k[2]) = Column(p, rels2, b)
        BY <1>7, <3>2
      <4> QED BY <2>4, <2>5, <4>1
    <3> QED BY <2>6, <3>1, <3>2
  <2>8. k[1] \in D /\ k[2] \in D
    BY <1>7, <2>2, <2>4, <2>7
  <2> QED BY <2>1, <2>8
<1> QED BY <1>7, <1>9

(***************************************************************************)
(* An equality of one subquery is one of the other.                        *)
(***************************************************************************)
LEMMA EqualityMatched ==
    ASSUME NEW q, IsQuery(q), NEW rels, HasText(q, rels),
           NEW p, IsQuery(p), NEW rels2, HasText(p, rels2),
           GetSubquery(q, rels) = GetSubquery(p, rels2),
           NEW S \in Equalities(q, rels)
    PROVE  \E T \in Equalities(p, rels2) :
              /\ \A a \in S : \E b \in T : Column(q, rels, a) = Column(p, rels2, b)
              /\ \A b \in T : \E a \in S : Column(q, rels, a) = Column(p, rels2, b)
<1>1. PICK T \in Equalities(p, rels2) : \A a \in S : \E b \in T :
         Column(q, rels, a) = Column(p, rels2, b)
  BY EqualityWithin
<1>2. PICK U \in Equalities(q, rels) : \A b \in T : \E a \in U :
         Column(p, rels2, b) = Column(q, rels, a)
  BY EqualityWithin
<1>3. rels \in SUBSET Nat /\ IsFiniteSet(rels)
  BY RelsFinite
<1>4. PICK a \in S : TRUE
  BY EqualityFacts
<1>5. PICK c \in U : Column(q, rels, a) = Column(q, rels, c)
  BY <1>1, <1>2
<1>6. a \in Attr /\ c \in Attr /\ a[1] \in rels /\ c[1] \in rels
  BY <1>4, <1>5, EqualityFacts
<1>7. a = c
  BY <1>3, <1>5, <1>6, ColumnInjective
<1>8. S \cap U # {}
  BY <1>4, <1>5, <1>7
<1>9. S = U
  BY <1>8, EqualityFacts
<1> QED BY <1>1, <1>2, <1>9

\* The relation of the other subquery with the same alias.
Renaming(q, rels, p, rels2) ==
    [r \in rels |-> CHOOSE s \in rels2 : Alias(p, rels2, s) = Alias(q, rels, r)]

LEMMA RenamingFacts ==
    ASSUME NEW q, IsQuery(q), NEW rels, HasText(q, rels),
           NEW p, IsQuery(p), NEW rels2, HasText(p, rels2),
           GetSubquery(q, rels) = GetSubquery(p, rels2),
           NEW f, f = Renaming(q, rels, p, rels2)
    PROVE  /\ f \in [rels -> rels2]
           /\ \A r \in rels : Alias(p, rels2, f[r]) = Alias(q, rels, r)
           /\ \A r, s \in rels : f[r] = f[s] => r = s
           /\ \A s \in rels2 : \E r \in rels : f[r] = s
<1>1. /\ rels \in SUBSET Nat /\ IsFiniteSet(rels)
      /\ rels2 \in SUBSET Nat /\ IsFiniteSet(rels2)
  BY RelsFinite
<1>2. {Alias(q, rels, r) : r \in rels} = {Alias(p, rels2, s) : s \in rels2}
  <2>1. GetSubquery(q, rels).from = {Alias(q, rels, r) : r \in rels}
    BY DEF GetSubquery
  <2>2. GetSubquery(p, rels2).from = {Alias(p, rels2, s) : s \in rels2}
    BY DEF GetSubquery
  <2> QED BY <2>1, <2>2
<1> DEFINE g(r) == CHOOSE s \in rels2 : Alias(p, rels2, s) = Alias(q, rels, r)
<1>3. ASSUME NEW r \in rels PROVE g(r) \in rels2 /\ Alias(p, rels2, g(r)) = Alias(q, rels, r)
  <2>1. \E s \in rels2 : Alias(p, rels2, s) = Alias(q, rels, r)
    BY <1>2
  <2> QED BY <2>1
<1>4. f = [r \in rels |-> g(r)]
  BY DEF Renaming
<1> HIDE DEF g
<1>5. f \in [rels -> rels2] /\ \A r \in rels : Alias(p, rels2, f[r]) = Alias(q, rels, r)
  BY <1>3, <1>4
<1>6. \A r, s \in rels : f[r] = f[s] => r = s
  BY <1>1, <1>5, AliasInjective
<1>7. ASSUME NEW s \in rels2 PROVE \E r \in rels : f[r] = s
  <2>1. PICK r \in rels : Alias(q, rels, r) = Alias(p, rels2, s)
    BY <1>2
  <2>2. f[r] \in rels2 /\ Alias(p, rels2, f[r]) = Alias(p, rels2, s)
    BY <1>5, <2>1
  <2> QED BY <1>1, <2>2, AliasInjective
<1> QED BY <1>5, <1>6, <1>7

(***************************************************************************)
(* Equal texts are of one subquery, up to the numbering of its relations.  *)
(***************************************************************************)
LEMMA TextRenames ==
    ASSUME NEW q, IsQuery(q), NEW rels, HasText(q, rels),
           NEW p, IsQuery(p), NEW rels2, HasText(p, rels2),
           GetSubquery(q, rels) = GetSubquery(p, rels2),
           NEW f, f = Renaming(q, rels, p, rels2)
    PROVE  Renames(f, q, rels, p, rels2)
<1>1. /\ rels \in SUBSET Nat /\ IsFiniteSet(rels)
      /\ rels2 \in SUBSET Nat /\ IsFiniteSet(rels2)
  BY RelsFinite
<1>2. /\ f \in [rels -> rels2]
      /\ \A r \in rels : Alias(p, rels2, f[r]) = Alias(q, rels, r)
      /\ \A r, s \in rels : f[r] = f[s] => r = s
      /\ \A s \in rels2 : \E r \in rels : f[r] = s
  BY RenamingFacts
<1>a. /\ \A r, s \in rels : Alias(q, rels, r) = Alias(q, rels, s) => r = s
      /\ \A r, s \in rels2 : Alias(p, rels2, r) = Alias(p, rels2, s) => r = s
  BY <1>1, AliasInjective
<1>3. {f[r] : r \in rels} = rels2
  BY <1>2
<1>4. \A r \in rels : p.tables[f[r]] = q.tables[r]
  BY <1>2 DEF Alias
<1>5. ASSUME NEW r \in rels PROVE p.filters[f[r]] = q.filters[r]
  <2>0. GetSubquery(q, rels).predicates = GetSubquery(p, rels2).predicates
    OBVIOUS
  <2>1. /\ \A s \in rels : q.filters[s] # NoFilter =>
              <<Alias(q, rels, s), q.filters[s]>> \in GetSubquery(q, rels).predicates
        /\ \A s \in rels2 : p.filters[s] # NoFilter =>
              <<Alias(p, rels2, s), p.filters[s]>> \in GetSubquery(p, rels2).predicates
        /\ \A z \in GetSubquery(q, rels).predicates : \E s \in rels :
              z = <<Alias(q, rels, s), q.filters[s]>>
        /\ \A z \in GetSubquery(p, rels2).predicates : \E s \in rels2 :
              z = <<Alias(p, rels2, s), p.filters[s]>>
    BY DEF GetSubquery
  <2>2. f[r] \in rels2 /\ Alias(p, rels2, f[r]) = Alias(q, rels, r)
    BY <1>2
  <2>3. CASE q.filters[r] # NoFilter
    <3>0. PICK s \in rels2 :
             <<Alias(q, rels, r), q.filters[r]>> = <<Alias(p, rels2, s), p.filters[s]>>
      BY <2>0, <2>1, <2>3
    <3>1. Alias(q, rels, r) = Alias(p, rels2, s) /\ q.filters[r] = p.filters[s]
      BY <3>0
    <3>2. s = f[r]
      BY <1>a, <2>2, <3>1
    <3> QED BY <3>1, <3>2
  <2>4. CASE p.filters[f[r]] # NoFilter
    <3>0. PICK s \in rels :
             <<Alias(p, rels2, f[r]), p.filters[f[r]]>> = <<Alias(q, rels, s), q.filters[s]>>
      BY <2>0, <2>1, <2>2, <2>4
    <3>1. Alias(p, rels2, f[r]) = Alias(q, rels, s) /\ p.filters[f[r]] = q.filters[s]
      BY <3>0
    <3>2. s = r
      BY <1>a, <2>2, <3>1
    <3> QED BY <3>1, <3>2
  <2> QED BY <2>3, <2>4
<1> DEFINE moved(a) == <<f[a[1]], a[2]>>
<1>6. ASSUME NEW a \in Attr, a[1] \in rels, NEW b \in Attr, b[1] \in rels2,
             Column(q, rels, a) = Column(p, rels2, b)
      PROVE  b = moved(a)
  <2>1. Alias(p, rels2, b[1]) = Alias(q, rels, a[1]) /\ b[2] = a[2]
    BY <1>6 DEF Column
  <2>2. b[1] = f[a[1]]
    BY <1>a, <1>2, <1>6, <2>1
  <2>3. b = <<b[1], b[2]>>
    BY DEF Attr
  <2> QED BY <2>1, <2>2, <2>3
<1>7. ASSUME NEW S \in Equalities(q, rels), NEW T \in Equalities(p, rels2),
             \A a \in S : \E b \in T : Column(q, rels, a) = Column(p, rels2, b),
             \A b \in T : \E a \in S : Column(q, rels, a) = Column(p, rels2, b)
      PROVE  T = {moved(a) : a \in S}
  <2>1. /\ \A a \in S : a \in Attr /\ a[1] \in rels
        /\ \A b \in T : b \in Attr /\ b[1] \in rels2
    BY EqualityFacts
  <2>2. \A a \in S : moved(a) \in T
    BY <1>6, <1>7, <2>1
  <2>3. \A b \in T : \E a \in S : b = moved(a)
    BY <1>6, <1>7, <2>1
  <2> HIDE DEF moved
  <2> QED BY <2>2, <2>3
<1>8. ASSUME NEW S \in Equalities(q, rels) PROVE {moved(a) : a \in S} \in Equalities(p, rels2)
  <2>1. PICK T \in Equalities(p, rels2) :
              /\ \A a \in S : \E b \in T : Column(q, rels, a) = Column(p, rels2, b)
              /\ \A b \in T : \E a \in S : Column(q, rels, a) = Column(p, rels2, b)
    BY EqualityMatched
  <2> QED BY <1>7, <2>1
<1>9. ASSUME NEW T \in Equalities(p, rels2)
      PROVE  \E S \in Equalities(q, rels) : T = {moved(a) : a \in S}
  <2>1. PICK S \in Equalities(q, rels) :
              /\ \A b \in T : \E a \in S : Column(p, rels2, b) = Column(q, rels, a)
              /\ \A a \in S : \E b \in T : Column(p, rels2, b) = Column(q, rels, a)
    BY EqualityMatched
  <2>2. T = {moved(a) : a \in S}
    BY <1>7, <2>1
  <2> QED BY <2>2
<1>10. Equalities(p, rels2) = {{moved(a) : a \in S} : S \in Equalities(q, rels)}
  <2> HIDE DEF moved
  <2> QED BY <1>8, <1>9
<1> QED BY <1>3, <1>4, <1>5, <1>10 DEF Renames

\* The keys of its stars.
LEMMA KeyOfEquality ==
    ASSUME NEW q, NEW rels, NEW S \in Equalities(q, rels), NEW tables
    PROVE  GetEqualSetFromAttrEset(tables, S) = {<<tables[a[1]], a[2]>> : a \in S}
<1>1. Cardinality(S) > 1
  BY DEF Equalities
<1>2. PICK c : c = Cardinality(S)
  OBVIOUS
<1>3. c # 1
  BY <1>1, <1>2
<1> QED BY <1>2, <1>3 DEF GetEqualSetFromAttrEset

LEMMA KeyOfLone ==
    ASSUME NEW r, NEW tables
    PROVE  GetEqualSetFromAttrEset(tables, {<<r, NoColumn>>}) = {<<tables[r], NoColumn>>}
<1>1. PICK a : a = <<r, NoColumn>>
  OBVIOUS
<1>2. Cardinality({a}) = 1
  BY FS_Singleton
<1>3. RelsOf({a}) = {r}
  BY <1>1 DEF RelsOf
<1>4. GetEqualSetFromAttrEset(tables, {a}) = {<<tables[s], NoColumn>> : s \in RelsOf({a})}
  BY <1>2 DEF GetEqualSetFromAttrEset
<1> QED BY <1>1, <1>3, <1>4

(***************************************************************************)
(* A subquery has statistics if one of equal text has: replaying the text  *)
(* finds a card for exactly the subqueries that could be estimated.        *)
(***************************************************************************)
LEMMA SameStatistics ==
    ASSUME NEW q, IsQuery(q), NEW rels, HasText(q, rels),
           NEW p, IsQuery(p), NEW rels2, HasText(p, rels2),
           GetSubquery(q, rels) = GetSubquery(p, rels2),
           HasStatistics(q, rels)
    PROVE  HasStatistics(p, rels2)
<1>1. PICK f : f = Renaming(q, rels, p, rels2)
  OBVIOUS
<1>2. /\ f \in [rels -> rels2]
      /\ \A s \in rels2 : \E r \in rels : f[r] = s
  BY <1>1, RenamingFacts
<1>3. Renames(f, q, rels, p, rels2)
  BY <1>1, TextRenames
<1> DEFINE moved(a) == <<f[a[1]], a[2]>>
<1>4. /\ \A r \in rels : p.tables[f[r]] = q.tables[r]
      /\ Equalities(p, rels2) = {{moved(a) : a \in S} : S \in Equalities(q, rels)}
  BY <1>3 DEF Renames
<1>5. \A S \in Equalities(q, rels) : GetEqualSetFromAttrEset(q.tables, S) \in Known
  BY StarsOfText DEF HasStatistics
<1>6. \A r \in LoneRels(q.stars, rels) :
         GetEqualSetFromAttrEset(q.tables, {<<r, NoColumn>>}) \in Known
  BY StarsOfText DEF HasStatistics
<1>7. ASSUME NEW T \in Equalities(p, rels2)
      PROVE  GetEqualSetFromAttrEset(p.tables, T) \in Known
  <2>1. PICK S \in Equalities(q, rels) : T = {moved(a) : a \in S}
    BY <1>4
  <2>2. \A a \in S : a[1] \in rels
    BY EqualityFacts
  <2>3. \A a \in S : p.tables[moved(a)[1]] = q.tables[a[1]] /\ moved(a)[2] = a[2]
    BY <1>4, <2>2
  <2> HIDE DEF moved
  <2>4. {<<p.tables[b[1]], b[2]>> : b \in T} = {<<q.tables[a[1]], a[2]>> : a \in S}
    BY <2>1, <2>3
  <2>5. GetEqualSetFromAttrEset(q.tables, S) = {<<q.tables[a[1]], a[2]>> : a \in S}
    BY KeyOfEquality
  <2>6. GetEqualSetFromAttrEset(p.tables, T) = {<<p.tables[b[1]], b[2]>> : b \in T}
    BY KeyOfEquality
  <2> QED BY <1>5, <2>4, <2>5, <2>6
<1>8. ASSUME NEW s \in LoneRels(p.stars, rels2)
      PROVE  GetEqualSetFromAttrEset(p.tables, {<<s, NoColumn>>}) \in Known
  <2>1. s \in rels2 /\ \A T \in Equalities(p, rels2) : s \notin RelsOf(T)
    BY DEF LoneRels, Equalities, Shared
  <2>2. PICK r \in rels : f[r] = s
    BY <1>2, <2>1
  <2>3. ASSUME NEW S \in Equalities(q, rels), r \in RelsOf(S) PROVE FALSE
    <3>1. PICK a \in S : a[1] = r
      BY <2>3 DEF RelsOf
    <3>2. PICK T : T = {moved(b) : b \in S}
      OBVIOUS
    <3>3. T \in Equalities(p, rels2) /\ moved(a) \in T
      BY <1>4, <3>2
    <3>4. moved(a)[1] = s
      BY <2>2, <3>1
    <3> HIDE DEF moved
    <3>5. s \in RelsOf(T)
      BY <3>3, <3>4 DEF RelsOf
    <3> QED BY <2>1, <3>3, <3>5
  <2>4. r \in LoneRels(q.stars, rels)
    BY <2>3 DEF LoneRels, Equalities, Shared
  <2>5. GetEqualSetFromAttrEset(q.tables, {<<r, NoColumn>>}) = {<<q.tables[r], NoColumn>>}
    BY KeyOfLone
  <2>6. GetEqualSetFromAttrEset(p.tables, {<<s, NoColumn>>}) = {<<p.tables[s], NoColumn>>}
    BY KeyOfLone
  <2>7. p.tables[s] = q.tables[r]
    BY <1>4, <2>2
  <2> QED BY <1>6, <2>4, <2>5, <2>6, <2>7
<1> QED BY <1>7, <1>8, StarsOfText DEF HasStatistics
-----------------------------------------------------------------------------
\* The configuration of a run, and its workload.
LEMMA ConfFacts ==
    ASSUME NEW c \in Settings \cup {NoSettings}
    PROVE  /\ c.work \in DOMAIN Workloads /\ Workloads[c.work] \in Seq(Main)
           /\ c.RecordingSubquery \in BOOLEAN /\ c.SubqueryOutputGroupByMain \in BOOLEAN
           /\ c.RecordEstimateTime \in BOOLEAN /\ c.UseSubqueryCard \in BOOLEAN
           /\ \A l \in DOMAIN Workloads[c.work] : IsQuery(Workloads[c.work][l])
<1>1. Len(Workloads) \in Nat /\ Len(Workloads) >= 1 /\ DOMAIN Workloads = 1..Len(Workloads)
  BY WorkloadsAssumption
<1>2. 1 \in DOMAIN Workloads
  BY <1>1
<1> DEFINE R == [RecordingSubquery : BOOLEAN, SubqueryOutputGroupByMain : BOOLEAN,
                 RecordEstimateTime : BOOLEAN, UseSubqueryCard : BOOLEAN,
                 work : DOMAIN Workloads]
<1>a. NoSettings \in R
  BY <1>2 DEF NoSettings
<1>b. c \in R
  BY <1>a, SettingsAssumption
<1>3. /\ c.work \in DOMAIN Workloads
      /\ c.RecordingSubquery \in BOOLEAN /\ c.SubqueryOutputGroupByMain \in BOOLEAN
      /\ c.RecordEstimateTime \in BOOLEAN /\ c.UseSubqueryCard \in BOOLEAN
  BY <1>b
<1>4. Workloads[c.work] \in Seq(Main)
  BY <1>3, WorkloadsAssumption
<1>5. \A l \in DOMAIN Workloads[c.work] : IsQuery(Workloads[c.work][l])
  BY <1>3, <1>4, WorkloadsAssumption DEF IsQuery
<1> QED BY <1>3, <1>4, <1>5

\* A subquery that the optimizer may ask for.
LEMMA AskFacts ==
    ASSUME NEW w \in DOMAIN Workloads, NEW l \in DOMAIN Workloads[w],
           NEW a \in DOMAIN Workloads[w][l].asks
    PROVE  /\ Workloads[w][l] \in Main /\ IsQuery(Workloads[w][l])
           /\ Workloads[w][l].asks \in Seq(SUBSET Nat)
           /\ Workloads[w][l].asks[a] \in SUBSET Nat
           /\ HasText(Workloads[w][l], Workloads[w][l].asks[a]) =>
                 TextAt(w, l, a) \in Texts
           /\ Estimates(w, l, Workloads[w][l].asks[a]) \subseteq Nat
<1>1. Workloads[w] \in Seq(Main)
  BY WorkloadsAssumption
<1>2. PICK q : q = Workloads[w][l]
  OBVIOUS
<1>3. q \in Main /\ IsQuery(q)
  BY <1>1, <1>2, WorkloadsAssumption DEF IsQuery
<1>4. q.asks \in Seq(SUBSET Nat)
  BY <1>3 DEF Main
<1>5. q.asks[a] \in SUBSET Nat
  BY <1>2, <1>4
<1>6. HasText(q, q.asks[a]) => GetSubquery(q, q.asks[a]) \in Range(TextOrder)
  BY <1>2, TextsAssumption
<1> QED BY <1>2, <1>3, <1>4, <1>5, <1>6, EstimatesAssumption DEF TextAt, Texts
-----------------------------------------------------------------------------
(***************************************************************************)
(* The last estimate of a text.                                            *)
(***************************************************************************)
LEMMA LastForIs ==
    ASSUME NEW es, NEW t, DOMAIN es \in SUBSET Nat,
           NEW k \in DOMAIN es, es[k].text = t,
           \A i \in DOMAIN es : es[i].text = t => i <= k
    PROVE  LastFor(es, t) = k
<1>1. PICK S : S = {i \in DOMAIN es : es[i].text = t}
  OBVIOUS
<1>2. k \in S /\ S \in SUBSET Nat /\ \A i \in S : i <= k
  BY <1>1
<1>3. \A i \in S : i \in Nat /\ k \in Nat
  BY <1>2
<1>4. \A y \in S : k >= y
  BY <1>2, <1>3
<1>5. \A x \in S : (\A y \in S : x >= y) => x = k
  BY <1>2, <1>3
<1>6. Max(S) = k
  BY <1>2, <1>4, <1>5 DEF Max
<1> QED BY <1>1, <1>6 DEF LastFor

LEMMA TextsOfType ==
    ASSUME NEW es \in Seq(Estimated)
    PROVE  TextsOf(es) \in SUBSET Texts
<1>1. \A i \in DOMAIN es : es[i] \in Estimated
  OBVIOUS
<1>2. \A e \in Estimated : e.text \in Texts
  BY DEF Estimated
<1> QED BY <1>1, <1>2 DEF TextsOf

LEMMA LastForFacts ==
    ASSUME NEW es \in Seq(Estimated), NEW t \in TextsOf(es)
    PROVE  /\ LastFor(es, t) \in DOMAIN es
           /\ es[LastFor(es, t)].text = t
           /\ \A i \in DOMAIN es : es[i].text = t => i <= LastFor(es, t)
<1>1. PICK n \in Nat : n = Len(es) /\ DOMAIN es = 1..n
  OBVIOUS
<1>2. PICK j \in 1..n : es[j].text = t
  BY <1>1 DEF TextsOf
<1>3. PICK G : G = {m \in Nat : \E i \in 1..n : es[i].text = t /\ m = n - i}
  OBVIOUS
<1>4. n - j \in Nat
  BY <1>2
<1>5. n - j \in G
  BY <1>2, <1>3, <1>4
<1>6. PICK m \in G : \A x \in G : m <= x
  <2>1. G \in SUBSET Nat /\ G # {}
    BY <1>3, <1>5
  <2> QED BY <2>1, LeastNat
<1>7. PICK k \in 1..n : es[k].text = t /\ m = n - k
  BY <1>3
<1>8. ASSUME NEW i \in 1..n, es[i].text = t PROVE i <= k
  <2>1. n - i \in Nat
    OBVIOUS
  <2>2. n - i \in G
    BY <1>3, <1>8, <2>1
  <2>3. n - k <= n - i
    BY <1>6, <1>7, <2>2
  <2> QED BY <2>3
<1>9. LastFor(es, t) = k
  BY <1>1, <1>7, <1>8, LastForIs
<1> QED BY <1>1, <1>7, <1>8, <1>9

LEMMA LastForAppend ==
    ASSUME NEW es \in Seq(Estimated), NEW e \in Estimated
    PROVE  /\ Append(es, e) \in Seq(Estimated)
           /\ TextsOf(Append(es, e)) = TextsOf(es) \cup {e.text}
           /\ LastFor(Append(es, e), e.text) = Len(es) + 1
           /\ \A t \in TextsOf(es) : t # e.text =>
                 /\ LastFor(Append(es, e), t) = LastFor(es, t)
                 /\ Append(es, e)[LastFor(es, t)] = es[LastFor(es, t)]
<1>1. PICK n \in Nat : n = Len(es) /\ DOMAIN es = 1..n
  OBVIOUS
<1>2. PICK fs : fs = Append(es, e)
  OBVIOUS
<1>3. /\ fs \in Seq(Estimated) /\ DOMAIN fs = 1..(n + 1)
      /\ fs[n + 1] = e /\ \A i \in 1..n : fs[i] = es[i]
  BY <1>1, <1>2
<1>4. TextsOf(fs) = TextsOf(es) \cup {e.text}
  <2>1. \A i \in 1..(n + 1) : i \in 1..n \/ i = n + 1
    OBVIOUS
  <2>2. \A i \in 1..n : i \in 1..(n + 1)
    OBVIOUS
  <2>3. n + 1 \in 1..(n + 1)
    OBVIOUS
  <2> QED BY <1>1, <1>3, <2>1, <2>2, <2>3 DEF TextsOf
<1>5. LastFor(fs, e.text) = n + 1
  <2>1. DOMAIN fs \in SUBSET Nat /\ n + 1 \in DOMAIN fs /\ \A i \in DOMAIN fs : i <= n + 1
    BY <1>3
  <2> QED BY <1>3, <2>1, LastForIs
<1>6. ASSUME NEW t \in TextsOf(es), t # e.text
      PROVE  /\ LastFor(fs, t) = LastFor(es, t)
             /\ fs[LastFor(es, t)] = es[LastFor(es, t)]
  <2>1. PICK k : k = LastFor(es, t)
    OBVIOUS
  <2>2. k \in 1..n /\ es[k].text = t /\ \A i \in 1..n : es[i].text = t => i <= k
    BY <1>1, <2>1, LastForFacts
  <2>3. k \in DOMAIN fs /\ DOMAIN fs \in SUBSET Nat /\ fs[k] = es[k]
    BY <1>3, <2>2
  <2>4. ASSUME NEW i \in DOMAIN fs, fs[i].text = t PROVE i <= k
    <3>1. i # n + 1
      BY <1>3, <1>6, <2>4
    <3>2. i \in 1..n
      BY <1>3, <3>1
    <3> QED BY <1>3, <2>2, <2>4, <3>2
  <2>5. LastFor(fs, t) = k
    BY <2>2, <2>3, <2>4, LastForIs
  <2> QED BY <2>1, <2>3, <2>5
<1> QED BY <1>1, <1>2, <1>3, <1>4, <1>5, <1>6
-----------------------------------------------------------------------------
(***************************************************************************)
(* Joining sequences: a function defined by recursion over the positions.  *)
(***************************************************************************)
LEMMA ConcatRange ==
    ASSUME NEW S, NEW s \in Seq(S), NEW t \in Seq(S)
    PROVE  s \o t \in Seq(S) /\ Range(s \o t) = Range(s) \cup Range(t)
<1>1. PICK m \in Nat : m = Len(s) /\ DOMAIN s = 1..m
  OBVIOUS
<1>2. PICK n \in Nat : n = Len(t) /\ DOMAIN t = 1..n
  OBVIOUS
<1>3. PICK u : u = s \o t
  OBVIOUS
<1>4. /\ u \in Seq(S) /\ DOMAIN u = 1..(m + n)
      /\ \A i \in 1..m : u[i] = s[i]
      /\ \A i \in 1..n : u[m + i] = t[i]
  BY <1>1, <1>2, <1>3
<1>5. \A i \in 1..(m + n) : i \in 1..m \/ (i - m \in 1..n /\ i = m + (i - m))
  OBVIOUS
<1>6. \A i \in 1..m : i \in 1..(m + n)
  OBVIOUS
<1>7. \A i \in 1..n : m + i \in 1..(m + n)
  OBVIOUS
<1>8. \A i \in 1..(m + n) : u[i] \in Range(s) \cup Range(t)
  <2> SUFFICES ASSUME NEW i \in 1..(m + n) PROVE u[i] \in Range(s) \cup Range(t)
    OBVIOUS
  <2>1. CASE i \in 1..m
    BY <1>1, <1>4, <2>1 DEF Range
  <2>2. CASE i - m \in 1..n /\ i = m + (i - m)
    <3>1. PICK k \in 1..n : i = m + k
      BY <2>2
    <3> QED BY <1>2, <1>4, <3>1 DEF Range
  <2> QED BY <1>5, <2>1, <2>2
<1>9. Range(u) \subseteq Range(s) \cup Range(t)
  BY <1>4, <1>8 DEF Range
<1>10. Range(s) \cup Range(t) \subseteq Range(u)
  <2>1. \A i \in 1..m : s[i] \in Range(u)
    BY <1>4, <1>6 DEF Range
  <2>2. \A i \in 1..n : t[i] \in Range(u)
    BY <1>4, <1>7 DEF Range
  <2> QED BY <1>1, <1>2, <2>1, <2>2 DEF Range
<1> QED BY <1>3, <1>4, <1>9, <1>10

LEMMA FlattenFacts ==
    ASSUME NEW S, NEW seqs \in Seq(Seq(S))
    PROVE  /\ FlattenSeq(seqs) \in Seq(S)
           /\ Range(FlattenSeq(seqs)) = UNION {Range(seqs[i]) : i \in DOMAIN seqs}
<1>1. PICK n \in Nat : n = Len(seqs) /\ DOMAIN seqs = 1..n
  OBVIOUS
<1>2. CASE n = 0
  <2>1. FlattenSeq(seqs) = seqs
    BY <1>1, <1>2 DEF FlattenSeq
  <2>2. seqs = <<>>
    BY <1>1, <1>2
  <2> QED BY <2>1, <2>2 DEF Range
<1>3. CASE n # 0
  <2> DEFINE Step(g, i) == IF i = 1 THEN seqs[i] ELSE g[i - 1] \o seqs[i]
             flat == CHOOSE g : g = [i \in 1..Len(seqs) |-> Step(g, i)]
             Upto(m) == \E g : g \in [1..m -> Seq(S)] /\ \A i \in 1..m : g[i] = Step(g, i)
             Good(i) == /\ flat[i] \in Seq(S)
                        /\ Range(flat[i]) = UNION {Range(seqs[j]) : j \in 1..i}
  <2>1. FlattenSeq(seqs) = flat[Len(seqs)]
    BY <1>1, <1>3 DEF FlattenSeq
  <2>2. \A i \in 1..n : seqs[i] \in Seq(S)
    BY <1>1
  <2>3. Upto(1)
    <3>1. PICK g : g = [i \in 1..1 |-> seqs[1]]
      OBVIOUS
    <3>2. 1 \in 1..n
      BY <1>3
    <3>3. g \in [1..1 -> Seq(S)] /\ \A i \in 1..1 : g[i] = Step(g, i)
      BY <2>2, <3>1, <3>2
    <3> QED BY <3>3
  <2>4. ASSUME NEW m \in 2..n, Upto(m - 1) PROVE Upto(m)
    <3>1. PICK g : g \in [1..(m - 1) -> Seq(S)] /\ \A i \in 1..(m - 1) : g[i] = Step(g, i)
      BY <2>4
    <3>2. PICK x : x = g[m - 1] \o seqs[m]
      OBVIOUS
    <3>3. m - 1 \in 1..(m - 1) /\ m \in 1..n
      OBVIOUS
    <3>4. x \in Seq(S)
      <4>1. g[m - 1] \in Seq(S) /\ seqs[m] \in Seq(S)
        BY <2>2, <3>1, <3>3
      <4> QED BY <3>2, <4>1
    <3>5. PICK h : h = [i \in 1..m |-> IF i = m THEN x ELSE g[i]]
      OBVIOUS
    <3>6. \A i \in 1..m : i # m => i \in 1..(m - 1)
      OBVIOUS
    <3>7. \A i \in 1..m : i # 1 => (i - 1) \in 1..m /\ i - 1 # m /\ i - 1 \in 1..(m - 1)
      OBVIOUS
    <3>8. h \in [1..m -> Seq(S)]
      BY <3>1, <3>4, <3>5, <3>6
    <3>9. ASSUME NEW i \in 1..m PROVE h[i] = Step(h, i)
      <4>1. i # 1 => h[i - 1] = g[i - 1]
        BY <3>5, <3>7
      <4>2. CASE i = m
        <5>1. i # 1
          BY <4>2
        <5> QED BY <3>2, <3>5, <4>1, <4>2, <5>1
      <4>3. CASE i # m
        BY <3>1, <3>5, <3>6, <4>1, <4>3
      <4> QED BY <4>2, <4>3
    <3> QED BY <3>8, <3>9
  <2>5. Upto(n)
    <3> HIDE DEF Upto
    <3>1. PICK B : B = {m \in 1..n : ~Upto(m)}
      OBVIOUS
    <3>2. ASSUME B # {} PROVE FALSE
      <4>1. B \in SUBSET Nat
        BY <3>1
      <4>2. PICK m \in B : \A y \in B : m <= y
        BY <3>2, <4>1, LeastNat
      <4>3. m \in 1..n /\ ~Upto(m) /\ m # 1
        BY <2>3, <3>1, <4>2
      <4>4. m - 1 \in 1..n /\ m \in 2..n /\ ~(m <= m - 1)
        BY <4>3
      <4>5. Upto(m - 1)
        BY <3>1, <4>2, <4>4
      <4> QED BY <2>4, <4>3, <4>4, <4>5
    <3>3. n \in 1..n
      BY <1>3
    <3> QED BY <3>1, <3>2, <3>3
  <2>6. flat = [i \in 1..Len(seqs) |-> Step(flat, i)]
    <3>1. PICK g : g \in [1..n -> Seq(S)] /\ \A i \in 1..n : g[i] = Step(g, i)
      BY <2>5
    <3>2. g = [i \in 1..Len(seqs) |-> Step(g, i)]
      BY <1>1, <3>1
    <3> QED BY <3>2
  <2> HIDE DEF flat
  <2>7. \A i \in 1..n : flat[i] = Step(flat, i)
    BY <1>1, <2>6
  <2>8. Good(1)
    <3>1. 1 \in 1..n
      BY <1>3
    <3>2. flat[1] = seqs[1]
      BY <2>7, <3>1
    <3>3. 1..1 = {1}
      OBVIOUS
    <3> QED BY <2>2, <3>1, <3>2, <3>3
  <2>9. ASSUME NEW m \in 2..n, Good(m - 1) PROVE Good(m)
    <3>1. m \in 1..n /\ m # 1
      OBVIOUS
    <3>2. flat[m] = flat[m - 1] \o seqs[m]
      BY <2>7, <3>1
    <3>3. 1..m = (1..(m - 1)) \cup {m}
      OBVIOUS
    <3>4. /\ flat[m] \in Seq(S)
          /\ Range(flat[m]) = Range(flat[m - 1]) \cup Range(seqs[m])
      BY <2>2, <2>9, <3>1, <3>2, ConcatRange
    <3> QED BY <2>9, <3>3, <3>4
  <2>10. Good(n)
    <3> HIDE DEF Good
    <3>1. PICK B : B = {m \in 1..n : ~Good(m)}
      OBVIOUS
    <3>2. ASSUME B # {} PROVE FALSE
      <4>1. B \in SUBSET Nat
        BY <3>1
      <4>2. PICK m \in B : \A y \in B : m <= y
        BY <3>2, <4>1, LeastNat
      <4>3. m \in 1..n /\ ~Good(m) /\ m # 1
        BY <2>8, <3>1, <4>2
      <4>4. m - 1 \in 1..n /\ m \in 2..n /\ ~(m <= m - 1)
        BY <4>3
      <4>5. Good(m - 1)
        BY <3>1, <4>2, <4>4
      <4> QED BY <2>9, <4>3, <4>4, <4>5
    <3>3. n \in 1..n
      BY <1>3
    <3> QED BY <3>1, <3>2, <3>3
  <2> QED BY <1>1, <2>1, <2>10
<1> QED BY <1>2, <1>3
-----------------------------------------------------------------------------
(***************************************************************************)
(* What a run has in memory.                                               *)
(***************************************************************************)
LEMMA EmptyFunction ==
    ASSUME NEW S
    PROVE  <<>> \in [{} -> S] /\ DOMAIN <<>> = {} /\ <<>> \in Seq(S) /\ Len(<<>>) = 0
OBVIOUS

\* The subquery that is asked for.
LEMMA AskingFacts ==
    ASSUME RunInv, Asking
    PROVE  /\ conf \in Settings /\ conf.work \in DOMAIN Workloads
           /\ line \in DOMAIN Workload /\ ask + 1 \in DOMAIN Query.asks
           /\ Query = Workloads[conf.work][line]
           /\ Rels = Workloads[conf.work][line].asks[ask + 1]
           /\ IsQuery(Query) /\ Rels \in SUBSET Nat /\ Rels \in Range(Query.asks)
           /\ HasText(Query, Rels) => GetSubquery(Query, Rels) \in Texts
           /\ Estimates(conf.work, line, Rels) \subseteq Nat
           /\ ask \in Nat /\ Len(Query.asks) \in Nat /\ ask < Len(Query.asks)
<1>1. conf \in Settings /\ line \in DOMAIN Workload /\ ask \in Nat /\ pc = "estimate"
      /\ ask < Len(Query.asks)
  BY DEF RunInv, Asking, TypeOK
<1>2. conf.work \in DOMAIN Workloads /\ Workloads[conf.work] \in Seq(Main)
  BY <1>1, ConfFacts
<1>3. PICK q : q = Workloads[conf.work][line]
  OBVIOUS
<1>4. Query = q /\ line \in DOMAIN Workloads[conf.work]
  BY <1>1, <1>3 DEF Query, Workload
<1>5. q.asks \in Seq(SUBSET Nat)
  <2>1. q \in Main
    BY <1>2, <1>3, <1>4
  <2> QED BY <2>1 DEF Main
<1>6. ask + 1 \in DOMAIN q.asks /\ Len(q.asks) \in Nat
  BY <1>1, <1>4, <1>5
<1>7. Rels = q.asks[ask + 1]
  BY <1>4 DEF Rels
<1>8. Rels \in Range(q.asks)
  BY <1>6, <1>7 DEF Range
<1>9. /\ IsQuery(q) /\ q.asks[ask + 1] \in SUBSET Nat
      /\ HasText(q, q.asks[ask + 1]) => TextAt(conf.work, line, ask + 1) \in Texts
      /\ Estimates(conf.work, line, q.asks[ask + 1]) \subseteq Nat
  BY <1>2, <1>3, <1>4, <1>6, AskFacts
<1>10. TextAt(conf.work, line, ask + 1) = GetSubquery(q, q.asks[ask + 1])
  BY <1>3 DEF TextAt
<1> QED BY <1>1, <1>2, <1>3, <1>4, <1>6, <1>7, <1>8, <1>9, <1>10

LEMMA RunInvInit == Init => RunInv
<1> SUFFICES ASSUME Init PROVE RunInv
  OBVIOUS
<1>1. conf = NoSettings /\ line = 0
  BY DEF Init
<1>2. Workload \in Seq(Main)
  BY <1>1, ConfFacts DEF Workload
<1>3. 0 \in 0..Len(Workload)
  BY <1>2
<1> QED BY <1>1, <1>3, EmptyFunction DEF Init, RunInv, TypeOK, Fresh

\* The lines of the result file and of the time file.
LEMMA LinesNat ==
    ASSUME RunInv
    PROVE  /\ InOrder(Subqueries) \in Seq(Subqueries)
           /\ ResultLines \in Seq(Nat) /\ TimeLines \in Seq(Nat)
<1>1. Subqueries \in SUBSET Texts
  BY DEF RunInv, TypeOK, Texts
<1>2. PICK o : o = InOrder(Subqueries)
  OBVIOUS
<1>3. o \in Seq(Subqueries)
  BY <1>1, <1>2, InOrderEnumerates
<1>4. PICK n \in Nat : DOMAIN o = 1..n
  BY <1>3
<1>5. \A i \in 1..n : o[i] \in Subqueries
  BY <1>3, <1>4
<1>6. \A h \in Nat : Truncated(h) \in Nat
  BY DEF Truncated
<1>7. \A i \in 1..n : Truncated(RecordingSubqueryCards[o[i]]) \in Nat
  BY <1>5, <1>6 DEF RunInv
<1>8. \A i \in 1..n : TimeOf(o[i]) \in Nat
  BY DEF RunInv, TimeOf
<1>9. ResultLines \in Seq(Nat)
  BY <1>2, <1>4, <1>7 DEF ResultLines
<1>10. TimeLines \in Seq(Nat)
  BY <1>2, <1>4, <1>8 DEF TimeLines
<1> QED BY <1>2, <1>3, <1>9, <1>10

\* The end of a process, in whichever way.
LEMMA RunInvEnds == ASSUME RunInv, Ends PROVE RunInv'
<1>1. conf' = NoSettings /\ line' = 0
  BY DEF Ends
<1>2. Workload' \in Seq(Main)
  BY <1>1, ConfFacts DEF Workload
<1>3. 0 \in 0..Len(Workload')
  BY <1>2
<1> QED BY <1>1, <1>3, EmptyFunction DEF Ends, RunInv, TypeOK, Fresh

LEMMA RunInvStep == RunInv /\ [Next]_vars => RunInv'
<1> SUFFICES ASSUME RunInv, [Next]_vars PROVE RunInv'
  OBVIOUS
<1>0. /\ conf \in Settings \cup {NoSettings} /\ conf.work \in DOMAIN Workloads
      /\ Workload \in Seq(Main) /\ Len(Workload) \in Nat /\ DOMAIN Workload = 1..Len(Workload)
      /\ line \in 0..Len(Workload) /\ line \in Nat /\ ask \in Nat
      /\ log \in Seq({"ok", "failed"})
      /\ Len(log) \in Nat
  BY ConfFacts DEF RunInv, TypeOK, Workload
<1>1. CASE Start
  <2>1. conf' \in Settings /\ line' = 0 /\ pc' \in {"read", "execute"}
    BY <1>1 DEF Start, RunInv, Fresh, progress
  <2>2. Workload' \in Seq(Main)
    BY <2>1, ConfFacts DEF Workload
  <2>3. 0 \in 0..Len(Workload')
    BY <2>2
  <2> QED BY <1>1, <2>1, <2>3
          DEF Start, RunInv, TypeOK, Fresh, files, progress, recorded
<1>2. CASE ReadSubqueryCard
  BY <1>2 DEF ReadSubqueryCard, RunInv, TypeOK, Fresh, files, progress, recorded, Workload
<1>3. CASE ReadThrows
  BY <1>3, RunInvEnds DEF ReadThrows
<1>4. CASE BeginQuery
  <2>1. /\ line' = line + 1 /\ line' \in DOMAIN Workload /\ ask' = 0
        /\ conf' = conf /\ pc = "execute" /\ Workload' = Workload
    BY <1>0, <1>4 DEF BeginQuery, Workload
  <2>2. Len(Query'.asks) \in Nat
    <3>1. PICK q : q = Workload[line']
      OBVIOUS
    <3>2. q \in Main
      BY <1>0, <2>1, <3>1
    <3>3. q.asks \in Seq(SUBSET Nat)
      BY <3>2 DEF Main
    <3> QED BY <2>1, <3>1, <3>3 DEF Query
  <2>3. Len(log) = line
    BY <2>1 DEF RunInv
  <2>4. CASE pc' = "estimate" /\ log' = log /\ prepared' = TRUE
    BY <1>0, <1>4, <2>1, <2>2, <2>3, <2>4 DEF BeginQuery, RunInv, TypeOK, files
  <2>5. CASE pc' = pc /\ log' = Append(log, "failed") /\ prepared' = prepared
    BY <1>0, <1>4, <2>1, <2>3, <2>5 DEF BeginQuery, RunInv, TypeOK, files
  <2> QED BY <1>4, <2>4, <2>5 DEF BeginQuery
<1>5. CASE EstimateThrows
  BY <1>0, <1>5 DEF EstimateThrows, Asking, RunInv, TypeOK, files, recorded, Workload
<1>6. CASE EstimateReplayed
  <2>1. Asking
    BY <1>6 DEF EstimateReplayed
  <2>2. ask + 1 <= Len(Query.asks) /\ ask + 1 \in Nat
    BY <2>1, AskingFacts
  <2> QED BY <1>0, <1>6, <2>2
          DEF EstimateReplayed, Asking, RunInv, TypeOK, files, recorded, Workload, Query
<1>7. CASE EstimateCardinality
  <2>1. Asking /\ HasText(Query, Rels)
    BY <1>7 DEF EstimateCardinality
  <2>2. ask + 1 <= Len(Query.asks) /\ ask + 1 \in Nat
    BY <2>1, AskingFacts
  <2>3. PICK t : t = GetSubquery(Query, Rels)
    OBVIOUS
  <2>4. t \in Texts /\ Rels \in SUBSET Nat /\ Estimates(conf.work, line, Rels) \subseteq Nat
    BY <2>1, <2>3, AskingFacts
  <2>5. PICK card \in Nat :
           /\ made' = Append(made, [text |-> t, line |-> line, rels |-> Rels, card |-> card])
           /\ RecordingSubqueryTimes' =
                    IF conf.RecordEstimateTime
                    THEN Assigned(RecordingSubqueryTimes, t, Len(made) + 1)
                    ELSE RecordingSubqueryTimes
           /\ RecordSubquery(t, card)
    BY <1>7, <2>3, <2>4 DEF EstimateCardinality
  <2>6. [text |-> t, line |-> line, rels |-> Rels, card |-> card] \in Estimated
    BY <1>0, <2>4 DEF Estimated
  <2>7. made' \in Seq(Estimated) /\ Len(made) \in Nat
    BY <2>5, <2>6 DEF RunInv
  <2>8. RecordingSubqueryTimes' \in [DOMAIN RecordingSubqueryTimes' -> Nat]
    BY <2>5, <2>7 DEF RunInv, Assigned
  <2>9. /\ Subqueries' \subseteq Texts
        /\ RecordingSubqueryCards' \in [Subqueries' -> Nat]
    BY <2>4, <2>5 DEF RunInv, RecordSubquery, Assigned, TypeOK, Texts
  <2>10. Subqueries' = DOMAIN RecordingSubqueryCards'
    BY <2>9
  <2> QED BY <1>0, <1>7, <2>2, <2>7, <2>8, <2>9, <2>10
          DEF EstimateCardinality, Asking, RunInv, TypeOK, files, Workload, Query, Texts
<1>8. CASE FinishEstimate
  <2>1. log' \in Seq({"ok", "failed"}) /\ Len(log') = line
    BY <1>0, <1>8 DEF FinishEstimate, RunInv
  <2> QED BY <1>0, <1>8, <2>1 DEF FinishEstimate, RunInv, TypeOK, files, recorded, Workload
<1>9. CASE EndOfFile
  BY <1>0, <1>9 DEF EndOfFile, RunInv, TypeOK, Fresh, files, progress, recorded, Workload
<1>10. CASE OpenSubqueryFile
  BY <1>0, <1>10, EmptyFunction
     DEF OpenSubqueryFile, RunInv, TypeOK, Fresh, progress, recorded, Workload
<1>11. CASE OpenResultFile
  BY <1>0, <1>11, EmptyFunction
     DEF OpenResultFile, RunInv, TypeOK, Fresh, progress, recorded, Workload
<1>12. CASE WriteSubquery
  BY <1>0, <1>12 DEF WriteSubquery, RunInv, TypeOK, Fresh, progress, recorded, Workload
<1>13. CASE WriteCard
  <2>1. resultFile' \in Seq(Nat)
    <3>1. resultFile \in Seq(Nat) /\ ResultLines \in Seq(Nat)
      BY LinesNat DEF RunInv, TypeOK
    <3>2. Len(resultFile) + 1 \in DOMAIN ResultLines
      BY <1>13, <3>1 DEF WriteCard
    <3>3. ResultLines[Len(resultFile) + 1] \in Nat
      BY <3>1, <3>2
    <3> QED BY <1>13, <3>1, <3>3 DEF WriteCard
  <2> QED BY <1>0, <1>13, <2>1 DEF WriteCard, RunInv, TypeOK, Fresh, progress, recorded, Workload
<1>14. CASE CloseFiles
  BY <1>0, <1>14 DEF CloseFiles, RunInv, TypeOK, Fresh, files, progress, recorded, Workload
<1>15. CASE OutputSubqueryTime
  <2>1. timeFile' \in Seq(Nat)
    BY <1>15, LinesNat DEF OutputSubqueryTime, RunInv, TypeOK
  <2> QED BY <1>0, <1>15, <2>1
          DEF OutputSubqueryTime, RunInv, TypeOK, Fresh, progress, recorded, Workload
<1>16. CASE Exit
  BY <1>16, RunInvEnds DEF Exit
<1>17. CASE Crash
  BY <1>17, RunInvEnds DEF Crash
<1>18. CASE UNCHANGED vars
  BY <1>18 DEF vars, files, progress, recorded, RunInv, TypeOK, Fresh, Workload, Query
<1> QED BY <1>1, <1>2, <1>3, <1>4, <1>5, <1>6, <1>7, <1>8, <1>9, <1>10, <1>11, <1>12,
           <1>13, <1>14, <1>15, <1>16, <1>17, <1>18 DEF Next

\* A run is always well formed.
LEMMA RunInvariant == Spec => []RunInv
BY RunInvInit, RunInvStep, PTL DEF Spec

(***************************************************************************)
(* Type correctness: the recorded texts are the keys of the recorded       *)
(* cards, a line gets one verdict, and the files hold whole numbers.       *)
(***************************************************************************)
THEOREM TypeCorrect == Spec => []TypeOK
<1>1. RunInv => TypeOK
  BY DEF RunInv
<1> QED BY <1>1, RunInvariant, PTL
-----------------------------------------------------------------------------
(***************************************************************************)
(* What a run has recorded.                                                *)
(***************************************************************************)
LEMMA AppendRange ==
    ASSUME NEW S, NEW s \in Seq(S), NEW x \in S
    PROVE  Range(Append(s, x)) = Range(s) \cup {x}
<1>1. PICK n \in Nat : n = Len(s) /\ DOMAIN s = 1..n
  OBVIOUS
<1>2. PICK u : u = Append(s, x)
  OBVIOUS
<1>3. DOMAIN u = (1..n) \cup {n + 1} /\ u[n + 1] = x /\ \A i \in 1..n : u[i] = s[i]
  BY <1>1, <1>2
<1>4. Range(u) = Range(s) \cup {x}
  BY <1>1, <1>3 DEF Range
<1> QED BY <1>2, <1>4

LEMMA FreshRecorded == Fresh => RecordedInv
<1> SUFFICES ASSUME Fresh PROVE RecordedInv
  OBVIOUS
<1>1. made = <<>> /\ line = 0 /\ Subqueries = {}
      /\ RecordingSubqueryTimes = <<>> /\ SubqueriesByMainQuery = <<>>
  BY DEF Fresh
<1>2. DOMAIN made = {}
  BY <1>1
<1>3. TextsOf(made) = {}
  BY <1>2 DEF TextsOf
<1>4. MadeOver(conf.work, made)
  BY <1>2 DEF MadeOver
<1>5. RecordingSubqueryTimes = [t \in TextsOf(made) |-> LastFor(made, t)]
  BY <1>1, <1>3
<1>6. 1..0 = {}
  OBVIOUS
<1>7. SubqueriesByMainQuery \in [1..line -> Seq(Texts)]
  BY <1>1, <1>6, EmptyFunction
<1> QED BY <1>1, <1>3, <1>4, <1>5, <1>6, <1>7 DEF RecordedInv

LEMMA RecordedInvEnds == ASSUME Ends PROVE RecordedInv'
<1>1. Fresh'
  BY DEF Ends, Fresh
<1> QED BY <1>1, FreshRecorded, PTL

LEMMA RecordedInvStep == RunInv /\ RecordedInv /\ [Next]_vars => RecordedInv'
<1> SUFFICES ASSUME RunInv, RecordedInv, [Next]_vars PROVE RecordedInv'
  OBVIOUS
<1>1. CASE Start
  <2>1. Fresh'
    BY <1>1 DEF Start, RunInv, Fresh, progress, recorded
  <2> QED BY <2>1, FreshRecorded, PTL
<1>2. CASE BeginQuery
  <2>1. /\ line' = line + 1 /\ conf' = conf /\ made' = made /\ Subqueries' = Subqueries
        /\ RecordingSubqueryCards' = RecordingSubqueryCards
        /\ RecordingSubqueryTimes' = RecordingSubqueryTimes
        /\ SubqueriesByMainQuery' = Registered(line + 1)
    BY <1>2 DEF BeginQuery
  <2>2. ASSUME conf.RecordingSubquery, conf.SubqueryOutputGroupByMain
        PROVE  /\ SubqueriesByMainQuery' \in [1..line' -> Seq(Texts)]
               /\ Subqueries' = UNION {Range(SubqueriesByMainQuery'[id]) : id \in 1..line'}
    <3>1. PICK n \in Nat : n = line
      BY DEF RunInv, TypeOK
    <3>2. PICK old : old = SubqueriesByMainQuery
      OBVIOUS
    <3>3. /\ old \in [1..n -> Seq(Texts)]
          /\ Subqueries = UNION {Range(old[id]) : id \in 1..n}
      BY <2>2, <3>1, <3>2 DEF RecordedInv
    <3>4. PICK new : new = SubqueriesByMainQuery'
      OBVIOUS
    <3>5. 1..(n + 1) = (1..n) \cup {n + 1} /\ n + 1 \notin 1..n
      OBVIOUS
    <3>6. new = [i \in (1..n) \cup {n + 1} |-> IF i = n + 1 THEN <<>> ELSE old[i]]
      BY <2>1, <2>2, <3>1, <3>2, <3>3, <3>4 DEF Registered
    <3>7. /\ new \in [1..(n + 1) -> Seq(Texts)]
          /\ \A i \in 1..n : new[i] = old[i]
          /\ new[n + 1] = <<>>
      BY <3>3, <3>5, <3>6, EmptyFunction
    <3>8. Range(<<>>) = {}
      BY DEF Range
    <3>9. UNION {Range(new[id]) : id \in 1..(n + 1)} = UNION {Range(old[id]) : id \in 1..n}
      BY <3>5, <3>7, <3>8
    <3>10. line' = n + 1
      BY <2>1, <3>1
    <3>11. Subqueries' = UNION {Range(new[id]) : id \in 1..(n + 1)}
      BY <2>1, <3>3, <3>9
    <3>12. new \in [1..line' -> Seq(Texts)] /\ Subqueries' = UNION {Range(new[id]) : id \in 1..line'}
      BY <3>7, <3>10, <3>11
    <3> QED BY ONLY <3>4, <3>12
  <2> QED BY <2>1, <2>2 DEF RecordedInv
<1>3. CASE EstimateCardinality
  <2>1. /\ Asking /\ HasText(Query, Rels) /\ HasStatistics(Query, Rels)
        /\ ~conf.UseSubqueryCard /\ conf' = conf /\ line' = line
    BY <1>3 DEF EstimateCardinality
  <2>2. PICK t : t = GetSubquery(Query, Rels)
    OBVIOUS
  <2>3. /\ t \in Texts /\ Rels \in SUBSET Nat /\ Estimates(conf.work, line, Rels) \subseteq Nat
        /\ line \in DOMAIN Workloads[conf.work] /\ Rels \in Range(Query.asks)
        /\ Query = Workloads[conf.work][line]
    BY <2>1, <2>2, AskingFacts DEF Workload
  <2>4. PICK card \in Nat :
           /\ made' = Append(made, [text |-> t, line |-> line, rels |-> Rels, card |-> card])
           /\ RecordingSubqueryTimes' =
                    IF conf.RecordEstimateTime
                    THEN Assigned(RecordingSubqueryTimes, t, Len(made) + 1)
                    ELSE RecordingSubqueryTimes
           /\ RecordSubquery(t, card)
    BY <1>3, <2>2, <2>3 DEF EstimateCardinality
  <2>5. PICK n \in Nat : n = line /\ n \in 1..n
    <3>1. Workloads[conf.work] \in Seq(Main)
      BY ConfFacts DEF RunInv, TypeOK
    <3> QED BY <2>3, <3>1
  <2>6. PICK e : e = [text |-> t, line |-> line, rels |-> Rels, card |-> card]
    OBVIOUS
  <2>7. /\ e \in Estimated /\ e.text = t /\ e.line = line /\ e.rels = Rels /\ e.card = card
    BY <2>3, <2>5, <2>6 DEF Estimated
  <2>8. PICK es \in Seq(Estimated) : es = made
    BY DEF RunInv
  <2>9. PICK fs : fs = made'
    OBVIOUS
  <2>10. fs = Append(es, e)
    BY <2>4, <2>6, <2>8, <2>9
  <2>11. /\ TextsOf(fs) = TextsOf(es) \cup {t}
         /\ LastFor(fs, t) = Len(es) + 1
         /\ \A u \in TextsOf(es) : u # t =>
               LastFor(fs, u) = LastFor(es, u) /\ fs[LastFor(es, u)] = es[LastFor(es, u)]
    BY <2>7, <2>10, LastForAppend
  <2>12. /\ Len(es) \in Nat /\ DOMAIN es = 1..Len(es) /\ DOMAIN fs = 1..(Len(es) + 1)
         /\ fs[Len(es) + 1] = e /\ \A i \in 1..Len(es) : fs[i] = es[i]
    BY <2>7, <2>8, <2>10
  <2>13. MadeOver(conf.work, fs)
    <3>1. MadeOver(conf.work, es)
      BY <2>8 DEF RecordedInv
    <3> SUFFICES ASSUME NEW i \in DOMAIN fs
                 PROVE  /\ fs[i].line \in DOMAIN Workloads[conf.work]
                        /\ fs[i].rels \in Range(Workloads[conf.work][fs[i].line].asks)
                        /\ HasText(Workloads[conf.work][fs[i].line], fs[i].rels)
                        /\ HasStatistics(Workloads[conf.work][fs[i].line], fs[i].rels)
                        /\ fs[i].text = GetSubquery(Workloads[conf.work][fs[i].line], fs[i].rels)
      BY DEF MadeOver
    <3>2. CASE i \in DOMAIN es
      BY <2>12, <3>1, <3>2 DEF MadeOver
    <3>3. CASE i = Len(es) + 1
      BY <2>1, <2>2, <2>3, <2>7, <2>12, <3>3
    <3> QED BY <2>12, <3>2, <3>3
  <2>14. Subqueries' = IF conf.RecordingSubquery THEN TextsOf(fs) ELSE {}
    BY <2>4, <2>8, <2>11 DEF RecordSubquery, RecordedInv
  <2>15. ASSUME NEW u \in Subqueries'
         PROVE  RecordingSubqueryCards'[u] = fs[LastFor(fs, u)].card
    <3>1. conf.RecordingSubquery
      BY <2>14, <2>15
    <3>2. /\ Subqueries = TextsOf(es) /\ Subqueries' = TextsOf(es) \cup {t}
          /\ RecordingSubqueryCards' = Assigned(RecordingSubqueryCards, t, card)
          /\ DOMAIN RecordingSubqueryCards = Subqueries
          /\ \A v \in Subqueries : RecordingSubqueryCards[v] = es[LastFor(es, v)].card
      BY <2>4, <2>8, <3>1 DEF RecordSubquery, RecordedInv, RunInv, TypeOK
    <3>3. CASE u = t
      BY <2>7, <2>11, <2>12, <3>2, <3>3 DEF Assigned
    <3>4. CASE u # t
      BY <2>11, <2>15, <3>2, <3>4 DEF Assigned
    <3> QED BY <3>3, <3>4
  <2>16. ASSUME conf.RecordEstimateTime
         PROVE  RecordingSubqueryTimes' = [u \in TextsOf(fs) |-> LastFor(fs, u)]
    <3>1. /\ RecordingSubqueryTimes = [u \in TextsOf(es) |-> LastFor(es, u)]
          /\ RecordingSubqueryTimes' = Assigned(RecordingSubqueryTimes, t, Len(es) + 1)
      BY <2>4, <2>8, <2>16 DEF RecordedInv
    <3>2. PICK R : R = RecordingSubqueryTimes
      OBVIOUS
    <3>3. Assigned(R, t, Len(es) + 1)
            = [u \in TextsOf(es) \cup {t} |-> IF u = t THEN Len(es) + 1 ELSE R[u]]
      BY <3>1, <3>2 DEF Assigned
    <3>4. \A u \in TextsOf(fs) : (IF u = t THEN Len(es) + 1 ELSE R[u]) = LastFor(fs, u)
      BY <2>11, <3>1, <3>2
    <3> QED BY <2>11, <3>1, <3>2, <3>3, <3>4
  <2>17. ASSUME conf.RecordingSubquery, conf.SubqueryOutputGroupByMain
         PROVE  /\ SubqueriesByMainQuery' \in [1..n -> Seq(Texts)]
                /\ Subqueries' = UNION {Range(SubqueriesByMainQuery'[id]) : id \in 1..n}
    <3>1. PICK old : old = SubqueriesByMainQuery
      OBVIOUS
    <3>2. PICK new : new = SubqueriesByMainQuery'
      OBVIOUS
    <3>3. /\ old \in [1..n -> Seq(Texts)]
          /\ Subqueries = UNION {Range(old[id]) : id \in 1..n}
      BY <2>5, <2>17, <3>1 DEF RecordedInv
    <3>4. new = [old EXCEPT ![n] = Append(@, t)] /\ Subqueries' = Subqueries \cup {t}
      BY <2>4, <2>5, <2>17, <3>1, <3>2 DEF RecordSubquery
    <3>5. old[n] \in Seq(Texts)
      BY <2>5, <3>3
    <3>6. Append(old[n], t) \in Seq(Texts)
      BY <2>3, <3>5
    <3>7. Range(Append(old[n], t)) = Range(old[n]) \cup {t}
      BY <2>3, <3>5, AppendRange
    <3>8. new \in [1..n -> Seq(Texts)] /\ new[n] = Append(old[n], t)
          /\ \A i \in 1..n : i # n => new[i] = old[i]
      BY <2>5, <3>3, <3>4, <3>6
    <3>9. \A i \in 1..n : Range(new[i]) = IF i = n THEN Range(old[i]) \cup {t} ELSE Range(old[i])
      BY <3>7, <3>8
    <3>10. UNION {Range(new[id]) : id \in 1..n} = (UNION {Range(old[id]) : id \in 1..n}) \cup {t}
      <4>1. \A x : (\E i \in 1..n : x \in Range(new[i]))
                     <=> (x = t \/ \E i \in 1..n : x \in Range(old[i]))
        BY <2>5, <3>9
      <4> QED BY <4>1
    <3>11. new \in [1..n -> Seq(Texts)] /\ Subqueries' = UNION {Range(new[id]) : id \in 1..n}
      BY <3>3, <3>4, <3>8, <3>10
    <3> QED BY ONLY <3>2, <3>11
  <2> QED BY <2>1, <2>5, <2>9, <2>13, <2>14, <2>15, <2>16, <2>17 DEF RecordedInv
<1>4. CASE ReadThrows \/ Exit \/ Crash
  BY <1>4, RecordedInvEnds DEF ReadThrows, Exit, Crash
<1>5. CASE UNCHANGED <<conf, made, recorded, line>>
  BY <1>5 DEF recorded, RecordedInv
<1>6. CASE \/ ReadSubqueryCard \/ EstimateThrows \/ EstimateReplayed \/ FinishEstimate
           \/ EndOfFile \/ OpenSubqueryFile \/ OpenResultFile \/ WriteSubquery
           \/ WriteCard \/ CloseFiles \/ OutputSubqueryTime
  BY <1>5, <1>6
     DEF ReadSubqueryCard, EstimateThrows, EstimateReplayed, FinishEstimate, EndOfFile,
         OpenSubqueryFile, OpenResultFile, WriteSubquery, WriteCard, CloseFiles,
         OutputSubqueryTime, progress
<1>7. CASE UNCHANGED vars
  BY <1>5, <1>7 DEF vars, progress
<1> QED BY <1>1, <1>2, <1>3, <1>4, <1>6, <1>7 DEF Next

LEMMA RecordedInvariant == Spec => []RecordedInv
<1>1. Init => RecordedInv
  <2>1. Init => Fresh
    BY DEF Init, Fresh
  <2> QED BY <2>1, FreshRecorded
<1> QED BY <1>1, RunInvariant, RecordedInvStep, PTL DEF Spec

(***************************************************************************)
(* The text is a sound key: estimates of one text are of one subquery, up  *)
(* to the numbering of its relations, whatever the workload.  So the       *)
(* assignment to RecordingSubqueryCards replaces nothing but an estimate   *)
(* of the same subquery.                                                   *)
(***************************************************************************)
THEOREM TextIsKey == Spec => []SameTextSameSubquery
<1>1. RunInv /\ RecordedInv => SameTextSameSubquery
  <2> SUFFICES ASSUME RunInv, RecordedInv, NEW i \in DOMAIN made, NEW j \in DOMAIN made,
                      made[i].text = made[j].text
               PROVE  \E f \in [made[i].rels -> made[j].rels] :
                         Renames(f, Workload[made[i].line], made[i].rels,
                                    Workload[made[j].line], made[j].rels)
    BY DEF SameTextSameSubquery
  <2>1. PICK q : q = Workload[made[i].line]
    OBVIOUS
  <2>2. PICK p : p = Workload[made[j].line]
    OBVIOUS
  <2>3. PICK rels : rels = made[i].rels
    OBVIOUS
  <2>4. PICK rels2 : rels2 = made[j].rels
    OBVIOUS
  <2>5. \A l \in DOMAIN Workload : IsQuery(Workload[l])
    BY ConfFacts DEF RunInv, TypeOK, Workload
  <2>6. IsQuery(q) /\ HasText(q, rels) /\ made[i].text = GetSubquery(q, rels)
    BY <2>1, <2>3, <2>5 DEF RecordedInv, MadeOver, Workload
  <2>7. IsQuery(p) /\ HasText(p, rels2) /\ made[j].text = GetSubquery(p, rels2)
    BY <2>2, <2>4, <2>5 DEF RecordedInv, MadeOver, Workload
  <2>8. PICK f : f = Renaming(q, rels, p, rels2)
    OBVIOUS
  <2>9. f \in [rels -> rels2] /\ Renames(f, q, rels, p, rels2)
    <3>1. GetSubquery(q, rels) = GetSubquery(p, rels2)
      BY <2>6, <2>7
    <3>2. f \in [rels -> rels2]
      BY <2>6, <2>7, <2>8, <3>1, RenamingFacts
    <3>3. Renames(f, q, rels, p, rels2)
      BY <2>6, <2>7, <2>8, <3>1, TextRenames
    <3> QED BY <3>2, <3>3
  <2> QED BY <2>1, <2>2, <2>3, <2>4, <2>9
<1> QED BY <1>1, RunInvariant, RecordedInvariant, PTL
-----------------------------------------------------------------------------
(***************************************************************************)
(* The lines a recording run writes.                                       *)
(***************************************************************************)
LEMMA SubqueriesInText ==
    ASSUME NEW file \in Seq(FileLine), NEW x
    PROVE  x \in SubqueriesIn(file) <=> Text(x) \in Range(file)
<1>1. Range(file) \subseteq FileLine
  BY DEF Range
<1>2. \A l \in FileLine : l[1] = "subquery" => l = Text(l[2])
  BY DEF FileLine, Text
<1>3. Text(x)[1] = "subquery" /\ Text(x)[2] = x
  BY DEF Text
<1> HIDE DEF Text
<1> QED BY <1>1, <1>2, <1>3 DEF SubqueriesIn

\* The texts as lines.
LEMMA TextLines ==
    ASSUME NEW s \in Seq(Texts)
    PROVE  /\ [i \in DOMAIN s |-> Text(s[i])] \in Seq(FileLine)
           /\ \A x : Text(x) \in Range([i \in DOMAIN s |-> Text(s[i])]) <=> x \in Range(s)
<1>1. PICK n \in Nat : DOMAIN s = 1..n
  OBVIOUS
<1>2. PICK u : u = [i \in DOMAIN s |-> Text(s[i])]
  OBVIOUS
<1>3. \A i \in 1..n : Text(s[i]) \in FileLine
  BY <1>1 DEF Text, FileLine
<1>4. \A x, y : Text(x) = Text(y) <=> x = y
  BY DEF Text
<1> HIDE DEF Text
<1>5. u \in Seq(FileLine)
  BY <1>1, <1>2, <1>3
<1>6. \A x : Text(x) \in Range(u) <=> x \in Range(s)
  BY <1>1, <1>2, <1>4 DEF Range
<1> QED BY <1>2, <1>5, <1>6

LEMMA GroupFacts ==
    ASSUME NEW id \in Nat, SubqueriesByMainQuery[id] \in Seq(Texts)
    PROVE  /\ GroupOf(id) \in Seq(FileLine)
           /\ \A x : Text(x) \in Range(GroupOf(id)) <=> x \in Range(SubqueriesByMainQuery[id])
<1>1. PICK s : s = SubqueriesByMainQuery[id]
  OBVIOUS
<1>2. PICK u : u = [i \in DOMAIN s |-> Text(s[i])]
  OBVIOUS
<1>3. PICK h : h = <<Header(id), MainSql(id)>>
  OBVIOUS
<1>4. u \in Seq(FileLine) /\ \A x : Text(x) \in Range(u) <=> x \in Range(s)
  BY <1>1, <1>2, TextLines
<1>5. h \in Seq(FileLine) /\ Range(h) = {Header(id), MainSql(id)}
  <2>1. Header(id) \in FileLine /\ MainSql(id) \in FileLine
    BY DEF Header, MainSql, FileLine
  <2>2. h \in Seq(FileLine) /\ DOMAIN h = {1, 2} /\ h[1] = Header(id) /\ h[2] = MainSql(id)
    BY <1>3, <2>1
  <2> QED BY <2>2 DEF Range
<1>6. \A x : Text(x) # Header(id) /\ Text(x) # MainSql(id)
  BY DEF Text, Header, MainSql
<1>7. GroupOf(id) = h \o u
  BY <1>1, <1>2, <1>3 DEF GroupOf
<1>8. h \o u \in Seq(FileLine) /\ Range(h \o u) = Range(h) \cup Range(u)
  BY <1>4, <1>5, ConcatRange
<1>9. \A x : Text(x) \in Range(h \o u) <=> Text(x) \in Range(u)
  BY <1>5, <1>6, <1>8
<1> QED BY <1>1, <1>4, <1>7, <1>8, <1>9

\* What a run that records is going to write.
LEMMA LinesFacts ==
    ASSUME RunInv, RecordedInv, conf.RecordingSubquery, line = Len(Workload),
           NEW texts, texts = InOrder(TextsOf(made))
    PROVE  /\ Subqueries = TextsOf(made)
           /\ texts \in Seq(Texts) /\ Range(texts) = TextsOf(made) /\ IsInjective(texts)
           /\ SubqueryLines \in Seq(FileLine)
           /\ SubqueriesIn(SubqueryLines) = TextsOf(made)
           /\ ResultLines = NumbersOf(made) /\ ResultLines \in Seq(Nat)
           /\ DOMAIN NumbersOf(made) = DOMAIN texts
           /\ ~Grouped => SubqueryLines = [i \in DOMAIN texts |-> Text(texts[i])]
<1>1. Subqueries = TextsOf(made) /\ Subqueries \in SUBSET Texts
  BY DEF RunInv, TypeOK, RecordedInv, Texts
<1>2. texts = InOrder(Subqueries)
  BY <1>1
<1>3. /\ texts \in Seq(Subqueries) /\ Range(texts) = Subqueries /\ IsInjective(texts)
  BY <1>1, <1>2, InOrderEnumerates
<1>4. texts \in Seq(Texts)
  BY <1>1, <1>3
<1>5. PICK n \in Nat : DOMAIN texts = 1..n /\ \A i \in 1..n : texts[i] \in Subqueries
  BY <1>3
<1>6. ResultLines = NumbersOf(made) /\ DOMAIN NumbersOf(made) = DOMAIN texts
  <2>1. ResultLines = [i \in DOMAIN texts |-> Truncated(RecordingSubqueryCards[texts[i]])]
    BY <1>2 DEF ResultLines
  <2>2. NumbersOf(made) = [i \in DOMAIN texts |->
                             Truncated(made[LastFor(made, texts[i])].card)]
    BY DEF NumbersOf
  <2>3. \A i \in DOMAIN texts :
           RecordingSubqueryCards[texts[i]] = made[LastFor(made, texts[i])].card
    BY <1>5 DEF RecordedInv
  <2> QED BY <2>1, <2>2, <2>3
<1>7. CASE ~Grouped
  <2>1. SubqueryLines = [i \in DOMAIN texts |-> Text(texts[i])]
    BY <1>2, <1>7 DEF SubqueryLines
  <2>2. /\ SubqueryLines \in Seq(FileLine)
        /\ \A x : Text(x) \in Range(SubqueryLines) <=> x \in Range(texts)
    BY <1>4, <2>1, TextLines
  <2>3. \A x : x \in SubqueriesIn(SubqueryLines) <=> x \in Range(texts)
    BY <2>2, SubqueriesInText
  <2>4. SubqueriesIn(SubqueryLines) = TextsOf(made)
    BY <1>1, <1>3, <2>3
  <2> QED BY <1>1, <1>3, <1>4, <1>6, <2>1, <2>2, <2>4, LinesNat
<1>8. CASE Grouped
  <2>1. PICK m \in Nat : m = Len(Workload) /\ m = line
    BY DEF RunInv, TypeOK
  <2>2. /\ SubqueriesByMainQuery \in [1..m -> Seq(Texts)]
        /\ Subqueries = UNION {Range(SubqueriesByMainQuery[id]) : id \in 1..m}
    BY <1>8, <2>1 DEF RecordedInv, Grouped
  <2>3. \A id \in 1..m :
           /\ GroupOf(id) \in Seq(FileLine)
           /\ \A x : Text(x) \in Range(GroupOf(id)) <=> x \in Range(SubqueriesByMainQuery[id])
    BY <2>2, GroupFacts
  <2>4. PICK gs : gs = [id \in 1..m |-> GroupOf(id)]
    OBVIOUS
  <2>5. gs \in Seq(Seq(FileLine)) /\ DOMAIN gs = 1..m /\ \A id \in 1..m : gs[id] = GroupOf(id)
    BY <2>3, <2>4
  <2>6. SubqueryLines = FlattenSeq(gs)
    BY <1>8, <2>1, <2>4 DEF SubqueryLines
  <2>7. /\ SubqueryLines \in Seq(FileLine)
        /\ Range(SubqueryLines) = UNION {Range(gs[id]) : id \in DOMAIN gs}
    BY <2>5, <2>6, FlattenFacts
  <2>8. \A y : y \in Range(SubqueryLines) <=> \E id \in 1..m : y \in Range(GroupOf(id))
    BY <2>5, <2>7
  <2>9. \A x : x \in SubqueriesIn(SubqueryLines)
                 <=> \E id \in 1..m : x \in Range(SubqueriesByMainQuery[id])
    BY <2>3, <2>7, <2>8, SubqueriesInText
  <2>10. SubqueriesIn(SubqueryLines) = Subqueries
    BY <2>2, <2>9
  <2> QED BY <1>1, <1>3, <1>4, <1>6, <1>8, <2>7, <2>10, LinesNat
<1> QED BY <1>7, <1>8
-----------------------------------------------------------------------------
(***************************************************************************)
(* The files and the run that wrote them.                                  *)
(***************************************************************************)
LEMMA FilesInvInit == Init => FilesInv
<1> SUFFICES ASSUME Init PROVE FilesInv
  OBVIOUS
<1>1. /\ origin.conf = NoSettings /\ origin.made = <<>> /\ origin.done = FALSE
      /\ subqueryFile = <<>> /\ pc = "down"
  BY DEF Init
<1>2. MadeOver(origin.conf.work, origin.made)
  BY <1>1 DEF MadeOver
<1> QED BY <1>1, <1>2, EmptyFunction DEF FilesInv

\* A step that leaves the files alone and is not the end of a recording.
LEMMA FilesKept ==
    ASSUME FilesInv, UNCHANGED <<subqueryFile, resultFile, origin>>,
           pc' \notin {"openResult", "write", "end"},
           pc' = "time" => ~conf'.RecordingSubquery
    PROVE  FilesInv'
<1>1. FilesPaired => FilesPaired'
  BY DEF FilesPaired
<1> QED BY <1>1 DEF FilesInv

LEMMA FilesInvStep == RunInv /\ RecordedInv /\ FilesInv /\ [Next]_vars => FilesInv'
<1> SUFFICES ASSUME RunInv, RecordedInv, FilesInv, [Next]_vars PROVE FilesInv'
  OBVIOUS
<1> DEFINE texts == InOrder(TextsOf(made))
<1>0. /\ conf \in Settings \cup {NoSettings} /\ MadeOver(conf.work, made)
      /\ made \in Seq(Estimated) /\ subqueryFile \in Seq(FileLine)
      /\ resultFile \in Seq(Nat)
  BY DEF RunInv, TypeOK, RecordedInv, FilesInv
<1>1. CASE \/ Start \/ ReadSubqueryCard \/ BeginQuery \/ EstimateThrows \/ EstimateReplayed
           \/ EstimateCardinality \/ FinishEstimate \/ EndOfFile
  <2>1. /\ UNCHANGED <<subqueryFile, resultFile, origin>>
        /\ pc' \in {"read", "execute", "estimate", "open", "time"}
        /\ pc' = "time" => ~conf'.RecordingSubquery
    BY <1>1 DEF Start, ReadSubqueryCard, BeginQuery, EstimateThrows, EstimateReplayed,
         EstimateCardinality, FinishEstimate, EndOfFile, files, Asking
  <2> QED BY <2>1, FilesKept
<1>2. CASE ReadThrows \/ Exit \/ Crash
  <2>1. UNCHANGED <<subqueryFile, resultFile, origin>> /\ pc' = "down"
    BY <1>2 DEF ReadThrows, Exit, Crash, Ends
  <2> QED BY <2>1, FilesKept
<1>3. CASE OpenSubqueryFile
  <2>1. /\ subqueryFile' = <<>> /\ pc' = "openResult" /\ conf' = conf /\ made' = made
        /\ log' = log /\ origin' = ThisRun(FALSE)
    BY <1>3 DEF OpenSubqueryFile, progress, ThisRun
  <2>2. /\ origin' = ThisRun(FALSE)' /\ origin'.conf = conf /\ origin'.made = made
        /\ origin'.done = FALSE
    BY <2>1 DEF ThisRun
  <2> QED BY <1>0, <2>1, <2>2, EmptyFunction DEF FilesInv
<1>4. CASE OpenResultFile
  <2>1. /\ subqueryFile = <<>> /\ subqueryFile' = <<>> /\ resultFile' = <<>>
        /\ pc = "openResult" /\ pc' = "write"
        /\ conf' = conf /\ made' = made /\ log' = log /\ origin' = origin
    BY <1>4 DEF OpenResultFile, FilesInv, progress
  <2>2. origin = ThisRun(FALSE) /\ origin' = ThisRun(FALSE)'
    BY <2>1 DEF FilesInv, ThisRun
  <2>3. origin.done = FALSE /\ origin.made = made
    BY <2>2 DEF ThisRun
  <2>4. FilesPaired'
    <3>1. TextsOf(made) \in SUBSET Texts
      BY <1>0, TextsOfType
    <3>2. Len(texts) \in Nat
      BY <3>1, InOrderEnumerates
    <3>3. DOMAIN subqueryFile' = {} /\ DOMAIN resultFile' = {}
          /\ Len(subqueryFile') = 0 /\ Len(resultFile') = 0
      BY <2>1
    <3>4. InOrder(TextsOf(origin'.made)) = texts
      BY <2>1, <2>3
    <3> QED BY <3>2, <3>3, <3>4 DEF FilesPaired
  <2> QED BY <2>1, <2>2, <2>3, <2>4, EmptyFunction DEF FilesInv
<1>5. CASE WriteSubquery
  <2>1. /\ pc = "write" /\ pc' = "write" /\ conf' = conf /\ made' = made /\ log' = log
        /\ origin' = origin /\ resultFile' = resultFile
        /\ Len(subqueryFile) < Len(SubqueryLines)
        /\ ~Grouped => Len(subqueryFile) = Len(resultFile)
        /\ subqueryFile' = Append(subqueryFile, SubqueryLines[Len(subqueryFile) + 1])
    BY <1>5 DEF WriteSubquery, progress
  <2>2. /\ origin = ThisRun(FALSE) /\ origin' = ThisRun(FALSE)'
        /\ origin.conf = conf /\ origin.done = FALSE /\ origin.made = made
    BY <2>1 DEF FilesInv, ThisRun
  <2>3. conf.RecordingSubquery /\ line = Len(Workload)
    BY <2>1 DEF RunInv
  <2>4. /\ SubqueryLines \in Seq(FileLine) /\ texts \in Seq(Texts)
        /\ ~Grouped => SubqueryLines = [i \in DOMAIN texts |-> Text(texts[i])]
        /\ ResultLines = NumbersOf(made)
    BY <2>3, LinesFacts
  <2>5. PICK n \in Nat : n = Len(subqueryFile) /\ DOMAIN subqueryFile = 1..n
    BY <1>0
  <2>6. n + 1 \in DOMAIN SubqueryLines
    BY <2>1, <2>4, <2>5
  <2>7. PICK l \in FileLine : l = SubqueryLines[n + 1]
    BY <2>4, <2>6
  <2>8. subqueryFile' \in Seq(FileLine) /\ DOMAIN subqueryFile' = 1..(n + 1)
        /\ Len(subqueryFile') = n + 1
        /\ subqueryFile'[n + 1] = l /\ \A i \in 1..n : subqueryFile'[i] = subqueryFile[i]
    BY <1>0, <2>1, <2>5, <2>7
  <2>9. ASSUME ~origin'.conf.SubqueryOutputGroupByMain PROVE FilesPaired'
    <3>1. ~Grouped /\ FilesPaired
      BY <2>1, <2>2, <2>9 DEF Grouped, FilesInv
    <3>2. n + 1 \in DOMAIN texts /\ l = Text(texts[n + 1]) /\ n = Len(resultFile)
      BY <2>1, <2>4, <2>5, <2>6, <2>7, <3>1
    <3>3. n + 1 <= Len(texts)
      BY <2>4, <3>2
    <3> HIDE DEF texts
    <3>4. texts = InOrder(TextsOf(origin.made)) /\ texts = InOrder(TextsOf(origin'.made))
      BY <2>1, <2>2 DEF texts
    <3>5. \A i \in DOMAIN subqueryFile' : subqueryFile'[i] = Text(texts[i])
      <4>1. \A i \in 1..n : subqueryFile[i] = Text(texts[i])
        BY <2>5, <3>1, <3>4 DEF FilesPaired
      <4>2. \A i \in 1..(n + 1) : i \in 1..n \/ i = n + 1
        OBVIOUS
      <4> QED BY <2>8, <3>2, <4>1, <4>2
    <3>6. \A i \in DOMAIN resultFile' : resultFile'[i] = NumbersOf(origin'.made)[i]
      BY <2>1, <3>1 DEF FilesPaired
    <3>7. n <= n + 1 /\ n + 1 <= n + 1
      OBVIOUS
    <3> QED BY <2>1, <2>8, <3>2, <3>3, <3>4, <3>5, <3>6, <3>7 DEF FilesPaired
  <2> QED BY <2>1, <2>2, <2>8, <2>9 DEF FilesInv
<1>6. CASE WriteCard
  <2>1. /\ pc = "write" /\ pc' = "write" /\ conf' = conf /\ made' = made /\ log' = log
        /\ origin' = origin /\ subqueryFile' = subqueryFile
        /\ Len(resultFile) < Len(ResultLines)
        /\ ~Grouped => Len(subqueryFile) > Len(resultFile)
        /\ resultFile' = Append(resultFile, ResultLines[Len(resultFile) + 1])
    BY <1>6 DEF WriteCard, progress
  <2>2. /\ origin = ThisRun(FALSE) /\ origin' = ThisRun(FALSE)'
        /\ origin.conf = conf /\ origin.done = FALSE /\ origin.made = made
    BY <2>1 DEF FilesInv, ThisRun
  <2>3. conf.RecordingSubquery /\ line = Len(Workload)
    BY <2>1 DEF RunInv
  <2>4. ResultLines = NumbersOf(made) /\ ResultLines \in Seq(Nat)
    BY <2>3, LinesFacts
  <2>5. PICK n \in Nat : n = Len(resultFile) /\ DOMAIN resultFile = 1..n
    BY <1>0
  <2>6. n + 1 \in DOMAIN ResultLines
    BY <2>1, <2>4, <2>5
  <2>7. PICK x \in Nat : x = ResultLines[n + 1]
    BY <2>4, <2>6
  <2>8. /\ DOMAIN resultFile' = 1..(n + 1) /\ Len(resultFile') = n + 1
        /\ resultFile'[n + 1] = x /\ \A i \in 1..n : resultFile'[i] = resultFile[i]
    BY <1>0, <2>1, <2>5, <2>7
  <2>9. ASSUME ~origin'.conf.SubqueryOutputGroupByMain PROVE FilesPaired'
    <3>1. ~Grouped /\ FilesPaired
      BY <2>1, <2>2, <2>9 DEF Grouped, FilesInv
    <3>2. PICK m \in Nat : m = Len(subqueryFile)
      BY <1>0
    <3>3. n + 1 <= m /\ m <= (n + 1) + 1
      BY <2>1, <2>5, <3>1, <3>2 DEF FilesPaired
    <3>4. \A i \in DOMAIN resultFile' : resultFile'[i] = NumbersOf(made)[i]
      <4>1. \A i \in 1..n : resultFile[i] = NumbersOf(made)[i]
        BY <2>2, <2>5, <3>1 DEF FilesPaired
      <4>2. \A i \in 1..(n + 1) : i \in 1..n \/ i = n + 1
        OBVIOUS
      <4> QED BY <2>4, <2>7, <2>8, <4>1, <4>2
    <3> QED BY <2>1, <2>2, <2>8, <3>1, <3>2, <3>3, <3>4 DEF FilesPaired
  <2> QED BY <2>1, <2>2, <2>9 DEF FilesInv
<1>7. CASE CloseFiles
  <2>1. /\ pc = "write" /\ pc' = "time" /\ conf' = conf /\ made' = made /\ log' = log
        /\ origin' = [origin EXCEPT !.done = TRUE]
        /\ subqueryFile' = subqueryFile /\ resultFile' = resultFile
        /\ subqueryFile = SubqueryLines /\ resultFile = ResultLines
    BY <1>7 DEF CloseFiles, files, progress
  <2>2. /\ origin = ThisRun(FALSE) /\ origin.conf = conf /\ origin.made = made
    BY <2>1 DEF FilesInv, ThisRun
  <2>3. /\ origin' = ThisRun(TRUE)' /\ origin'.conf = conf /\ origin'.made = made
    BY <2>1, <2>2 DEF ThisRun
  <2>4. conf.RecordingSubquery /\ line = Len(Workload)
    BY <2>1 DEF RunInv
  <2>5. SubqueriesIn(subqueryFile) = TextsOf(made) /\ resultFile = NumbersOf(made)
    BY <2>1, <2>4, LinesFacts
  <2>6. ~origin'.conf.SubqueryOutputGroupByMain => FilesPaired'
    <3>1. ~origin'.conf.SubqueryOutputGroupByMain => FilesPaired
      BY <2>1, <2>2, <2>3 DEF FilesInv
    <3>2. PICK es : es = origin.made /\ es = origin'.made
      BY <2>2, <2>3
    <3>3. FilesPaired => FilesPaired'
      <4>1. PICK o : o = InOrder(TextsOf(es))
        OBVIOUS
      <4>2. o = InOrder(TextsOf(origin.made)) /\ o = InOrder(TextsOf(origin'.made))
        BY <3>2, <4>1
      <4>3. NumbersOf(origin'.made) = NumbersOf(origin.made)
        BY <3>2
      <4> QED BY <2>1, <4>2, <4>3 DEF FilesPaired
    <3> QED BY <3>1, <3>3
  <2> QED BY <1>0, <2>1, <2>3, <2>5, <2>6 DEF FilesInv
<1>8. CASE OutputSubqueryTime
  <2>1. /\ pc = "time" /\ pc' = "end" /\ conf' = conf /\ made' = made /\ log' = log
        /\ UNCHANGED <<subqueryFile, resultFile, origin>>
        /\ timeFile' = IF conf.RecordEstimateTime THEN TimeLines ELSE timeFile
    BY <1>8 DEF OutputSubqueryTime, progress
  <2>2. conf'.RecordingSubquery => origin' = ThisRun(TRUE)'
    BY <2>1 DEF FilesInv, ThisRun
  <2>3. FilesPaired => FilesPaired'
    BY <2>1 DEF FilesPaired
  <2>4. ASSUME conf.RecordingSubquery, conf.RecordEstimateTime
        PROVE  timeFile' = [i \in DOMAIN texts |-> LastFor(made, texts[i])]
    <3>1. /\ Subqueries = TextsOf(made) /\ TextsOf(made) \in SUBSET Texts
          /\ RecordingSubqueryTimes = [t \in TextsOf(made) |-> LastFor(made, t)]
      BY <2>4 DEF RunInv, TypeOK, RecordedInv, Texts
    <3>2. timeFile' = [i \in DOMAIN texts |-> TimeOf(texts[i])]
      BY <2>1, <2>4, <3>1 DEF TimeLines
    <3>3. texts \in Seq(TextsOf(made))
      BY <3>1, InOrderEnumerates
    <3>4. \A i \in DOMAIN texts : texts[i] \in TextsOf(made)
      BY <3>3
    <3>5. \A i \in DOMAIN texts : TimeOf(texts[i]) = LastFor(made, texts[i])
      BY <3>1, <3>4 DEF TimeOf
    <3> QED BY <3>2, <3>5
  <2> QED BY <2>1, <2>2, <2>3, <2>4 DEF FilesInv
<1>9. CASE UNCHANGED vars
  <2>1. FilesPaired => FilesPaired'
    BY <1>9 DEF vars, files, FilesPaired
  <2> QED BY <1>9, <2>1 DEF vars, files, progress, FilesInv, ThisRun
<1> QED BY <1>1, <1>2, <1>3, <1>4, <1>5, <1>6, <1>7, <1>8, <1>9 DEF Next

LEMMA FilesInvariant == Spec => []FilesInv
BY FilesInvInit, FilesInvStep, RunInvariant, RecordedInvariant, PTL DEF Spec

(***************************************************************************)
(* When a recording run ends without grouping, the lines of one number in  *)
(* the three files tell of one subquery, and of the last estimate of it    *)
(* (OutputSubquery, OutputSubqueryTime).                                   *)
(***************************************************************************)
THEOREM FilesCorrespond == Spec => []LinesCorrespond
<1>1. RunInv /\ FilesInv => LinesCorrespond
  <2> SUFFICES ASSUME RunInv, FilesInv, pc = "end", conf.RecordingSubquery,
                      ~conf.SubqueryOutputGroupByMain
               PROVE  LinesCorrespond
    BY DEF LinesCorrespond, RecordingEnds
  <2>1. origin = ThisRun(TRUE)
    BY DEF FilesInv
  <2>2. origin.made = made /\ origin.done = TRUE /\ origin.conf = conf
    BY <2>1 DEF ThisRun
  <2>3. PICK o : o = InOrder(TextsOf(made))
    OBVIOUS
  <2>4. SubqueriesIn(subqueryFile) = TextsOf(made) /\ resultFile = NumbersOf(made)
    BY <2>2 DEF FilesInv
  <2>5. /\ o \in Seq(Texts) /\ Range(o) = TextsOf(made)
    <3>1. TextsOf(made) \in SUBSET Texts
      BY TextsOfType DEF RunInv
    <3> QED BY <2>3, <3>1, InOrderEnumerates
  <2>6. resultFile = [i \in DOMAIN o |-> Truncated(made[LastFor(made, o[i])].card)]
    BY <2>3, <2>4 DEF NumbersOf
  <2>7. conf.RecordEstimateTime => timeFile = [i \in DOMAIN o |-> LastFor(made, o[i])]
    BY <2>3 DEF FilesInv
  <2>8. PICK n \in Nat : n = Len(o) /\ DOMAIN o = 1..n
    BY <2>5
  <2>9. PICK m \in Nat : m = Len(subqueryFile) /\ DOMAIN subqueryFile = 1..m
    BY DEF FilesInv
  <2>10. subqueryFile = [i \in DOMAIN o |-> Text(o[i])]
    <3>1. subqueryFile = [k \in 1..m |-> subqueryFile[k]]
      BY <2>9 DEF FilesInv
    <3>2. CASE subqueryFile # <<>>
      <4>1. FilesPaired
        BY <2>2, <3>2 DEF FilesInv
      <4>2. m <= n /\ Len(resultFile) <= m /\ \A k \in 1..m : subqueryFile[k] = Text(o[k])
        BY <2>2, <2>3, <2>8, <2>9, <4>1 DEF FilesPaired
      <4>3. Len(resultFile) = n
        BY <2>6, <2>8
      <4> QED BY <2>8, <3>1, <4>2, <4>3
    <3>3. CASE subqueryFile = <<>>
      <4>1. TextsOf(made) = {}
        <5>1. Range(subqueryFile) = {}
          BY <3>3 DEF Range
        <5> QED BY <2>4, <5>1 DEF SubqueriesIn
      <4>2. n = 0 /\ m = 0
        <5>1. m = 0
          BY <2>9, <3>3
        <5>2. n = 0
          <6>1. ASSUME n # 0 PROVE FALSE
            <7>1. 1 \in DOMAIN o
              BY <2>8, <6>1
            <7> QED BY <2>5, <4>1, <7>1 DEF Range
          <6> QED BY <6>1
        <5> QED BY <5>1, <5>2
      <4> QED BY <2>8, <3>1, <4>2
    <3> QED BY <3>2, <3>3
  <2>11. o = InOrder({made[i].text : i \in DOMAIN made})
    BY <2>3 DEF TextsOf
  <2> QED BY <2>6, <2>7, <2>10, <2>11 DEF LinesCorrespond
<1> QED BY <1>1, RunInvariant, FilesInvariant, PTL
-----------------------------------------------------------------------------
(***************************************************************************)
(* The cards a replaying run has read are those of the files, which do not *)
(* change while it replays.                                                *)
(***************************************************************************)
LEMMA CardsInvStep == CardsInv /\ [Next]_vars => CardsInv'
<1> SUFFICES ASSUME CardsInv, [Next]_vars, Replaying' PROVE CardsInv'
  BY DEF CardsInv
<1>1. ASSUME Replaying, UNCHANGED <<subqueryFile, resultFile, subqueryCard>>
      PROVE  CardsInv'
  BY <1>1 DEF CardsInv, CardsRead, NumberFor, LastLine
<1>2. CASE ReadSubqueryCard
  BY <1>2 DEF ReadSubqueryCard, CardsInv, CardsRead, NumberFor, LastLine, files
<1>3. CASE BeginQuery \/ EstimateThrows \/ EstimateReplayed \/ EstimateCardinality
           \/ FinishEstimate
  <2>1. Replaying /\ UNCHANGED <<subqueryFile, resultFile, subqueryCard>>
    BY <1>3 DEF BeginQuery, EstimateThrows, EstimateReplayed, EstimateCardinality,
         FinishEstimate, Asking, Replaying, files
  <2> QED BY <1>1, <2>1
<1>4. CASE UNCHANGED vars
  <2>1. Replaying /\ UNCHANGED <<subqueryFile, resultFile, subqueryCard>>
    BY <1>4 DEF vars, files, Replaying
  <2> QED BY <1>1, <2>1
<1>5. CASE Start
  BY <1>5 DEF Start, Replaying
<1>6. CASE \/ ReadThrows \/ EndOfFile \/ OpenSubqueryFile \/ OpenResultFile \/ WriteSubquery
           \/ WriteCard \/ CloseFiles \/ OutputSubqueryTime \/ Exit \/ Crash
  BY <1>6 DEF ReadThrows, EndOfFile, OpenSubqueryFile, OpenResultFile, WriteSubquery,
       WriteCard, CloseFiles, OutputSubqueryTime, Exit, Crash, Ends, Replaying
<1> QED BY <1>2, <1>3, <1>4, <1>5, <1>6 DEF Next

LEMMA CardsInvariant == Spec => []CardsInv
<1>1. Init => CardsInv
  BY DEF Init, CardsInv, Replaying
<1> QED BY <1>1, CardsInvStep, PTL DEF Spec

LEMMA MaxOfOne ==
    ASSUME NEW i \in Nat
    PROVE  Max({i}) = i
BY DEF Max

(***************************************************************************)
(* A replayed number is the last estimate of its subquery in the run that  *)
(* recorded it, for every workload, after any sequence of runs, and after  *)
(* a crash anywhere but before the number of the last line.                *)
(***************************************************************************)
THEOREM ReplayIsFaithful == Spec => []ReplayFaithful
<1>1. RunInv /\ FilesInv /\ CardsInv => ReplayFaithful
  <2> SUFFICES ASSUME RunInv, FilesInv, CardsInv, Replaying, subqueryFile # <<>>,
                      ~origin.conf.SubqueryOutputGroupByMain,
                      NEW i \in DOMAIN subqueryFile,
                      origin.done \/ i < Len(subqueryFile)
               PROVE  subqueryCard[subqueryFile[i]] =
                        Truncated(origin.made[LastFor(origin.made, subqueryFile[i][2])].card)
    BY DEF ReplayFaithful, Replaying
  <2>1. PICK o : o = InOrder(TextsOf(origin.made))
    OBVIOUS
  <2>2. o \in Seq(Texts) /\ IsInjective(o)
    <3>1. TextsOf(origin.made) \in SUBSET Texts
      BY TextsOfType DEF FilesInv
    <3>2. o \in Seq(TextsOf(origin.made)) /\ IsInjective(o)
      BY <2>1, <3>1, InOrderEnumerates
    <3> QED BY <3>1, <3>2
  <2>3. PICK f \in Seq(FileLine) : f = subqueryFile
    BY DEF FilesInv
  <2>4. PICK r \in Seq(Nat) : r = resultFile
    BY DEF RunInv, TypeOK
  <2>5. PICK N : N = NumbersOf(origin.made)
    OBVIOUS
  <2>6. N = [k \in DOMAIN o |->
               Truncated(origin.made[LastFor(origin.made, o[k])].card)]
    BY <2>1, <2>5 DEF NumbersOf
  <2>7. /\ Len(f) <= Len(o) /\ \A k \in DOMAIN f : f[k] = Text(o[k])
        /\ \A k \in DOMAIN r : r[k] = N[k]
        /\ Len(r) <= Len(f) /\ Len(f) <= Len(r) + 1
        /\ origin.done => r = N
    <3>1. FilesPaired /\ (origin.done => r = N)
      BY <2>4, <2>5 DEF FilesInv
    <3> QED BY <2>1, <2>3, <2>4, <2>5, <3>1 DEF FilesPaired
  <2>8. /\ Len(f) \in Nat /\ Len(o) \in Nat /\ Len(r) \in Nat /\ i \in 1..Len(f)
        /\ DOMAIN f = 1..Len(f) /\ DOMAIN o = 1..Len(o) /\ DOMAIN r = 1..Len(r)
    BY <2>2, <2>3, <2>4
  <2>9. i \in Nat /\ i \in DOMAIN o
    BY <2>7, <2>8
  <2>10. i \in DOMAIN r
    <3>1. CASE origin.done
      BY <2>6, <2>7, <2>9, <3>1
    <3>2. CASE i < Len(f)
      BY <2>7, <2>8, <3>2
    <3> QED BY <2>3, <3>1, <3>2
  <2>11. {k \in DOMAIN f : f[k] = f[i]} = {i}
    <3>1. \A x, y : Text(x) = Text(y) => x = y
      BY DEF Text
    <3>2. \A k \in DOMAIN f : k \in DOMAIN o
      BY <2>7, <2>8
    <3>3. \A k \in DOMAIN f : f[k] = f[i] => k = i
      BY <2>2, <2>3, <2>7, <3>1, <3>2 DEF IsInjective
    <3> QED BY <2>3, <3>3
  <2>12. LastLine(f[i]) = i
    BY <2>3, <2>9, <2>11, MaxOfOne DEF LastLine
  <2>13. PICK card \in Uninitialised : subqueryCard = CardsRead(card)
    BY DEF CardsInv
  <2>14. subqueryCard[f[i]] = NumberFor(i, card)
    <3>1. f[i] \in Range(subqueryFile)
      BY <2>3 DEF Range
    <3>2. subqueryCard = [l \in Range(subqueryFile) |-> NumberFor(LastLine(l), card)]
      BY <2>13 DEF CardsRead
    <3> QED BY <2>12, <3>1, <3>2
  <2>15. NumberFor(i, card) = r[i]
    <3>1. i <= Len(r) /\ r # <<>>
      BY <2>4, <2>8, <2>10
    <3>2. Min({i, Len(r)}) = i
      BY <2>8, <2>9, <3>1, MinOfTwo
    <3> QED BY <2>4, <3>1, <3>2 DEF NumberFor
  <2>16. r[i] = Truncated(origin.made[LastFor(origin.made, o[i])].card)
    BY <2>6, <2>7, <2>9, <2>10
  <2>17. f[i][2] = o[i]
    BY <2>3, <2>7 DEF Text
  <2> QED BY <2>3, <2>14, <2>15, <2>16, <2>17
<1> QED BY <1>1, RunInvariant, FilesInvariant, CardsInvariant, PTL
-----------------------------------------------------------------------------
(***************************************************************************)
(* What becomes of every line of a run.                                    *)
(***************************************************************************)
LEMMA FreshForetold == Fresh /\ pc # "estimate" => LogForetold /\ TextsMade
<1> SUFFICES ASSUME Fresh, pc # "estimate" PROVE LogForetold /\ TextsMade
  OBVIOUS
<1>1. line = 0 /\ log = <<>> /\ prepared = FALSE
  BY DEF Fresh
<1>2. DOMAIN log = {} /\ 1..line = {}
  BY <1>1
<1> QED BY <1>1, <1>2 DEF LogForetold, TextsMade

\* A run whose answers are those of the statistics.
Foreseen == ~conf.UseSubqueryCard \/ ReplaysOrigin

\* The cards of a replaying run are those of the texts that were recorded.
LEMMA CardsOfOrigin ==
    ASSUME FilesInv, CardsInv, ReplaysOrigin, NEW t
    PROVE  Text(t) \in DOMAIN subqueryCard <=> t \in TextsOf(origin.made)
<1>1. DOMAIN subqueryCard = Range(subqueryFile)
  BY DEF CardsInv, ReplaysOrigin, CardsRead
<1>2. SubqueriesIn(subqueryFile) = TextsOf(origin.made) /\ subqueryFile \in Seq(FileLine)
  BY DEF FilesInv, ReplaysOrigin
<1> QED BY <1>1, <1>2, SubqueriesInText

(***************************************************************************)
(* An ask is answered exactly if the statistics can answer it: by a        *)
(* replaying run because equal texts have equal statistics, and because    *)
(* the recording run answered all that it reached.                         *)
(***************************************************************************)
LEMMA AskAnswered ==
    ASSUME RunInv, FilesInv, CardsInv, AnswersInv, Foreseen, Asking
    PROVE  /\ EstimateThrows => ~Answered(conf.work, line, ask + 1)
           /\ EstimateReplayed \/ EstimateCardinality => Answered(conf.work, line, ask + 1)
<1>1. /\ conf.work \in DOMAIN Workloads /\ line \in DOMAIN Workloads[conf.work]
      /\ ask + 1 \in DOMAIN Workloads[conf.work][line].asks
      /\ Query = Workloads[conf.work][line]
      /\ Rels = Workloads[conf.work][line].asks[ask + 1]
      /\ IsQuery(Query) /\ ask \in Nat
  BY AskingFacts DEF Workload
<1>2. Answered(conf.work, line, ask + 1) <=> HasText(Query, Rels) /\ HasStatistics(Query, Rels)
  BY <1>1 DEF Answered
<1>3. PICK t : t = GetSubquery(Query, Rels) /\ t = TextAt(conf.work, line, ask + 1)
  BY <1>1 DEF TextAt
<1>4. CASE ~conf.UseSubqueryCard
  BY <1>2, <1>4 DEF EstimateThrows, EstimateReplayed, EstimateCardinality
<1>5. CASE ReplaysOrigin
  <2>1. conf.UseSubqueryCard /\ conf.work = origin.conf.work /\ LogForetold /\ OriginAnswered
    BY <1>5 DEF ReplaysOrigin, Replaying, AnswersInv
  <2>2. Text(t) \in DOMAIN subqueryCard <=> t \in TextsOf(origin.made)
    BY <1>5, CardsOfOrigin
  <2>3. ASSUME EstimateThrows, Answered(conf.work, line, ask + 1) PROVE FALSE
    <3>1. t \notin TextsOf(origin.made)
      BY <1>2, <1>3, <2>1, <2>2, <2>3 DEF EstimateThrows
    <3>2. Reached(conf.work, line, ask)
      BY <2>1 DEF LogForetold, Asking
    <3>3. \A b \in 1..(ask + 1) : b \in 1..ask \/ b = ask + 1
      BY <1>1
    <3>4. Reached(conf.work, line, ask + 1)
      BY <2>3, <3>2, <3>3 DEF Reached
    <3>5. t \in TextsOf(origin.made)
      BY <1>1, <1>3, <2>1, <3>4 DEF OriginAnswered
    <3> QED BY <3>1, <3>5
  <2>4. ASSUME EstimateReplayed PROVE Answered(conf.work, line, ask + 1)
    <3>1. HasText(Query, Rels) /\ t \in TextsOf(origin.made)
      BY <1>3, <2>2, <2>4 DEF EstimateReplayed
    <3>2. PICK i \in DOMAIN origin.made : origin.made[i].text = t
      BY <3>1 DEF TextsOf
    <3>3. MadeOver(conf.work, origin.made)
      BY <2>1 DEF FilesInv
    <3>4. PICK q : q = Workloads[conf.work][origin.made[i].line]
      OBVIOUS
    <3>5. PICK rels : rels = origin.made[i].rels
      OBVIOUS
    <3>6. /\ origin.made[i].line \in DOMAIN Workloads[conf.work]
          /\ HasText(q, rels) /\ HasStatistics(q, rels) /\ t = GetSubquery(q, rels)
      BY <3>2, <3>3, <3>4, <3>5 DEF MadeOver
    <3>7. IsQuery(q)
      BY <3>4, <3>6, ConfFacts DEF RunInv, TypeOK
    <3>8. GetSubquery(q, rels) = GetSubquery(Query, Rels)
      BY <1>3, <3>6
    <3>9. HasStatistics(Query, Rels)
      BY <1>1, <3>1, <3>6, <3>7, <3>8, SameStatistics
    <3> QED BY <1>2, <3>1, <3>9
  <2>5. ~EstimateCardinality
    BY <2>1 DEF EstimateCardinality
  <2> QED BY <2>3, <2>4, <2>5
<1> QED BY <1>4, <1>5 DEF Foreseen

\* One more line has its verdict.
LEMMA LogAppend ==
    ASSUME NEW w, NEW n \in Nat, NEW s \in Seq({"ok", "failed"}), Len(s) = n,
           \A l \in DOMAIN s : s[l] = Foretold(w, l),
           NEW x \in {"ok", "failed"}, x = Foretold(w, n + 1)
    PROVE  \A l \in DOMAIN Append(s, x) : Append(s, x)[l] = Foretold(w, l)
<1>1. PICK u : u = Append(s, x)
  OBVIOUS
<1>2. /\ DOMAIN s = 1..n /\ DOMAIN u = 1..(n + 1) /\ u[n + 1] = x
      /\ \A l \in 1..n : u[l] = s[l]
  BY <1>1
<1>3. \A l \in 1..(n + 1) : l \in 1..n \/ l = n + 1
  OBVIOUS
<1>4. \A l \in DOMAIN u : u[l] = Foretold(w, l)
  BY <1>2, <1>3
<1> QED BY <1>1, <1>4

\* The verdict of a line is the one the statistics foretell.
LEMMA LogForetoldStep ==
    ASSUME RunInv, LogForetold,
           \/ BeginQuery
           \/ EstimateThrows /\ ~Answered(conf.work, line, ask + 1)
           \/ (EstimateReplayed \/ EstimateCardinality) /\ Answered(conf.work, line, ask + 1)
           \/ FinishEstimate
    PROVE  LogForetold'
<1>1. PICK w : w = conf.work
  OBVIOUS
<1>2. PICK n \in Nat : n = line
  BY DEF RunInv, TypeOK
<1>3. log \in Seq({"ok", "failed"}) /\ ask \in Nat
  BY DEF RunInv, TypeOK
<1>4. \A l \in DOMAIN log : log[l] = Foretold(w, l)
  BY <1>1 DEF LogForetold
<1>5. ASSUME pc = "estimate"
      PROVE  /\ n \in 1..n /\ n - 1 \in Nat /\ Len(log) = n - 1 /\ (n - 1) + 1 = n
             /\ prepared /\ n \in DOMAIN Workloads[w]
             /\ \A k \in 1..(n - 1) : LineAnswered(w, k)
             /\ \A b \in 1..ask : Answered(w, n, b)
             /\ Len(Workloads[w][n].asks) \in Nat
             /\ DOMAIN Workloads[w][n].asks = 1..Len(Workloads[w][n].asks)
  <2>1. Workloads[w] \in Seq(Main)
    BY <1>1, ConfFacts DEF RunInv, TypeOK
  <2>2. n \in DOMAIN Workloads[w] /\ Len(log) = n - 1
    BY <1>1, <1>2, <1>5 DEF RunInv, Workload
  <2>3. Workloads[w][n].asks \in Seq(SUBSET Nat)
    <3>1. PICK q \in Main : q = Workloads[w][n]
      BY <2>1, <2>2
    <3> QED BY <3>1 DEF Main
  <2>4. n \in 1..n /\ n - 1 \in Nat /\ (n - 1) + 1 = n
    BY <2>1, <2>2
  <2>5. prepared /\ Reached(w, n, ask)
    BY <1>1, <1>2, <1>5 DEF LogForetold
  <2> QED BY <2>2, <2>3, <2>4, <2>5 DEF Reached
<1>6. CASE BeginQuery
  <2>1. /\ pc = "execute" /\ conf'.work = w /\ line' = n + 1 /\ ask' = 0
        /\ Len(log) = n /\ (prepared <=> \E k \in 1..n : ~LineAnswered(w, k))
    BY <1>1, <1>2, <1>6 DEF BeginQuery, RunInv, LogForetold
  <2>2. CASE ~prepared /\ prepared' = TRUE /\ pc' = "estimate" /\ log' = log
    <3>1. (n + 1) - 1 = n /\ 1..0 = {}
      OBVIOUS
    <3>2. Reached(w, n + 1, 0)
      BY <2>1, <2>2, <3>1 DEF Reached
    <3> QED BY <1>4, <2>1, <2>2, <3>2 DEF LogForetold
  <2>3. CASE prepared /\ prepared' = prepared /\ pc' = pc /\ log' = Append(log, "failed")
    <3>1. PICK k \in 1..n : ~LineAnswered(w, k)
      BY <2>1, <2>3
    <3>2. k \in 1..(n + 1)
      OBVIOUS
    <3>3. Foretold(w, n + 1) = "failed"
      BY <3>1, <3>2 DEF Foretold
    <3>4. \A l \in DOMAIN log' : log'[l] = Foretold(w, l)
      BY <1>3, <1>4, <2>1, <2>3, <3>3, LogAppend
    <3> QED BY <2>1, <2>3, <3>1, <3>2, <3>4 DEF LogForetold
  <2> QED BY <1>6, <2>2, <2>3 DEF BeginQuery
<1>7. CASE EstimateThrows /\ ~Answered(conf.work, line, ask + 1)
  <2>1. /\ pc = "estimate" /\ pc' = "execute" /\ conf'.work = w /\ line' = n
        /\ prepared' = prepared /\ log' = Append(log, "failed")
        /\ ask < Len(Query.asks)
    BY <1>1, <1>2, <1>7 DEF EstimateThrows, Asking
  <2>2. Query = Workloads[w][n]
    BY <1>1, <1>2 DEF Query, Workload
  <2>3. ask + 1 \in DOMAIN Workloads[w][n].asks
    BY <1>3, <1>5, <2>1, <2>2
  <2>4. ~LineAnswered(w, n)
    BY <1>1, <1>2, <1>7, <2>3 DEF LineAnswered
  <2>5. Foretold(w, n) = "failed"
    BY <1>5, <2>1, <2>4 DEF Foretold
  <2>6. \A l \in DOMAIN log' : log'[l] = Foretold(w, l)
    BY <1>3, <1>4, <1>5, <2>1, <2>5, LogAppend
  <2> QED BY <1>5, <2>1, <2>4, <2>6 DEF LogForetold
<1>8. CASE (EstimateReplayed \/ EstimateCardinality) /\ Answered(conf.work, line, ask + 1)
  <2>1. /\ pc = "estimate" /\ pc' = "estimate" /\ conf'.work = w /\ line' = n
        /\ prepared' = prepared /\ log' = log /\ ask' = ask + 1
    BY <1>1, <1>2, <1>8 DEF EstimateReplayed, EstimateCardinality, Asking
  <2>2. \A b \in 1..(ask + 1) : b \in 1..ask \/ b = ask + 1
    BY <1>3
  <2>3. Reached(w, n, ask + 1)
    BY <1>1, <1>2, <1>5, <1>8, <2>1, <2>2 DEF Reached
  <2> QED BY <1>4, <1>5, <2>1, <2>3 DEF LogForetold
<1>9. CASE FinishEstimate
  <2>1. /\ pc = "estimate" /\ pc' = "execute" /\ conf'.work = w /\ line' = n
        /\ prepared' = FALSE /\ log' = Append(log, "ok") /\ ask = Len(Query.asks)
    BY <1>1, <1>2, <1>9 DEF FinishEstimate
  <2>2. Query = Workloads[w][n]
    BY <1>1, <1>2 DEF Query, Workload
  <2>3. LineAnswered(w, n)
    BY <1>5, <2>1, <2>2 DEF LineAnswered
  <2>4. \A k \in 1..n : k \in 1..(n - 1) \/ k = n
    OBVIOUS
  <2>5. \A k \in 1..n : LineAnswered(w, k)
    BY <1>5, <2>1, <2>3, <2>4
  <2>6. Foretold(w, n) = "ok"
    BY <2>5 DEF Foretold
  <2>7. \A l \in DOMAIN log' : log'[l] = Foretold(w, l)
    BY <1>3, <1>4, <1>5, <2>1, <2>6, LogAppend
  <2> QED BY <2>1, <2>5, <2>7 DEF LogForetold
<1> QED BY <1>6, <1>7, <1>8, <1>9

\* An estimating run has made every text that it has reached.
LEMMA TextsMadeStep ==
    ASSUME RunInv, LogForetold, TextsMade,
           \/ BeginQuery
           \/ EstimateThrows /\ ~Answered(conf.work, line, ask + 1)
           \/ EstimateCardinality
           \/ FinishEstimate
    PROVE  TextsMade'
<1>1. PICK w : w = conf.work
  OBVIOUS
<1>2. PICK n \in Nat : n = line
  BY DEF RunInv, TypeOK
<1>3. Workloads[w] \in Seq(Main) /\ conf' = conf /\ ask \in Nat
  BY <1>1, ConfFacts DEF RunInv, TypeOK, BeginQuery, EstimateThrows, EstimateCardinality,
     FinishEstimate
<1>4. ASSUME NEW l \in 1..n, NEW a \in DOMAIN Workloads[w][l].asks, Reached(w, l, a),
             pc = "estimate" /\ l = n => a <= ask
      PROVE  TextAt(w, l, a) \in TextsOf(made)
  BY <1>1, <1>2, <1>4 DEF TextsMade, Workload
<1> SUFFICES ASSUME NEW l \in 1..line', NEW a \in DOMAIN Workloads[w][l].asks,
                    Reached(w, l, a), pc' = "estimate" /\ l = line' => a <= ask'
             PROVE  TextAt(w, l, a) \in TextsOf(made')
  BY <1>1, <1>3 DEF TextsMade, Workload
<1>5. CASE BeginQuery
  <2>1. /\ pc = "execute" /\ line' = n + 1 /\ ask' = 0 /\ made' = made
        /\ n + 1 <= Len(Workloads[w])
        /\ prepared <=> \E k \in 1..n : ~LineAnswered(w, k)
    <3>1. line < Len(Workload) /\ Len(Workload) \in Nat
      BY <1>1, <1>3, <1>5 DEF BeginQuery, Workload
    <3>2. n + 1 <= Len(Workloads[w])
      BY <1>1, <1>2, <3>1 DEF Workload
    <3> QED BY <1>1, <1>2, <1>5, <3>2 DEF BeginQuery, LogForetold
  <2>2. CASE l \in 1..n
    BY <1>4, <2>1, <2>2
  <2>3. CASE l = n + 1
    <3>1. Workloads[w][n + 1].asks \in Seq(SUBSET Nat)
      <4>1. PICK q \in Main : q = Workloads[w][n + 1]
        BY <1>3, <2>1
      <4> QED BY <4>1 DEF Main
    <3>2. a \in Nat /\ a >= 1
      BY <2>3, <3>1
    <3>3. (n + 1) - 1 = n
      OBVIOUS
    <3>4. ~prepared
      BY <2>1, <2>3, <3>3 DEF Reached
    <3>5. pc' = "estimate"
      BY <1>5, <3>4 DEF BeginQuery
    <3> QED BY <2>1, <2>3, <3>2, <3>5
  <2> QED BY <2>1, <2>2, <2>3
<1>6. CASE EstimateThrows /\ ~Answered(conf.work, line, ask + 1)
  <2>1. line' = n /\ made' = made /\ pc = "estimate"
    BY <1>2, <1>6 DEF EstimateThrows, Asking
  <2>2. ASSUME l = n PROVE a <= ask
    <3>1. a \in Nat
      <4>1. l \in DOMAIN Workloads[w]
        BY <1>1, <1>2, <2>1, <2>2 DEF RunInv, Workload
      <4>2. PICK q \in Main : q = Workloads[w][l]
        BY <1>3, <4>1
      <4>3. q.asks \in Seq(SUBSET Nat)
        BY DEF Main
      <4> QED BY <4>2, <4>3
    <3>2. ask + 1 \notin 1..a
      BY <1>1, <1>2, <1>6, <2>2 DEF Reached
    <3> QED BY <1>3, <3>1, <3>2
  <2> QED BY <1>4, <2>1, <2>2
<1>7. CASE EstimateCardinality
  <2>1. line' = n /\ ask' = ask + 1 /\ pc = "estimate" /\ pc' = "estimate" /\ Asking
        /\ HasText(Query, Rels)
    BY <1>2, <1>7 DEF EstimateCardinality, Asking
  <2>2. PICK t : t = GetSubquery(Query, Rels)
    OBVIOUS
  <2>3. /\ t \in Texts /\ Rels \in SUBSET Nat /\ Estimates(conf.work, line, Rels) \subseteq Nat
        /\ Query = Workloads[w][n] /\ Rels = Workloads[w][n].asks[ask + 1]
    BY <1>1, <1>2, <2>1, <2>2, AskingFacts
  <2>4. PICK card \in Nat :
           made' = Append(made, [text |-> t, line |-> line, rels |-> Rels, card |-> card])
    BY <1>7, <2>2, <2>3 DEF EstimateCardinality
  <2>5. PICK e \in Estimated : made' = Append(made, e) /\ e.text = t
    <3>1. PICK e : e = [text |-> t, line |-> line, rels |-> Rels, card |-> card]
      OBVIOUS
    <3>2. e \in Estimated /\ e.text = t
      BY <1>2, <2>3, <3>1 DEF Estimated
    <3> QED BY <2>4, <3>1, <3>2
  <2>6. TextsOf(made') = TextsOf(made) \cup {t}
    BY <2>5, LastForAppend DEF RunInv
  <2>7. CASE l = n /\ a = ask + 1
    <3>1. TextAt(w, l, a) = t
      BY <2>2, <2>3, <2>7 DEF TextAt
    <3> QED BY <2>6, <3>1
  <2>8. CASE ~(l = n /\ a = ask + 1)
    <3>1. l = n => a <= ask
      <4> SUFFICES ASSUME l = n PROVE a <= ask
        OBVIOUS
      <4>1. a \in Nat
        <5>1. Workloads[w][n].asks \in Seq(SUBSET Nat)
          <6>1. n \in DOMAIN Workloads[w]
            BY <1>1, <1>2, <2>1 DEF RunInv, Workload
          <6>2. PICK q \in Main : q = Workloads[w][n]
            BY <1>3, <6>1
          <6> QED BY <6>2 DEF Main
        <5> QED BY <5>1
      <4>2. a <= ask + 1 /\ a # ask + 1
        BY <2>1, <2>8
      <4> QED BY <1>3, <4>1, <4>2
    <3> QED BY <1>4, <2>1, <2>6, <3>1
  <2> QED BY <2>7, <2>8
<1>8. CASE FinishEstimate
  <2>1. line' = n /\ made' = made /\ pc = "estimate" /\ ask = Len(Query.asks)
    BY <1>2, <1>8 DEF FinishEstimate
  <2>2. ASSUME l = n PROVE a <= ask
    <3>1. Workloads[w][n].asks \in Seq(SUBSET Nat)
      <4>1. n \in DOMAIN Workloads[w]
        BY <1>1, <1>2, <2>1 DEF RunInv, Workload
      <4>2. PICK q \in Main : q = Workloads[w][n]
        BY <1>3, <4>1
      <4> QED BY <4>2 DEF Main
    <3>2. Query = Workloads[w][n]
      BY <1>1, <1>2 DEF Query, Workload
    <3> QED BY <2>1, <2>2, <3>1, <3>2
  <2> QED BY <1>4, <2>1, <2>2
<1> QED BY <1>5, <1>6, <1>7, <1>8

\* The run that is writing the files has answered every line.
LEMMA WriterAnswered ==
    ASSUME RunInv, LogForetold, TextsMade, pc = "write",
           NEW w, w = conf.work
    PROVE  /\ log = [l \in 1..Len(Workloads[w]) |-> Foretold(w, l)]
           /\ \A l \in DOMAIN Workloads[w] : \A a \in DOMAIN Workloads[w][l].asks :
                 Reached(w, l, a) => TextAt(w, l, a) \in TextsOf(made)
<1>2. Workloads[w] \in Seq(Main)
  BY ConfFacts DEF RunInv, TypeOK
<1>3. PICK n \in Nat : n = Len(Workloads[w]) /\ DOMAIN Workloads[w] = 1..n
  BY <1>2
<1>4. line = n /\ Len(log) = n /\ log \in Seq({"ok", "failed"})
  BY <1>3 DEF RunInv, TypeOK, Workload
<1>5. log = [l \in 1..n |-> Foretold(w, l)]
  <2>1. DOMAIN log = 1..n
    BY <1>4
  <2>2. \A l \in 1..n : log[l] = Foretold(w, l)
    BY <2>1 DEF LogForetold
  <2> QED BY <1>4, <2>1, <2>2
<1>6. \A l \in 1..n : \A a \in DOMAIN Workloads[w][l].asks :
         Reached(w, l, a) => TextAt(w, l, a) \in TextsOf(made)
  BY <1>4 DEF TextsMade, Workload
<1> QED BY <1>3, <1>5, <1>6

LEMMA AnswersInvStep ==
    RunInv /\ FilesInv /\ CardsInv /\ AnswersInv /\ [Next]_vars => AnswersInv'
<1> SUFFICES ASSUME RunInv, FilesInv, CardsInv, AnswersInv, [Next]_vars PROVE AnswersInv'
  OBVIOUS
\* The run that wrote the files is the same.
<1>1. ASSUME origin' = origin
      PROVE  origin'.done /\ ~origin'.conf.UseSubqueryCard => OriginAnswered'
  BY <1>1 DEF AnswersInv, OriginAnswered
<1>2. ASSUME UNCHANGED <<conf, line, ask, prepared, log, made>>,
             pc' = pc \/ (pc # "estimate" /\ pc' # "estimate")
      PROVE  ~conf'.UseSubqueryCard => LogForetold' /\ TextsMade'
  BY <1>2 DEF AnswersInv, LogForetold, TextsMade, Workload
<1>3. CASE Start
  <2>1. Fresh' /\ (pc # "estimate")' /\ origin' = origin
    BY <1>3 DEF Start, RunInv, Fresh, progress, recorded
  <2>2. LogForetold' /\ TextsMade'
    BY <2>1, FreshForetold, PTL
  <2> QED BY <1>1, <2>1, <2>2 DEF AnswersInv
<1>4. CASE ReadSubqueryCard
  <2>1. Fresh' /\ (pc # "estimate")' /\ origin' = origin
    BY <1>4 DEF ReadSubqueryCard, RunInv, Fresh, progress, recorded
  <2>2. LogForetold' /\ TextsMade'
    BY <2>1, FreshForetold, PTL
  <2> QED BY <1>1, <2>1, <2>2 DEF AnswersInv
<1>5. CASE ReadThrows \/ Exit \/ Crash
  <2>1. Fresh' /\ (pc # "estimate")' /\ origin' = origin
    BY <1>5 DEF ReadThrows, Exit, Crash, Ends, Fresh
  <2>2. LogForetold' /\ TextsMade'
    BY <2>1, FreshForetold, PTL
  <2> QED BY <1>1, <2>1, <2>2 DEF AnswersInv
<1>6. CASE \/ BeginQuery \/ EstimateThrows \/ EstimateReplayed \/ EstimateCardinality
           \/ FinishEstimate
  <2>1. /\ conf' = conf /\ origin' = origin
        /\ pc \in {"execute", "estimate"}
        /\ (EstimateThrows \/ EstimateReplayed \/ EstimateCardinality) => Asking
    BY <1>6 DEF BeginQuery, EstimateThrows, EstimateReplayed, EstimateCardinality,
         FinishEstimate, Asking
  <2>2. ReplaysOrigin' => ReplaysOrigin
    BY <2>1 DEF ReplaysOrigin, Replaying
  <2>3. ASSUME Foreseen PROVE LogForetold'
    <3>1. LogForetold
      BY <2>3 DEF AnswersInv, Foreseen
    <3>2. /\ EstimateThrows => ~Answered(conf.work, line, ask + 1)
          /\ EstimateReplayed \/ EstimateCardinality => Answered(conf.work, line, ask + 1)
      BY <2>1, <2>3, AskAnswered
    <3> QED BY <1>6, <3>1, <3>2, LogForetoldStep
  <2>4. ASSUME ~conf.UseSubqueryCard PROVE TextsMade'
    <3>1. LogForetold /\ TextsMade /\ Foreseen
      BY <2>4 DEF AnswersInv, Foreseen
    <3>2. EstimateThrows => ~Answered(conf.work, line, ask + 1)
      BY <2>1, <3>1, AskAnswered
    <3>3. ~EstimateReplayed
      BY <2>4 DEF EstimateReplayed
    <3> QED BY <1>6, <3>1, <3>2, <3>3, TextsMadeStep
  <2> QED BY <1>1, <2>1, <2>2, <2>3, <2>4 DEF AnswersInv, Foreseen
<1>7. CASE EndOfFile \/ OpenResultFile \/ WriteSubquery \/ WriteCard \/ OutputSubqueryTime
  <2>1. /\ UNCHANGED <<conf, line, ask, prepared, log, made, origin>>
        /\ pc # "estimate" /\ pc' \notin {"estimate", "execute"}
    BY <1>7 DEF EndOfFile, OpenResultFile, WriteSubquery, WriteCard, OutputSubqueryTime,
         progress
  <2>2. ~ReplaysOrigin'
    BY <2>1 DEF ReplaysOrigin, Replaying
  <2> QED BY <1>1, <1>2, <2>1, <2>2 DEF AnswersInv
<1>8. CASE OpenSubqueryFile
  <2>1. /\ UNCHANGED <<conf, line, ask, prepared, log, made>>
        /\ pc # "estimate" /\ pc' \notin {"estimate", "execute"}
        /\ origin'.done = FALSE
    BY <1>8 DEF OpenSubqueryFile, progress
  <2>2. ~ReplaysOrigin'
    BY <2>1 DEF ReplaysOrigin, Replaying
  <2> QED BY <1>2, <2>1, <2>2 DEF AnswersInv
<1>9. CASE CloseFiles
  <2>1. /\ UNCHANGED <<conf, line, ask, prepared, log, made>>
        /\ pc = "write" /\ pc' = "time"
        /\ origin' = [origin EXCEPT !.done = TRUE]
    BY <1>9 DEF CloseFiles, progress
  <2>2. ~ReplaysOrigin'
    BY <2>1 DEF ReplaysOrigin, Replaying
  <2>3. PICK o : o = origin'
    OBVIOUS
  <2>4. o.conf = conf /\ o.log = log /\ o.made = made
    <3>1. origin = ThisRun(FALSE)
      BY <2>1 DEF FilesInv
    <3> QED BY <2>1, <2>3, <3>1 DEF ThisRun
  <2>5. ASSUME ~conf.UseSubqueryCard PROVE OriginAnswered'
    <3>1. LogForetold /\ TextsMade
      BY <2>5 DEF AnswersInv
    <3>2. PICK w : w = conf.work
      OBVIOUS
    <3>3. /\ log = [l \in 1..Len(Workloads[w]) |-> Foretold(w, l)]
          /\ \A l \in DOMAIN Workloads[w] : \A a \in DOMAIN Workloads[w][l].asks :
                Reached(w, l, a) => TextAt(w, l, a) \in TextsOf(made)
      BY <2>1, <3>1, <3>2, WriterAnswered
    <3>4. origin'.conf.work = w /\ origin'.log = log /\ origin'.made = made
      BY <2>3, <2>4, <3>2
    <3> QED BY <3>3, <3>4 DEF OriginAnswered
  <2> QED BY <1>2, <2>1, <2>2, <2>3, <2>4, <2>5 DEF AnswersInv
<1>10. CASE UNCHANGED vars
  <2>1. UNCHANGED <<conf, line, ask, prepared, log, made, origin, pc>>
    BY <1>10 DEF vars, progress
  <2>2. ReplaysOrigin' => ReplaysOrigin
    BY <2>1 DEF ReplaysOrigin, Replaying
  <2>3. LogForetold => LogForetold'
    BY <2>1 DEF LogForetold
  <2> QED BY <1>1, <1>2, <2>1, <2>2, <2>3 DEF AnswersInv
<1> QED BY <1>3, <1>4, <1>5, <1>6, <1>7, <1>8, <1>9, <1>10 DEF Next

LEMMA AnswersInvariant == Spec => []AnswersInv
<1>1. Init => AnswersInv
  <2>1. Init => Fresh /\ pc # "estimate" /\ origin.done = FALSE
    BY DEF Init, Fresh
  <2>2. Init => ~Replaying
    BY DEF Init, Replaying
  <2> QED BY <2>1, <2>2, FreshForetold DEF AnswersInv, ReplaysOrigin
<1> QED BY <1>1, AnswersInvStep, RunInvariant, FilesInvariant, CardsInvariant, PTL DEF Spec

(***************************************************************************)
(* A replay of the recorded workload fails on the lines that failed when   *)
(* it was recorded, and on no other: EstimateCardinality finds a card for  *)
(* exactly the subqueries that had statistics.                             *)
(***************************************************************************)
THEOREM ReplayFailsOnSameLines == Spec => []ReplayFailsAlike
<1>1. RunInv /\ AnswersInv => ReplayFailsAlike
  <2> SUFFICES ASSUME RunInv, AnswersInv, ReplaysOrigin PROVE IsPrefix(log, origin.log)
    BY DEF ReplayFailsAlike, ReplaysOrigin, Replaying
  <2>1. PICK w : w = conf.work /\ w = origin.conf.work
    BY DEF ReplaysOrigin
  <2>2. LogForetold /\ OriginAnswered
    BY DEF AnswersInv, ReplaysOrigin
  <2>3. Workloads[w] \in Seq(Main)
    BY <2>1, ConfFacts DEF RunInv, TypeOK
  <2>4. PICK n \in Nat : n = Len(Workloads[w])
    BY <2>3
  <2>5. PICK t : t = origin.log
    OBVIOUS
  <2>6. t = [l \in 1..n |-> Foretold(w, l)]
    BY <2>1, <2>2, <2>4, <2>5 DEF OriginAnswered
  <2>7. PICK s \in Seq({"ok", "failed"}) : s = log
    BY DEF RunInv, TypeOK
  <2>8. PICK m \in Nat : m = Len(s) /\ DOMAIN s = 1..m
    BY <2>7
  <2>9. m <= n
    <3>1. line \in 0..n /\ m \in {line, line - 1}
      BY <2>1, <2>4, <2>7, <2>8 DEF RunInv, TypeOK, Workload
    <3> QED BY <3>1
  <2>10. \A l \in 1..m : s[l] = Foretold(w, l)
    BY <2>1, <2>2, <2>7, <2>8 DEF LogForetold
  <2>11. \A l \in 1..n : Foretold(w, l) \in {"ok", "failed"}
    BY DEF Foretold
  <2>12. t \in Seq({"ok", "failed"}) /\ Len(t) = n
    BY <2>6, <2>11
  <2>13. \A l \in 1..m : s[l] = t[l]
    BY <2>6, <2>9, <2>10
  <2>14. SubSeq(s, 1, m) = SubSeq(t, 1, m)
    BY <2>7, <2>8, <2>9, <2>12, <2>13
  <2> QED BY <2>5, <2>7, <2>8, <2>9, <2>12, <2>14 DEF IsPrefix
<1> QED BY <1>1, RunInvariant, AnswersInvariant, PTL
=============================================================================

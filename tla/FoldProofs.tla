----------------------------- MODULE FoldProofs -----------------------------
(***************************************************************************)
(* Facts about naturals and finite sets that the other proofs rest on:     *)
(* smallest members, minimal sets, and sums and products over a finite set *)
(* as the folds MapThenSumSet and FoldSet compute them.  Every induction   *)
(* is an argument about a smallest counterexample.                         *)
(***************************************************************************)
EXTENDS Ordering, Functions, FiniteSetsExt, FiniteSetTheorems, TLAPS

\* A nonempty set of naturals has a smallest member.
LEMMA LeastNat ==
    ASSUME NEW T \in SUBSET Nat, T # {}
    PROVE  \E x \in T : \A y \in T : x <= y
<1> DEFINE R == OpToRel(<, Nat)
<1>1. \A x, y \in Nat : y < x => <<y, x>> \in R
  BY DEF OpToRel
<1>2. IsWellFoundedOn(R, Nat)
  BY NatLessThanWellFounded
<1> HIDE DEF R
<1>3. \E x \in T : \A y \in T : ~(<<y, x>> \in R)
  BY <1>2, WFMin
<1>4. PICK x \in T : \A y \in T : ~(<<y, x>> \in R)
  BY <1>3
<1>5. \A y \in T : ~(y < x) /\ x \in Nat /\ y \in Nat
  BY <1>1, <1>4
<1>6. \A y \in T : x <= y
  BY <1>5
<1> QED BY <1>6

\* Of some subsets of a finite set one contains no other.
LEMMA MinimalSet ==
    ASSUME NEW S, IsFiniteSet(S), NEW Bad \in SUBSET (SUBSET S), Bad # {}
    PROVE  \E T \in Bad : \A U \in SUBSET T : U # T => U \notin Bad
<1>1. IsWellFoundedOn(StrictSubsetOrdering(S), FiniteSubsetsOf(S))
  BY FS_StrictSubsetOrderingWellFounded
<1>2. FiniteSubsetsOf(S) = SUBSET S
  BY FS_FiniteSubsetsOfFinite
<1>3. PICK T \in Bad : \A U \in Bad : ~(<<U, T>> \in StrictSubsetOrdering(S))
  BY <1>1, <1>2, WFMin
<1>4. ASSUME NEW U \in SUBSET T, U # T, U \in Bad PROVE FALSE
  <2>1. <<U, T>> \in StrictSubsetOrdering(S)
    BY <1>4 DEF StrictSubsetOrdering
  <2> QED BY <1>3, <1>4, <2>1
<1> QED BY <1>4

\* The number of members below a member tells the members apart.
LEMMA BelowCounts ==
    ASSUME NEW K \in SUBSET Nat, IsFiniteSet(K), NEW a \in K, NEW b \in K,
           Cardinality({l \in K : l < a}) = Cardinality({l \in K : l < b})
    PROVE  a = b
<1>1. ASSUME NEW x \in K, NEW y \in K, x < y,
             Cardinality({l \in K : l < x}) = Cardinality({l \in K : l < y})
      PROVE  FALSE
  <2>1. {l \in K : l < x} \in SUBSET {l \in K : l < y}
    <3>1. ASSUME NEW l \in K, l < x PROVE l < y
      <4>1. l \in Nat /\ x \in Nat /\ y \in Nat
        OBVIOUS
      <4> QED BY <1>1, <3>1, <4>1
    <3> QED BY <3>1
  <2>2. IsFiniteSet({l \in K : l < y})
    BY FS_Subset
  <2>3. {l \in K : l < x} = {l \in K : l < y}
    BY <1>1, <2>1, <2>2, FS_Subset
  <2> QED BY <1>1, <2>3
<1>2. a < b \/ b < a \/ a = b
  OBVIOUS
<1> QED BY <1>1, <1>2

(***************************************************************************)
(* Ascending lists every number once.                                      *)
(***************************************************************************)
LEMMA AscendingEnumerates ==
    ASSUME NEW K \in SUBSET Nat, IsFiniteSet(K)
    PROVE  /\ Cardinality(K) \in Nat
           /\ Ascending(K) \in [1..Cardinality(K) -> K]
           /\ IsInjective(Ascending(K))
           /\ Range(Ascending(K)) = K
<1>1. PICK n \in Nat : n = Cardinality(K)
  BY FS_CardinalityType
<1>2. PICK rank : rank = [k \in K |-> Cardinality({l \in K : l < k}) + 1]
  OBVIOUS
<1>3. ASSUME NEW k \in K PROVE rank[k] \in 1..n
  <2>1. {l \in K : l < k} \in SUBSET (K \ {k})
    OBVIOUS
  <2>2. IsFiniteSet(K \ {k}) /\ Cardinality(K \ {k}) = n - 1
    BY <1>1, FS_RemoveElement
  <2>3. /\ IsFiniteSet({l \in K : l < k})
        /\ Cardinality({l \in K : l < k}) <= n - 1
    BY <2>1, <2>2, FS_Subset
  <2>4. Cardinality({l \in K : l < k}) \in Nat
    BY <2>3, FS_CardinalityType
  <2> QED BY <1>1, <1>2, <2>3, <2>4
<1>4. \A a, b \in K : rank[a] = rank[b] => a = b
  <2> SUFFICES ASSUME NEW a \in K, NEW b \in K, rank[a] = rank[b] PROVE a = b
    OBVIOUS
  <2>1. IsFiniteSet({l \in K : l < a}) /\ IsFiniteSet({l \in K : l < b})
    BY FS_Subset
  <2>2. /\ Cardinality({l \in K : l < a}) \in Nat
        /\ Cardinality({l \in K : l < b}) \in Nat
    BY <2>1, FS_CardinalityType
  <2>3. Cardinality({l \in K : l < a}) = Cardinality({l \in K : l < b})
    BY <1>2, <2>2
  <2> QED BY <2>3, BelowCounts
<1>5. rank \in Injection(K, 1..n)
  BY <1>2, <1>3, <1>4 DEF Injection, IsInjective
<1>6. IsFiniteSet(1..n) /\ Cardinality(1..n) = n
  BY <1>1, FS_Interval
<1>7. rank \in Surjection(K, 1..n)
  BY <1>1, <1>5, <1>6, FS_Injection
<1>8. PICK s : s = Ascending(K)
  OBVIOUS
<1> DEFINE nth(i) == CHOOSE k \in K : Cardinality({l \in K : l < k}) = i - 1
<1>9. s = [i \in 1..n |-> nth(i)]
  BY <1>1, <1>8 DEF Ascending
<1>10. ASSUME NEW i \in 1..n PROVE s[i] \in K /\ rank[s[i]] = i
  <2>1. PICK k \in K : rank[k] = i
    BY <1>7 DEF Surjection
  <2>2. IsFiniteSet({l \in K : l < k})
    BY FS_Subset
  <2>3. Cardinality({l \in K : l < k}) \in Nat
    BY <2>2, FS_CardinalityType
  <2>4. Cardinality({l \in K : l < k}) = i - 1
    BY <1>2, <2>1, <2>3
  <2>5. nth(i) \in K /\ Cardinality({l \in K : l < nth(i)}) = i - 1
    BY <2>4
  <2> HIDE DEF nth
  <2>6. s[i] = nth(i)
    BY <1>9
  <2> QED BY <1>2, <2>5, <2>6
<1> HIDE DEF nth
<1>11. s \in [1..n -> K]
  BY <1>9, <1>10
<1>12. IsInjective(s)
  BY <1>9, <1>10 DEF IsInjective
<1>13. Range(s) = K
  <2>1. \A k \in K : s[rank[k]] = k
    BY <1>3, <1>4, <1>10
  <2>2. DOMAIN s = 1..n /\ \A i \in 1..n : s[i] \in K
    BY <1>11
  <2>3. \A k \in K : \E i \in 1..n : s[i] = k
    BY <1>3, <2>1
  <2> QED BY <2>2, <2>3 DEF Range
<1> QED BY <1>1, <1>8, <1>11, <1>12, <1>13

\* A set of indices of a sequence.
LEMMA IndicesFinite ==
    ASSUME NEW n \in Nat, NEW K \in SUBSET (1..n)
    PROVE  K \in SUBSET Nat /\ IsFiniteSet(K)
<1>1. IsFiniteSet(1..n)
  BY FS_Interval
<1>2. IsFiniteSet(K)
  BY <1>1, FS_Subset
<1> QED BY <1>2
-----------------------------------------------------------------------------
\* The member the folds take first.
Pick(s) == CHOOSE x \in s : TRUE

LEMMA PickIn ==
    ASSUME NEW s, s # {}
    PROVE  Pick(s) \in s
BY DEF Pick
-----------------------------------------------------------------------------
(***************************************************************************)
(* A recursive function on X exists: f[x] is B[x] where the recursion      *)
(* stops, and G[x] of f[prev[x]], of smaller rank, elsewhere.              *)
(***************************************************************************)
Recurses(X, Stop, rank, prev) ==
    /\ Stop \in SUBSET X
    /\ \A x \in X : rank[x] \in Nat
    /\ \A x \in X \ Stop : prev[x] \in X /\ rank[prev[x]] < rank[x]

IsRec(f, X, Stop, prev, D, B, G) ==
    /\ f \in [X -> D]
    /\ \A x \in X : f[x] = IF x \in Stop THEN B[x] ELSE G[x][f[prev[x]]]

\* What the recursion steps keep holds everywhere.
LEMMA RecInduction ==
    ASSUME NEW X, NEW Stop, NEW rank, NEW prev, Recurses(X, Stop, rank, prev),
           NEW Good, Stop \in SUBSET Good,
           \A x \in X \ Stop : prev[x] \in Good => x \in Good
    PROVE  \A x \in X : x \in Good
<1> DEFINE Bad == {n \in Nat : \E x \in X : rank[x] = n /\ x \notin Good}
<1>1. ASSUME Bad # {} PROVE FALSE
  <2>1. PICK n \in Bad : \A m \in Bad : n <= m
    <3>1. Bad \in SUBSET Nat
      OBVIOUS
    <3> HIDE DEF Bad
    <3> QED BY <1>1, <3>1, LeastNat
  <2>2. PICK x \in X : rank[x] = n /\ x \notin Good
    OBVIOUS
  <2>3. x \in X \ Stop
    BY <2>2
  <2>4. /\ prev[x] \in X /\ rank[prev[x]] \in Nat /\ n \in Nat
        /\ rank[prev[x]] < n
    BY <2>2, <2>3 DEF Recurses
  <2>5. ~(n <= rank[prev[x]])
    BY <2>4
  <2>6. rank[prev[x]] \notin Bad
    <3> HIDE DEF Bad
    <3> QED BY <2>1, <2>5
  <2>7. prev[x] \in Good
    BY <2>4, <2>6
  <2> QED BY <2>2, <2>3, <2>7
<1>2. \A x \in X : rank[x] \in Nat
  BY DEF Recurses
<1> QED BY <1>1, <1>2

LEMMA RecDefined ==
    ASSUME NEW X, NEW Stop, NEW rank, NEW prev, Recurses(X, Stop, rank, prev),
           NEW D, NEW B, \A x \in Stop : B[x] \in D,
           NEW G, \A x \in X \ Stop : \A a \in D : G[x][a] \in D
    PROVE  \E f : IsRec(f, X, Stop, prev, D, B, G)
<1> DEFINE Body(f, x) == IF x \in Stop THEN B[x] ELSE G[x][f[prev[x]]]
           UpTo(n) == {x \in X : rank[x] < n}
           Solves(n, f) == /\ f \in [UpTo(n) -> D]
                           /\ \A x \in UpTo(n) : f[x] = Body(f, x)
           Bad == {n \in Nat : ~\E f : Solves(n, f)}
<1>1. \A x \in X : rank[x] \in Nat
  BY DEF Recurses
<1>2. \A x \in X \ Stop : prev[x] \in X /\ rank[prev[x]] < rank[x]
  BY DEF Recurses
<1>3. ASSUME Bad # {} PROVE FALSE
  <2>1. PICK n \in Bad : \A m \in Bad : n <= m
    <3>1. Bad \in SUBSET Nat
      OBVIOUS
    <3> HIDE DEF Bad
    <3> QED BY <1>3, <3>1, LeastNat
  <2>2. n \in Nat /\ ~\E f : Solves(n, f)
    OBVIOUS
  <2>3. CASE n = 0
    <3>1. \A x \in X : ~(rank[x] < 0)
      BY <1>1
    <3>2. UpTo(0) = {}
      BY <3>1
    <3>3. PICK f : f = [x \in {} |-> B[x]]
      OBVIOUS
    <3>4. Solves(0, f)
      BY <3>2, <3>3
    <3> QED BY <2>2, <2>3, <3>4
  <2>4. CASE n # 0
    <3>1. PICK m \in Nat : n = m + 1 /\ ~(n <= m)
      <4>1. n - 1 \in Nat /\ n = (n - 1) + 1 /\ ~(n <= n - 1)
        BY <2>2, <2>4
      <4> QED BY <4>1
    <3>2. m \notin Bad
      <4> HIDE DEF Bad
      <4> QED BY <2>1, <3>1
    <3>3. PICK old : Solves(m, old)
      BY <3>2
    <3>4. PICK f : f = [x \in UpTo(n) |-> IF x \in UpTo(m) THEN old[x] ELSE Body(old, x)]
      OBVIOUS
    <3>5. ASSUME NEW x \in UpTo(n), x \notin Stop
          PROVE  /\ prev[x] \in UpTo(m) /\ prev[x] \in UpTo(n)
                 /\ f[prev[x]] = old[prev[x]] /\ old[prev[x]] \in D
      <4>1. x \in X /\ x \in X \ Stop /\ rank[x] < m + 1 /\ rank[x] \in Nat
        BY <1>1, <3>1, <3>5
      <4>2. prev[x] \in X /\ rank[prev[x]] < rank[x] /\ rank[prev[x]] \in Nat
        BY <1>1, <1>2, <4>1
      <4>3. rank[prev[x]] < m /\ rank[prev[x]] < n
        BY <3>1, <4>1, <4>2
      <4>4. prev[x] \in UpTo(m) /\ prev[x] \in UpTo(n)
        BY <4>2, <4>3
      <4> QED BY <3>3, <3>4, <4>4
    <3>6. ASSUME NEW x \in UpTo(n) PROVE f[x] \in D /\ f[x] = Body(f, x)
      <4>1. x \in X
        OBVIOUS
      <4>2. Body(f, x) = Body(old, x) /\ Body(old, x) \in D
        <5>1. CASE x \in Stop
          BY <5>1
        <5>2. CASE x \notin Stop
          BY <3>5, <4>1, <5>2
        <5> QED BY <5>1, <5>2
      <4>3. x \in UpTo(m) => old[x] = Body(old, x)
        BY <3>3
      <4> HIDE DEF Body, UpTo
      <4> QED BY <3>4, <4>2, <4>3
    <3>7. f \in [UpTo(n) -> D]
      <4> HIDE DEF UpTo, Body
      <4>1. f = [x \in UpTo(n) |-> f[x]]
        BY <3>4
      <4> QED BY <3>6, <4>1
    <3>8. Solves(n, f)
      BY <3>6, <3>7
    <3> QED BY <2>2, <3>8
  <2> QED BY <2>3, <2>4
<1>4. \A n \in Nat : \E f : Solves(n, f)
  <2> SUFFICES ASSUME NEW n \in Nat PROVE \E f : Solves(n, f)
    OBVIOUS
  <2>1. n \notin Bad
    <3> HIDE DEF Bad
    <3> QED BY <1>3
  <2> QED BY <2>1
<1>5. PICK h : h = [n \in Nat |-> CHOOSE f : Solves(n, f)]
  OBVIOUS
<1>6. \A n \in Nat : Solves(n, h[n])
  <2> HIDE DEF Solves
  <2> QED BY <1>4, <1>5
\* Two approximations agree where both are defined.
<1>7. ASSUME NEW n \in Nat, NEW m \in Nat
      PROVE  \A x \in X : rank[x] < n /\ rank[x] < m => h[n][x] = h[m][x]
  <2>1. Solves(n, h[n]) /\ Solves(m, h[m])
    BY <1>6
  <2> DEFINE Good == {x \in X : rank[x] < n /\ rank[x] < m => h[n][x] = h[m][x]}
  <2>2. Stop \in SUBSET Good
    <3>1. \A x \in Stop : x \in X
      BY DEF Recurses
    <3>2. ASSUME NEW x \in Stop, rank[x] < n, rank[x] < m PROVE h[n][x] = h[m][x]
      <4>1. x \in UpTo(n) /\ x \in UpTo(m)
        BY <3>1, <3>2
      <4> QED BY <2>1, <4>1
    <3> QED BY <3>1, <3>2
  <2>3. \A x \in X \ Stop : prev[x] \in Good => x \in Good
    <3> SUFFICES ASSUME NEW x \in X \ Stop, prev[x] \in Good, rank[x] < n, rank[x] < m
                 PROVE  h[n][x] = h[m][x]
      OBVIOUS
    <3>1. x \in UpTo(n) /\ x \in UpTo(m)
      OBVIOUS
    <3>2. /\ prev[x] \in X /\ rank[prev[x]] < rank[x] /\ rank[prev[x]] \in Nat
          /\ rank[x] \in Nat
      BY <1>1, <1>2
    <3>3. rank[prev[x]] < n /\ rank[prev[x]] < m
      BY <3>2
    <3>4. h[n][prev[x]] = h[m][prev[x]]
      BY <3>3
    <3> QED BY <2>1, <3>1, <3>4
  <2> HIDE DEF Good
  <2>4. \A x \in X : x \in Good
    BY <2>2, <2>3, RecInduction
  <2> QED BY <2>4 DEF Good
<1>8. PICK f : f = [x \in X |-> h[rank[x] + 1][x]]
  OBVIOUS
<1>9. ASSUME NEW x \in X PROVE f[x] \in D /\ f[x] = Body(f, x)
  <2>1. rank[x] + 1 \in Nat /\ rank[x] < rank[x] + 1 /\ x \in UpTo(rank[x] + 1)
    BY <1>1
  <2>2. Solves(rank[x] + 1, h[rank[x] + 1])
    BY <1>6, <2>1
  <2>3. f[x] \in D /\ f[x] = Body(h[rank[x] + 1], x)
    <3>1. h[rank[x] + 1][x] \in D /\ h[rank[x] + 1][x] = Body(h[rank[x] + 1], x)
      BY <2>1, <2>2
    <3> HIDE DEF Body
    <3> QED BY <1>8, <3>1
  <2>4. ASSUME x \notin Stop PROVE f[prev[x]] = h[rank[x] + 1][prev[x]]
    <3>1. /\ prev[x] \in X /\ rank[prev[x]] < rank[x] /\ rank[prev[x]] \in Nat
          /\ rank[x] \in Nat
      BY <1>1, <1>2, <2>4
    <3>2. /\ rank[prev[x]] < rank[x] + 1 /\ rank[prev[x]] < rank[prev[x]] + 1
          /\ rank[prev[x]] + 1 \in Nat
      BY <3>1
    <3>3. h[rank[prev[x]] + 1][prev[x]] = h[rank[x] + 1][prev[x]]
      BY <1>7, <2>1, <3>1, <3>2
    <3> QED BY <1>8, <3>1, <3>3
  <2> QED BY <2>3, <2>4
<1>10. f = [x \in X |-> f[x]]
  BY <1>8
<1>11. f \in [X -> D]
  BY <1>9, <1>10
<1> QED BY <1>9, <1>11 DEF IsRec
-----------------------------------------------------------------------------
(***************************************************************************)
(* Folds over a finite set are recursive functions on its subsets; pick[s] *)
(* is the member of s that is taken first.                                 *)
(***************************************************************************)
Picks(pick, S) == \A s \in SUBSET S : s # {} => pick[s] \in s

IsFold(iter, S, pick, D, base, G) ==
    /\ iter \in [SUBSET S -> D]
    /\ \A s \in SUBSET S :
          iter[s] = IF s = {} THEN base ELSE G[pick[s]][iter[s \ {pick[s]}]]

LEMMA FoldRecurses ==
    ASSUME NEW S, IsFiniteSet(S), NEW pick, Picks(pick, S)
    PROVE  Recurses(SUBSET S, {{}}, [s \in SUBSET S |-> Cardinality(s)],
                    [s \in SUBSET S |-> s \ {pick[s]}])
<1>1. PICK rank, prev : /\ rank = [s \in SUBSET S |-> Cardinality(s)]
                        /\ prev = [s \in SUBSET S |-> s \ {pick[s]}]
  OBVIOUS
<1>2. \A s \in SUBSET S : IsFiniteSet(s) /\ rank[s] \in Nat
  BY <1>1, FS_Subset, FS_CardinalityType
<1>3. ASSUME NEW s \in (SUBSET S) \ {{}}
      PROVE  prev[s] \in SUBSET S /\ rank[prev[s]] < rank[s]
  <2>1. pick[s] \in s /\ prev[s] = s \ {pick[s]} /\ prev[s] \in SUBSET S
    BY <1>1 DEF Picks
  <2>2. Cardinality(s \ {pick[s]}) = Cardinality(s) - 1
    BY <1>2, <2>1, FS_RemoveElement
  <2>3. rank[prev[s]] = rank[s] - 1 /\ rank[s] \in Nat
    BY <1>1, <1>2, <2>1, <2>2
  <2> QED BY <2>1, <2>3
<1>4. {{}} \in SUBSET (SUBSET S)
  OBVIOUS
<1>5. Recurses(SUBSET S, {{}}, rank, prev)
  BY <1>2, <1>3, <1>4 DEF Recurses
<1> QED BY <1>1, <1>5

LEMMA FoldDefined ==
    ASSUME NEW S, IsFiniteSet(S), NEW pick, Picks(pick, S),
           NEW D, NEW base \in D, NEW G, \A x \in S : \A a \in D : G[x][a] \in D
    PROVE  \E iter : IsFold(iter, S, pick, D, base, G)
<1>1. PICK X, rank, prev : /\ X = SUBSET S
                           /\ rank = [s \in SUBSET S |-> Cardinality(s)]
                           /\ prev = [s \in SUBSET S |-> s \ {pick[s]}]
  OBVIOUS
<1>2. Recurses(X, {{}}, rank, prev)
  BY <1>1, FoldRecurses
<1>3. PICK B, H : B = [s \in {{}} |-> base] /\ H = [s \in X |-> G[pick[s]]]
  OBVIOUS
<1>4. \A s \in {{}} : B[s] \in D
  BY <1>3
<1>5. \A s \in X \ {{}} : \A a \in D : H[s][a] \in D
  BY <1>1, <1>3 DEF Picks
<1>6. PICK f : IsRec(f, X, {{}}, prev, D, B, H)
  BY <1>2, <1>4, <1>5, RecDefined
<1>7. ASSUME NEW s \in SUBSET S
      PROVE  f[s] = IF s = {} THEN base ELSE G[pick[s]][f[s \ {pick[s]}]]
  <2>1. f[s] = IF s \in {{}} THEN B[s] ELSE H[s][f[prev[s]]]
    BY <1>1, <1>6 DEF IsRec
  <2>2. H[s] = G[pick[s]] /\ prev[s] = s \ {pick[s]} /\ B[{}] = base
    BY <1>1, <1>3
  <2> QED BY <2>1, <2>2
<1>8. f \in [SUBSET S -> D]
  BY <1>1, <1>6 DEF IsRec
<1> QED BY <1>7, <1>8 DEF IsFold

\* What taking one more member keeps holds of the whole set.
LEMMA FoldInduction ==
    ASSUME NEW S, IsFiniteSet(S), NEW pick, Picks(pick, S),
           NEW Good, {} \in Good,
           \A s \in SUBSET S : s # {} /\ s \ {pick[s]} \in Good => s \in Good
    PROVE  \A s \in SUBSET S : s \in Good
<1>1. PICK X, rank, prev : /\ X = SUBSET S
                           /\ rank = [s \in SUBSET S |-> Cardinality(s)]
                           /\ prev = [s \in SUBSET S |-> s \ {pick[s]}]
  OBVIOUS
<1>2. Recurses(X, {{}}, rank, prev)
  BY <1>1, FoldRecurses
<1>3. PICK Stop : Stop = {{}}
  OBVIOUS
<1>4. Stop \in SUBSET Good /\ \A s \in X \ Stop : prev[s] \in Good => s \in Good
  BY <1>1, <1>3
<1>5. Recurses(X, Stop, rank, prev)
  BY <1>2, <1>3
<1>6. \A s \in X : s \in Good
  BY ONLY <1>4, <1>5, RecInduction
<1> QED BY <1>1, <1>6

\* The chooser of FoldSet and MapThenSumSet.
AnyOf(S) == [s \in SUBSET S |-> Pick(s)]

LEMMA AnyOfPicks ==
    ASSUME NEW S
    PROVE  Picks(AnyOf(S), S) /\ \A s \in SUBSET S : AnyOf(S)[s] = Pick(s)
BY PickIn DEF Picks, AnyOf
-----------------------------------------------------------------------------
(***************************************************************************)
(* Sums of a function over a finite set.                                   *)
(***************************************************************************)
SumOf(f, S) == MapThenSumSet(LAMBDA x : f[x], S)

SumBody(f, S, iter) ==
    [s \in SUBSET S |-> IF s = {} THEN 0 ELSE f[Pick(s)] + iter[s \ {Pick(s)}]]

SumIter(f, S) == CHOOSE iter : iter = SumBody(f, S, iter)

LEMMA SumUnfold ==
    ASSUME NEW f, NEW S
    PROVE  SumOf(f, S) = SumIter(f, S)[S]
BY DEF SumOf, MapThenSumSet, MapThenFoldSet, Pick, SumIter, SumBody

\* A sum depends only on the values that are summed.
LEMMA SumExtensional ==
    ASSUME NEW f, NEW g, NEW S, \A x \in S : f[x] = g[x]
    PROVE  SumOf(f, S) = SumOf(g, S)
<1>1. \A s \in SUBSET S : s # {} => f[Pick(s)] = g[Pick(s)]
  BY PickIn
<1>2. \A iter : SumBody(f, S, iter) = SumBody(g, S, iter)
  BY <1>1 DEF SumBody
<1>3. SumIter(f, S) = SumIter(g, S)
  BY <1>2 DEF SumIter
<1> QED BY <1>3, SumUnfold

LEMMA SumIterFacts ==
    ASSUME NEW S, IsFiniteSet(S), NEW f, \A x \in S : f[x] \in Nat
    PROVE  /\ SumIter(f, S) = SumBody(f, S, SumIter(f, S))
           /\ \A s \in SUBSET S : SumIter(f, S)[s] \in Nat
<1>1. PICK G : G = [x \in S |-> [a \in Nat |-> f[x] + a]]
  OBVIOUS
<1>2. G \in [S -> [Nat -> Nat]]
  BY <1>1
<1>3. PICK i0 \in [SUBSET S -> Nat] : \A s \in SUBSET S :
         i0[s] = IF s = {} THEN 0 ELSE G[Pick(s)][i0[s \ {Pick(s)}]]
  <2>1. \A x \in S : \A a \in Nat : G[x][a] \in Nat
    BY <1>2
  <2>2. PICK i0 : IsFold(i0, S, AnyOf(S), Nat, 0, G)
    BY <2>1, AnyOfPicks, FoldDefined
  <2>3. \A s \in SUBSET S : AnyOf(S)[s] = Pick(s)
    BY AnyOfPicks
  <2>4. i0 \in [SUBSET S -> Nat] /\ \A s \in SUBSET S :
           i0[s] = IF s = {} THEN 0 ELSE G[AnyOf(S)[s]][i0[s \ {AnyOf(S)[s]}]]
    BY <2>2 DEF IsFold
  <2>5. \A s \in SUBSET S : i0[s] = IF s = {} THEN 0 ELSE G[Pick(s)][i0[s \ {Pick(s)}]]
    BY <2>3, <2>4
  <2> QED BY <2>4, <2>5
<1>4. ASSUME NEW s \in SUBSET S, s # {}
      PROVE  /\ Pick(s) \in S /\ s \ {Pick(s)} \in SUBSET S
             /\ s \ {Pick(s)} \in SUBSET s /\ s \ {Pick(s)} # s
             /\ f[Pick(s)] \in Nat
  BY <1>4, PickIn
<1>5. ASSUME NEW s \in SUBSET S
      PROVE  i0[s] = IF s = {} THEN 0 ELSE f[Pick(s)] + i0[s \ {Pick(s)}]
  <2>1. CASE s = {}
    BY <1>3, <2>1
  <2>2. CASE s # {}
    <3>1. i0[s] = G[Pick(s)][i0[s \ {Pick(s)}]] /\ i0[s \ {Pick(s)}] \in Nat
      BY <1>3, <1>4, <2>2
    <3> QED BY <1>1, <1>4, <2>2, <3>1
  <2> QED BY <2>1, <2>2
<1>6. i0 = SumBody(f, S, i0)
  BY <1>5 DEF SumBody
<1>7. SumIter(f, S) = SumBody(f, S, SumIter(f, S))
  BY <1>6 DEF SumIter
<1>8. PICK I : I = SumIter(f, S)
  OBVIOUS
<1>9. \A s \in SUBSET S : I[s] = IF s = {} THEN 0 ELSE f[Pick(s)] + I[s \ {Pick(s)}]
  <2>1. I = SumBody(f, S, I)
    BY <1>7, <1>8
  <2> QED BY <2>1 DEF SumBody
<1> DEFINE Bad == {s \in SUBSET S : I[s] \notin Nat}
<1>10. ASSUME Bad # {} PROVE FALSE
  <2>1. PICK T \in Bad : \A U \in SUBSET T : U # T => U \notin Bad
    <3>1. Bad \in SUBSET (SUBSET S)
      OBVIOUS
    <3> HIDE DEF Bad
    <3> QED BY <1>10, <3>1, MinimalSet
  <2>2. T \in SUBSET S /\ I[T] \notin Nat
    OBVIOUS
  <2>3. T # {}
    <3>1. I[{}] = 0
      BY <1>9
    <3>2. 0 \in Nat
      OBVIOUS
    <3> HIDE DEF Bad
    <3> QED BY <2>2, <3>1, <3>2, Zenon
  <2>4. I[T \ {Pick(T)}] \in Nat
    BY <1>4, <2>1, <2>2, <2>3
  <2> QED BY <1>4, <1>9, <2>2, <2>3, <2>4
<1> QED BY <1>7, <1>8, <1>10

(***************************************************************************)
(* The sum over a part does not depend on the whole.                       *)
(***************************************************************************)
LEMMA SumOfPart ==
    ASSUME NEW S, IsFiniteSet(S), NEW f, \A x \in S : f[x] \in Nat,
           NEW T \in SUBSET S
    PROVE  SumOf(f, T) = SumIter(f, S)[T]
<1>1. IsFiniteSet(T) /\ \A x \in T : f[x] \in Nat
  BY FS_Subset
<1>2. PICK I, J : I = SumIter(f, S) /\ J = SumIter(f, T)
  OBVIOUS
<1>3. \A s \in SUBSET S : I[s] = IF s = {} THEN 0 ELSE f[Pick(s)] + I[s \ {Pick(s)}]
  <2>1. I = SumBody(f, S, I)
    BY <1>2, SumIterFacts
  <2> QED BY <2>1 DEF SumBody
<1>4. \A s \in SUBSET T : J[s] = IF s = {} THEN 0 ELSE f[Pick(s)] + J[s \ {Pick(s)}]
  <2>1. J = SumBody(f, T, J)
    BY <1>1, <1>2, SumIterFacts
  <2> QED BY <2>1 DEF SumBody
<1> DEFINE Bad == {s \in SUBSET T : I[s] # J[s]}
<1>5. ASSUME Bad # {} PROVE FALSE
  <2>1. PICK U \in Bad : \A V \in SUBSET U : V # U => V \notin Bad
    <3>1. Bad \in SUBSET (SUBSET T)
      OBVIOUS
    <3> HIDE DEF Bad
    <3> QED BY <1>1, <1>5, <3>1, MinimalSet
  <2>2. U \in SUBSET T /\ U \in SUBSET S /\ I[U] # J[U]
    OBVIOUS
  <2>3. U # {}
    BY <1>3, <1>4, <2>2
  <2>4. /\ U \ {Pick(U)} \in SUBSET U /\ U \ {Pick(U)} # U
        /\ U \ {Pick(U)} \in SUBSET T
    BY <2>2, <2>3, PickIn
  <2>5. I[U \ {Pick(U)}] = J[U \ {Pick(U)}]
    BY <2>1, <2>4
  <2> QED BY <1>3, <1>4, <2>2, <2>3, <2>5
<1>6. I[T] = J[T]
  BY <1>5
<1> QED BY <1>2, <1>6, SumUnfold

LEMMA SumNat ==
    ASSUME NEW S, IsFiniteSet(S), NEW f, \A x \in S : f[x] \in Nat
    PROVE  SumOf(f, S) \in Nat
BY SumUnfold, SumIterFacts

LEMMA SumEmpty ==
    ASSUME NEW f
    PROVE  SumOf(f, {}) = 0
<1>1. IsFiniteSet({}) /\ \A x \in {} : f[x] \in Nat
  BY FS_EmptySet
<1>2. PICK I : I = SumIter(f, {})
  OBVIOUS
<1>3. I = SumBody(f, {}, I)
  BY <1>1, <1>2, SumIterFacts
<1>4. I[{}] = 0
  BY <1>3 DEF SumBody
<1> QED BY <1>2, <1>4, SumUnfold

\* The recursion takes the member Pick chooses.
LEMMA SumPicked ==
    ASSUME NEW S, IsFiniteSet(S), NEW f, \A x \in S : f[x] \in Nat, S # {}
    PROVE  SumOf(f, S) = f[Pick(S)] + SumOf(f, S \ {Pick(S)})
<1>1. PICK I : I = SumIter(f, S)
  OBVIOUS
<1>2. I = SumBody(f, S, I)
  BY <1>1, SumIterFacts
<1>3. I[S] = f[Pick(S)] + I[S \ {Pick(S)}]
  BY <1>2 DEF SumBody
<1>4. S \in SUBSET S /\ S \ {Pick(S)} \in SUBSET S
  OBVIOUS
<1> QED BY <1>1, <1>3, <1>4, SumOfPart

(***************************************************************************)
(* Any member can be taken out of a sum.                                   *)
(***************************************************************************)
LEMMA SumRemove ==
    ASSUME NEW S, IsFiniteSet(S), NEW f, \A x \in S : f[x] \in Nat, NEW a \in S
    PROVE  SumOf(f, S) = f[a] + SumOf(f, S \ {a})
<1> DEFINE Bad == {T \in SUBSET S : \E x \in T :
                      SumOf(f, T) # f[x] + SumOf(f, T \ {x})}
<1>1. ASSUME Bad # {} PROVE FALSE
  <2>1. PICK T \in Bad : \A U \in SUBSET T : U # T => U \notin Bad
    <3>1. Bad \in SUBSET (SUBSET S)
      OBVIOUS
    <3> HIDE DEF Bad
    <3> QED BY <1>1, <3>1, MinimalSet
  <2>2. T \in SUBSET S
    OBVIOUS
  <2>3. PICK x \in T : SumOf(f, T) # f[x] + SumOf(f, T \ {x})
    OBVIOUS
  <2>4. PICK y \in T : y = Pick(T)
    BY <2>3, PickIn
  <2>5. /\ IsFiniteSet(T) /\ IsFiniteSet(T \ {x}) /\ IsFiniteSet(T \ {y})
        /\ IsFiniteSet((T \ {y}) \ {x})
    BY <2>2, FS_Subset
  <2>6. \A z \in T : f[z] \in Nat
    BY <2>2
  <2>7. SumOf(f, T) = f[y] + SumOf(f, T \ {y})
    BY <2>3, <2>4, <2>5, <2>6, SumPicked
  <2>8. x # y
    BY <2>3, <2>7
  <2>9. SumOf(f, T \ {y}) = f[x] + SumOf(f, (T \ {y}) \ {x})
    <3>1. T \ {y} \in SUBSET T /\ T \ {y} # T /\ T \ {y} \in SUBSET S /\ x \in T \ {y}
      BY <2>2, <2>8
    <3>2. T \ {y} \notin Bad
      BY <2>1, <3>1
    <3> QED BY <3>1, <3>2
  <2>10. SumOf(f, T \ {x}) = f[y] + SumOf(f, (T \ {x}) \ {y})
    <3>1. T \ {x} \in SUBSET T /\ T \ {x} # T /\ T \ {x} \in SUBSET S /\ y \in T \ {x}
      BY <2>2, <2>8
    <3>2. T \ {x} \notin Bad
      BY <2>1, <3>1
    <3> QED BY <3>1, <3>2
  <2>11. (T \ {x}) \ {y} = (T \ {y}) \ {x}
    OBVIOUS
  <2>12. PICK r \in Nat : r = SumOf(f, (T \ {y}) \ {x})
    BY <2>5, <2>6, SumNat
  <2>13. f[x] \in Nat /\ f[y] \in Nat
    BY <2>6
  <2>14. SumOf(f, T) = f[y] + (f[x] + r) /\ SumOf(f, T \ {x}) = f[y] + r
    BY <2>7, <2>9, <2>10, <2>11, <2>12
  <2>15. f[y] + (f[x] + r) = f[x] + (f[y] + r)
    BY <2>13
  <2> QED BY <2>3, <2>14, <2>15
<1>2. S \notin Bad
  BY <1>1
<1> QED BY <1>2

LEMMA SumZero ==
    ASSUME NEW S, IsFiniteSet(S), NEW f, \A x \in S : f[x] = 0
    PROVE  SumOf(f, S) = 0
<1> DEFINE Bad == {T \in SUBSET S : SumOf(f, T) # 0}
<1>1. ASSUME Bad # {} PROVE FALSE
  <2>1. PICK T \in Bad : \A U \in SUBSET T : U # T => U \notin Bad
    <3>1. Bad \in SUBSET (SUBSET S)
      OBVIOUS
    <3> HIDE DEF Bad
    <3> QED BY <1>1, <3>1, MinimalSet
  <2>2. T \in SUBSET S /\ SumOf(f, T) # 0
    OBVIOUS
  <2>3. T # {}
    BY <2>2, SumEmpty
  <2>4. PICK y \in T : y = Pick(T)
    BY <2>3, PickIn
  <2>5. IsFiniteSet(T) /\ \A x \in T : f[x] \in Nat /\ f[x] = 0
    BY <2>2, FS_Subset
  <2>6. SumOf(f, T \ {y}) = 0
    BY <2>1, <2>2, <2>4
  <2>7. SumOf(f, T) = f[y] + SumOf(f, T \ {y})
    BY <2>5, SumRemove
  <2> QED BY <2>2, <2>5, <2>6, <2>7
<1>2. S \notin Bad
  BY <1>1
<1> QED BY <1>2

(***************************************************************************)
(* Grouping: a sum over V of values that depend on h is the sum over the   *)
(* values m of h, each as often as it occurs; members whose value is not   *)
(* in C contribute nothing.                                                *)
(***************************************************************************)
LEMMA SumGrouped ==
    ASSUME NEW V, IsFiniteSet(V), NEW C, IsFiniteSet(C), NEW h, NEW g, NEW w,
           \A m \in C : g[m] \in Nat,
           \A v \in V : w[v] = IF h[v] \in C THEN g[h[v]] ELSE 0
    PROVE  SumOf(w, V)
             = SumOf([m \in C |-> Cardinality({v \in V : h[v] = m}) * g[m]], C)
<1> DEFINE Of(T, m) == {v \in T : h[v] = m}
           Count(T) == [m \in C |-> Cardinality(Of(T, m)) * g[m]]
           Bad == {T \in SUBSET V : SumOf(w, T) # SumOf(Count(T), C)}
<1>1. \A v \in V : w[v] \in Nat
  OBVIOUS
<1>2. ASSUME NEW T \in SUBSET V, NEW m
      PROVE  IsFiniteSet(Of(T, m)) /\ Cardinality(Of(T, m)) \in Nat
  <2>1. IsFiniteSet(T)
    BY FS_Subset
  <2>2. Of(T, m) \in SUBSET T
    OBVIOUS
  <2> HIDE DEF Of
  <2> QED BY <2>1, <2>2, FS_Subset, FS_CardinalityType
<1>3. ASSUME NEW T \in SUBSET V, NEW m \in C
      PROVE  /\ Count(T)[m] = Cardinality(Of(T, m)) * g[m]
             /\ Count(T)[m] \in Nat
  <2>1. PICK c \in Nat : c = Cardinality(Of(T, m))
    BY <1>2
  <2>2. c * g[m] \in Nat
    BY g[m] \in Nat
  <2> HIDE DEF Of
  <2> QED BY <2>1, <2>2
<1>4. ASSUME Bad # {} PROVE FALSE
  <2>1. PICK T \in Bad : \A U \in SUBSET T : U # T => U \notin Bad
    <3>1. Bad \in SUBSET (SUBSET V)
      OBVIOUS
    <3> HIDE DEF Bad
    <3> QED BY <1>4, <3>1, MinimalSet
  <2>2. T \in SUBSET V /\ SumOf(w, T) # SumOf(Count(T), C)
    OBVIOUS
  <2>3. T # {}
    <3> SUFFICES ASSUME T = {} PROVE FALSE
      OBVIOUS
    <3>1. \A m \in C : Of(T, m) = {}
      OBVIOUS
    <3>2. ASSUME NEW m \in C PROVE Count(T)[m] = 0
      <4>1. Cardinality(Of(T, m)) = 0
        BY <3>1, FS_EmptySet
      <4>2. 0 * g[m] = 0
        BY g[m] \in Nat
      <4> QED BY <1>3, <2>2, <4>1, <4>2
    <3> HIDE DEF Count, Bad
    <3>3. SumOf(Count(T), C) = 0
      BY <3>2, SumZero
    <3>4. SumOf(w, T) = 0
      BY SumEmpty
    <3> QED BY <2>2, <3>3, <3>4
  <2>4. PICK x \in T : TRUE
    BY <2>3
  <2>5. PICK U : U = T \ {x}
    OBVIOUS
  <2>6. U \in SUBSET V /\ U \in SUBSET T /\ U # T
    BY <2>2, <2>4, <2>5
  <2>7. SumOf(w, U) = SumOf(Count(U), C)
    BY <2>1, <2>6
  <2>8. IsFiniteSet(T) /\ IsFiniteSet(U)
    BY <2>2, <2>6, FS_Subset
  <2> HIDE DEF Bad
  <2>9. SumOf(w, T) = w[x] + SumOf(w, U)
    BY <1>1, <2>2, <2>5, <2>8, SumRemove
  <2>10. \A m : h[x] # m => Of(T, m) = Of(U, m)
    BY <2>5
  <2>11. CASE h[x] \notin C
    <3>1. w[x] = 0
      BY <2>2, <2>11
    <3>2. ASSUME NEW m \in C PROVE Count(T)[m] = Count(U)[m]
      <4>1. Of(T, m) = Of(U, m)
        BY <2>10, <2>11
      <4> HIDE DEF Of
      <4> QED BY <4>1
    <3> HIDE DEF Count
    <3>3. SumOf(Count(T), C) = SumOf(Count(U), C)
      BY <3>2, SumExtensional
    <3>4. SumOf(w, U) \in Nat
      BY <1>1, <2>6, <2>8, SumNat
    <3> QED BY <2>2, <2>7, <2>9, <3>1, <3>3, <3>4
  <2>12. CASE h[x] \in C
    <3>1. PICK m \in C : m = h[x] /\ w[x] = g[m] /\ g[m] \in Nat
      BY <2>2, <2>12
    <3>2. Of(T, m) \ {x} = Of(U, m) /\ x \in Of(T, m)
      BY <2>5, <3>1
    <3>3. PICK c \in Nat : c = Cardinality(Of(U, m))
      BY <1>2, <2>6
    <3>4. Cardinality(Of(T, m)) = c + 1
      <4>1. IsFiniteSet(Of(T, m)) /\ Cardinality(Of(T, m)) \in Nat
        BY <1>2, <2>2
      <4> HIDE DEF Of
      <4>2. Cardinality(Of(T, m) \ {x}) = Cardinality(Of(T, m)) - 1
        BY <3>2, <4>1, FS_RemoveElement
      <4> QED BY <3>2, <3>3, <4>1, <4>2
    <3>5. Count(T)[m] = (c + 1) * g[m] /\ Count(U)[m] = c * g[m]
      BY <1>3, <2>2, <2>6, <3>3, <3>4
    <3>6. ASSUME NEW n \in C \ {m} PROVE Count(T)[n] = Count(U)[n]
      <4>1. Of(T, n) = Of(U, n)
        BY <2>10, <3>1
      <4> HIDE DEF Of
      <4> QED BY <4>1
    <3>7. /\ \A n \in C : Count(T)[n] \in Nat
          /\ \A n \in C : Count(U)[n] \in Nat
      BY <1>3, <2>2, <2>6
    <3> HIDE DEF Count
    <3>8. SumOf(Count(T), C \ {m}) = SumOf(Count(U), C \ {m})
      BY <3>6, SumExtensional
    <3>9. SumOf(Count(T), C) = Count(T)[m] + SumOf(Count(T), C \ {m})
      BY <3>7, SumRemove
    <3>10. SumOf(Count(U), C) = Count(U)[m] + SumOf(Count(U), C \ {m})
      BY <3>7, SumRemove
    <3>11. IsFiniteSet(C \ {m}) /\ \A n \in C \ {m} : Count(U)[n] \in Nat
      BY <3>7, FS_Subset
    <3>12. PICK r \in Nat : r = SumOf(Count(U), C \ {m})
      BY <3>11, SumNat
    <3>13. SumOf(w, T) = g[m] + (c * g[m] + r)
      BY <2>7, <2>9, <3>1, <3>5, <3>10, <3>12
    <3>14. SumOf(Count(T), C) = (c + 1) * g[m] + r
      BY <3>5, <3>8, <3>9, <3>12
    <3>15. (c + 1) * g[m] = g[m] + c * g[m] /\ c * g[m] \in Nat
      BY <3>1
    <3> QED BY <2>2, <3>1, <3>12, <3>13, <3>14, <3>15
  <2> QED BY <2>11, <2>12
<1>5. V \notin Bad
  <2> HIDE DEF Bad
  <2> QED BY <1>4
<1>6. SumOf(w, V) = SumOf(Count(V), C)
  BY <1>5
<1> QED BY <1>6

(***************************************************************************)
(* The same for functions given by what they return: w depends on its      *)
(* argument v through h[v] only, and f counts the arguments behind a value.*)
(***************************************************************************)
DependsOn(w, V, h, g, C) ==
    \A v \in V : /\ h[v] \in C => w[v] = g[h[v]]
                 /\ h[v] \notin C => w[v] = 0

CountsGroups(f, V, h, g, C) ==
    \A m \in C : f[m] = Cardinality({v \in V : h[v] = m}) * g[m]

LEMMA SumByGroups ==
    ASSUME NEW V, IsFiniteSet(V), NEW C, IsFiniteSet(C), NEW h, NEW g, NEW w, NEW f,
           \A m \in C : g[m] \in Nat,
           DependsOn(w, V, h, g, C), CountsGroups(f, V, h, g, C)
    PROVE  SumOf(w, V) = SumOf(f, C)
<1> DEFINE Count == [m \in C |-> Cardinality({v \in V : h[v] = m}) * g[m]]
<1>1. \A v \in V : w[v] = IF h[v] \in C THEN g[h[v]] ELSE 0
  BY DEF DependsOn
<1>2. SumOf(w, V) = SumOf(Count, C)
  BY <1>1, SumGrouped
<1>3. \A m \in C : f[m] = Count[m]
  BY DEF CountsGroups
<1> HIDE DEF Count
<1>4. SumOf(f, C) = SumOf(Count, C)
  BY <1>3, SumExtensional
<1> QED BY <1>2, <1>4

\* The sum of a function to the naturals.
Nats(f, S) == IsFiniteSet(S) /\ \A x \in S : f[x] \in Nat

\* A part of the set has such a sum, too.
LEMMA NatsOfPart ==
    ASSUME NEW S, NEW f, Nats(f, S), NEW T \in SUBSET S
    PROVE  Nats(f, T) /\ SumOf(f, T) \in Nat
<1>1. IsFiniteSet(T) /\ \A x \in T : f[x] \in Nat
  BY FS_Subset DEF Nats
<1> QED BY <1>1, SumNat DEF Nats

\* A member and the rest.
LEMMA SumTakeOut ==
    ASSUME NEW S, NEW f, Nats(f, S), NEW a \in S
    PROVE  /\ SumOf(f, S) = f[a] + SumOf(f, S \ {a})
           /\ f[a] \in Nat /\ SumOf(f, S) \in Nat /\ SumOf(f, S \ {a}) \in Nat
<1>1. S \ {a} \in SUBSET S /\ S \in SUBSET S
  OBVIOUS
<1>2. SumOf(f, S) = f[a] + SumOf(f, S \ {a})
  BY SumRemove DEF Nats
<1> QED BY <1>1, <1>2, NatsOfPart DEF Nats

\* The sum over two parts that have no member in common.
LEMMA SumUnion ==
    ASSUME NEW S, NEW f, Nats(f, S), NEW A \in SUBSET S, NEW B \in SUBSET S, A \cap B = {}
    PROVE  SumOf(f, A \cup B) = SumOf(f, A) + SumOf(f, B)
<1>1. PICK pick : pick = AnyOf(B) /\ Picks(pick, B)
  BY AnyOfPicks
<1>2. PICK Good : Good = {s \in SUBSET B : SumOf(f, A \cup s) = SumOf(f, A) + SumOf(f, s)}
  OBVIOUS
<1>3. {} \in Good
  <2>1. SumOf(f, A) \in Nat /\ A \cup {} = A
    BY NatsOfPart
  <2>2. SumOf(f, {}) = 0
    BY SumEmpty
  <2>3. SumOf(f, A \cup {}) = SumOf(f, A) + SumOf(f, {})
    BY <2>1, <2>2
  <2> QED BY <1>2, <2>3
<1>4. ASSUME NEW s \in SUBSET B, s # {}, s \ {pick[s]} \in Good PROVE s \in Good
  <2>1. PICK x \in s : x = pick[s]
    BY <1>1, <1>4 DEF Picks
  <2>2. Nats(f, s) /\ Nats(f, A \cup s) /\ SumOf(f, A) \in Nat /\ x \in A \cup s
    <3>1. s \in SUBSET S /\ A \cup s \in SUBSET S
      OBVIOUS
    <3> QED BY <3>1, NatsOfPart
  <2>3. /\ SumOf(f, s) = f[x] + SumOf(f, s \ {x}) /\ f[x] \in Nat
        /\ SumOf(f, s \ {x}) \in Nat
    BY <2>2, SumTakeOut
  <2>4. SumOf(f, A \cup s) = f[x] + SumOf(f, (A \cup s) \ {x})
    BY <2>2, SumTakeOut
  <2>5. (A \cup s) \ {x} = A \cup (s \ {x})
    OBVIOUS
  <2>6. SumOf(f, A \cup (s \ {x})) = SumOf(f, A) + SumOf(f, s \ {x})
    BY <1>2, <1>4, <2>1
  <2>7. SumOf(f, A \cup s) = SumOf(f, A) + SumOf(f, s)
    BY <2>2, <2>3, <2>4, <2>5, <2>6
  <2> QED BY <1>2, <2>7
<1>5. IsFiniteSet(B)
  BY NatsOfPart DEF Nats
<1>6. \A s \in SUBSET B : s \in Good
  BY ONLY <1>1, <1>3, <1>4, <1>5, FoldInduction
<1> QED BY <1>2, <1>6
-----------------------------------------------------------------------------
(***************************************************************************)
(* Products.                                                               *)
(***************************************************************************)
ProductOf(f, S) == FoldSet(LAMBDA x, p : f[x] * p, 1, S)

ProductBody(f, S, iter) ==
    [s \in SUBSET S |-> IF s = {} THEN 1 ELSE f[Pick(s)] * iter[s \ {Pick(s)}]]

ProductIter(f, S) == CHOOSE iter : iter = ProductBody(f, S, iter)

LEMMA ProductUnfold ==
    ASSUME NEW f, NEW S
    PROVE  ProductOf(f, S) = ProductIter(f, S)[S]
BY DEF ProductOf, FoldSet, MapThenFoldSet, Pick, ProductIter, ProductBody

LEMMA ProductExtensional ==
    ASSUME NEW f, NEW g, NEW S, \A x \in S : f[x] = g[x]
    PROVE  ProductOf(f, S) = ProductOf(g, S)
<1>1. \A s \in SUBSET S : s # {} => f[Pick(s)] = g[Pick(s)]
  BY PickIn
<1>2. \A iter : ProductBody(f, S, iter) = ProductBody(g, S, iter)
  BY <1>1 DEF ProductBody
<1>3. ProductIter(f, S) = ProductIter(g, S)
  BY <1>2 DEF ProductIter
<1> QED BY <1>3, ProductUnfold

LEMMA ProductIterFacts ==
    ASSUME NEW S, IsFiniteSet(S), NEW f, \A x \in S : f[x] \in Nat
    PROVE  /\ ProductIter(f, S) = ProductBody(f, S, ProductIter(f, S))
           /\ \A s \in SUBSET S : ProductIter(f, S)[s] \in Nat
<1>1. PICK G : G = [x \in S |-> [a \in Nat |-> f[x] * a]]
  OBVIOUS
<1>2. G \in [S -> [Nat -> Nat]]
  BY <1>1
<1>3. PICK i0 \in [SUBSET S -> Nat] : \A s \in SUBSET S :
         i0[s] = IF s = {} THEN 1 ELSE G[Pick(s)][i0[s \ {Pick(s)}]]
  <2>1. \A x \in S : \A a \in Nat : G[x][a] \in Nat
    BY <1>2
  <2>2. PICK i0 : IsFold(i0, S, AnyOf(S), Nat, 1, G)
    BY <2>1, AnyOfPicks, FoldDefined
  <2>3. \A s \in SUBSET S : AnyOf(S)[s] = Pick(s)
    BY AnyOfPicks
  <2>4. i0 \in [SUBSET S -> Nat] /\ \A s \in SUBSET S :
           i0[s] = IF s = {} THEN 1 ELSE G[AnyOf(S)[s]][i0[s \ {AnyOf(S)[s]}]]
    BY <2>2 DEF IsFold
  <2>5. \A s \in SUBSET S : i0[s] = IF s = {} THEN 1 ELSE G[Pick(s)][i0[s \ {Pick(s)}]]
    BY <2>3, <2>4
  <2> QED BY <2>4, <2>5
<1>4. ASSUME NEW s \in SUBSET S, s # {}
      PROVE  /\ Pick(s) \in S /\ s \ {Pick(s)} \in SUBSET S
             /\ s \ {Pick(s)} \in SUBSET s /\ s \ {Pick(s)} # s
             /\ f[Pick(s)] \in Nat
  BY <1>4, PickIn
<1>5. ASSUME NEW s \in SUBSET S
      PROVE  i0[s] = IF s = {} THEN 1 ELSE f[Pick(s)] * i0[s \ {Pick(s)}]
  <2>1. CASE s = {}
    BY <1>3, <2>1
  <2>2. CASE s # {}
    <3>1. i0[s] = G[Pick(s)][i0[s \ {Pick(s)}]] /\ i0[s \ {Pick(s)}] \in Nat
      BY <1>3, <1>4, <2>2
    <3> QED BY <1>1, <1>4, <2>2, <3>1
  <2> QED BY <2>1, <2>2
<1>6. i0 = ProductBody(f, S, i0)
  BY <1>5 DEF ProductBody
<1>7. ProductIter(f, S) = ProductBody(f, S, ProductIter(f, S))
  BY <1>6 DEF ProductIter
<1>8. PICK I : I = ProductIter(f, S)
  OBVIOUS
<1>9. \A s \in SUBSET S : I[s] = IF s = {} THEN 1 ELSE f[Pick(s)] * I[s \ {Pick(s)}]
  <2>1. I = ProductBody(f, S, I)
    BY <1>7, <1>8
  <2> QED BY <2>1 DEF ProductBody
<1> DEFINE Bad == {s \in SUBSET S : I[s] \notin Nat}
<1>10. ASSUME Bad # {} PROVE FALSE
  <2>1. PICK T \in Bad : \A U \in SUBSET T : U # T => U \notin Bad
    <3>1. Bad \in SUBSET (SUBSET S)
      OBVIOUS
    <3> HIDE DEF Bad
    <3> QED BY <1>10, <3>1, MinimalSet
  <2>2. T \in SUBSET S /\ I[T] \notin Nat
    OBVIOUS
  <2>3. T # {}
    <3>1. I[{}] = 1
      BY <1>9
    <3>2. 1 \in Nat
      OBVIOUS
    <3> HIDE DEF Bad
    <3> QED BY <2>2, <3>1, <3>2, Zenon
  <2>4. I[T \ {Pick(T)}] \in Nat
    BY <1>4, <2>1, <2>2, <2>3
  <2> QED BY <1>4, <1>9, <2>2, <2>3, <2>4
<1> QED BY <1>7, <1>8, <1>10

\* A product takes out the member Pick chooses; it is a natural number, the
\* one factor of a singleton, and 0 if all factors are.
LEMMA ProductFacts ==
    ASSUME NEW S, IsFiniteSet(S), NEW f, \A x \in S : f[x] \in Nat
    PROVE  /\ ProductOf(f, S) \in Nat
           /\ \A a : S = {a} => ProductOf(f, S) = f[a]
           /\ S # {} /\ (\A x \in S : f[x] = 0) => ProductOf(f, S) = 0
<1>1. PICK I : I = ProductIter(f, S)
  OBVIOUS
<1>2. I = ProductBody(f, S, I) /\ \A s \in SUBSET S : I[s] \in Nat
  BY <1>1, ProductIterFacts
<1>3. ProductOf(f, S) = I[S]
  BY <1>1, ProductUnfold
<1>4. ASSUME S # {}
      PROVE  /\ I[S] = f[Pick(S)] * I[S \ {Pick(S)}]
             /\ Pick(S) \in S /\ I[S \ {Pick(S)}] \in Nat
  <2>1. S \ {Pick(S)} \in SUBSET S /\ Pick(S) \in S
    BY <1>4, PickIn
  <2> QED BY <1>2, <1>4, <2>1 DEF ProductBody
<1>5. ASSUME NEW a, S = {a} PROVE I[S] = f[a]
  <2>1. S # {}
    BY <1>5
  <2>2. Pick(S) = a /\ S \ {Pick(S)} = {}
    BY <1>4, <1>5, <2>1
  <2>3. I[{}] = 1
    BY <1>2 DEF ProductBody
  <2>4. I[S] = f[a] * 1 /\ f[a] \in Nat
    BY <1>4, <1>5, <2>1, <2>2, <2>3
  <2> QED BY <2>4
<1>6. ASSUME S # {}, \A x \in S : f[x] = 0 PROVE I[S] = 0
  <2>1. PICK b \in Nat : I[S] = f[Pick(S)] * b
    BY <1>4, <1>6
  <2>2. f[Pick(S)] = 0
    BY <1>4, <1>6
  <2> QED BY <2>1, <2>2
<1> QED BY <1>2, <1>3, <1>5, <1>6
=============================================================================

--------------------------- MODULE EqualSetProofs ---------------------------
(***************************************************************************)
(* What the subsets and the pieces of an equal set are, for every equal    *)
(* set: GetAllSubset and GetAllSubsetLimitSize list all subsets (within    *)
(* the limit), and Split cuts into nonempty pieces within the limit.       *)
(***************************************************************************)
EXTENDS EqualSet, FoldProofs, FiniteSetTheorems, TLAPS

-----------------------------------------------------------------------------
(***************************************************************************)
(* The order of the entries.                                               *)
(***************************************************************************)
Entries == Nat \X Nat

LEMMA BeforeOrders ==
    ASSUME NEW e \in Entries, NEW f \in Entries
    PROVE  /\ ~Before(e, e)
           /\ Before(e, f) \/ Before(f, e) \/ e = f
<1>1. /\ e = <<e[1], e[2]>> /\ f = <<f[1], f[2]>>
      /\ e[1] \in Nat /\ e[2] \in Nat /\ f[1] \in Nat /\ f[2] \in Nat
  BY DEF Entries
<1> QED BY <1>1 DEF Before

LEMMA BeforeTransitive ==
    ASSUME NEW e \in Entries, NEW f \in Entries, NEW g \in Entries,
           Before(e, f), Before(f, g)
    PROVE  Before(e, g)
<1>1. /\ e[1] \in Nat /\ e[2] \in Nat /\ f[1] \in Nat /\ f[2] \in Nat
      /\ g[1] \in Nat /\ g[2] \in Nat
  BY DEF Entries
<1> QED BY <1>1 DEF Before

\* An entry has more entries before it than the entries before it have.
LEMMA RankIncreases ==
    ASSUME NEW E \in SUBSET Entries, IsFiniteSet(E), NEW e \in E, NEW f \in E,
           Before(e, f)
    PROVE  Rank(E, e) # Rank(E, f)
<1> DEFINE A == {g \in E : Before(g, e)}
           B == {g \in E : Before(g, f)}
<1>1. A \in SUBSET B
  <2>1. \A g \in E : Before(g, e) => Before(g, f)
    BY BeforeTransitive
  <2> QED BY <2>1
<1>2. e \in B /\ e \notin A
  <2>1. ~Before(e, e)
    BY BeforeOrders
  <2> QED BY <2>1
<1>3. IsFiniteSet(B)
  BY FS_Subset
<1>4. Rank(E, e) = Cardinality(A) /\ Rank(E, f) = Cardinality(B)
  BY DEF Rank
<1> HIDE DEF A, B
<1>5. Cardinality(B) = Cardinality(A) => B = A
  BY <1>1, <1>3, FS_Subset
<1> QED BY <1>2, <1>4, <1>5

(***************************************************************************)
(* Rank numbers the entries from 0, without gaps.                          *)
(***************************************************************************)
LEMMA RankNumbers ==
    ASSUME NEW E \in SUBSET Entries, IsFiniteSet(E)
    PROVE  /\ \A e \in E : Rank(E, e) \in 0..(Cardinality(E) - 1)
           /\ \A e, f \in E : Rank(E, e) = Rank(E, f) => e = f
           /\ \A i \in 0..(Cardinality(E) - 1) : \E e \in E : Rank(E, e) = i
<1>1. PICK n \in Nat : n = Cardinality(E)
  BY FS_CardinalityType
<1>2. ASSUME NEW e \in E PROVE Rank(E, e) \in 0..(n - 1)
  <2>1. PICK B : B = {g \in E : Before(g, e)}
    OBVIOUS
  <2>2. B \in SUBSET (E \ {e})
    <3>1. ~Before(e, e)
      BY BeforeOrders
    <3> QED BY <2>1, <3>1
  <2>3. IsFiniteSet(E \ {e}) /\ Cardinality(E \ {e}) = n - 1
    BY <1>1, FS_RemoveElement
  <2>4. IsFiniteSet(B) /\ Cardinality(B) <= n - 1
    BY <2>2, <2>3, FS_Subset
  <2>5. Cardinality(B) \in Nat
    BY <2>4, FS_CardinalityType
  <2>6. Rank(E, e) = Cardinality(B)
    BY <2>1 DEF Rank
  <2> QED BY <2>4, <2>5, <2>6
<1>3. ASSUME NEW e \in E, NEW f \in E, Rank(E, e) = Rank(E, f) PROVE e = f
  <2>1. ~Before(e, f) /\ ~Before(f, e)
    BY <1>3, RankIncreases
  <2> QED BY <2>1, BeforeOrders
<1>4. PICK r : r = [e \in E |-> Rank(E, e)]
  OBVIOUS
<1>5. r \in Injection(E, 0..(n - 1))
  BY <1>2, <1>3, <1>4 DEF Injection, IsInjective
<1>6. IsFiniteSet(0..(n - 1)) /\ Cardinality(0..(n - 1)) = n
  BY FS_Interval
<1>7. r \in Surjection(E, 0..(n - 1))
  BY <1>1, <1>5, <1>6, FS_Injection
<1>8. \A i \in 0..(n - 1) : \E e \in E : Rank(E, e) = i
  BY <1>4, <1>7 DEF Surjection
<1> QED BY <1>1, <1>2, <1>3, <1>8
-----------------------------------------------------------------------------
(***************************************************************************)
(* Powers of two, counted as subsets.                                      *)
(***************************************************************************)
LEMMA PowerZero == 2^0 = 1
OBVIOUS

LEMMA PowerNat ==
    ASSUME NEW n \in Nat
    PROVE  /\ IsFiniteSet(SUBSET (1..n))
           /\ Cardinality(SUBSET (1..n)) = 2^n
           /\ 2^n \in Nat
<1>1. IsFiniteSet(1..n) /\ Cardinality(1..n) = n
  BY FS_Interval
<1>2. IsFiniteSet(SUBSET (1..n)) /\ Cardinality(SUBSET (1..n)) = 2^n
  BY <1>1, FS_SUBSET
<1> QED BY <1>2, FS_CardinalityType

LEMMA PowerStep ==
    ASSUME NEW n \in Nat
    PROVE  2^(n + 1) = 2 * 2^n
<1>1. PICK A : A = SUBSET (1..n)
  OBVIOUS
<1>2. PICK B : B = {a \cup {n + 1} : a \in A}
  OBVIOUS
<1>3. IsFiniteSet(A) /\ Cardinality(A) = 2^n /\ 2^n \in Nat
  BY <1>1, PowerNat
<1>4. IsFiniteSet(B) /\ Cardinality(B) = Cardinality(A)
  <2>1. PICK f : f = [a \in A |-> a \cup {n + 1}]
    OBVIOUS
  <2>2. ASSUME NEW a \in A, NEW b \in A, a \cup {n + 1} = b \cup {n + 1}
        PROVE  a = b
    <3>1. n + 1 \notin a /\ n + 1 \notin b
      BY <1>1
    <3> QED BY <2>2, <3>1
  <2>3. f \in Bijection(A, B)
    BY <1>2, <2>1, <2>2 DEF Bijection, Injection, IsInjective, Surjection
  <2>4. ExistsBijection(A, B)
    BY <2>3 DEF ExistsBijection
  <2> QED BY <1>3, <2>4, FS_Bijection
<1>5. A \cap B = {}
  <2>1. \A a \in A : n + 1 \notin a
    BY <1>1
  <2>2. \A b \in B : n + 1 \in b
    BY <1>2
  <2> QED BY <2>1, <2>2
<1>6. SUBSET (1..(n + 1)) = A \cup B
  <2>1. ASSUME NEW c \in SUBSET (1..(n + 1)), c \notin A PROVE c \in B
    <3>1. PICK a : a = c \ {n + 1}
      OBVIOUS
    <3>2. \A x \in c : x \in 1..n \/ x = n + 1
      OBVIOUS
    <3>3. n + 1 \in c
      BY <1>1, <2>1, <3>2
    <3>4. a \in A /\ c = a \cup {n + 1}
      BY <1>1, <3>1, <3>2, <3>3
    <3> QED BY <1>2, <3>4
  <2>2. 1..n \subseteq 1..(n + 1) /\ n + 1 \in 1..(n + 1)
    OBVIOUS
  <2>3. \A c \in A : c \in SUBSET (1..(n + 1))
    BY <1>1, <2>2
  <2>4. \A c \in B : c \in SUBSET (1..(n + 1))
    BY <1>2, <2>2, <2>3
  <2> QED BY <2>1, <2>3, <2>4
<1>7. Cardinality(A \cup B) = Cardinality(A) + Cardinality(B) - 0
  BY <1>3, <1>4, <1>5, FS_Union, FS_EmptySet
<1>8. Cardinality(SUBSET (1..(n + 1))) = 2^(n + 1)
  BY PowerNat
<1>9. PICK p, q : p \in Nat /\ p = 2^n /\ q = 2^(n + 1)
  BY <1>3
<1>10. Cardinality(A) = p /\ Cardinality(SUBSET (1..(n + 1))) = q
  BY <1>3, <1>8, <1>9, Zenon
<1>11. Cardinality(A \cup B) = q
  BY <1>6, <1>10, Zenon
<1>12. q = 2 * p
  <2>1. p + p - 0 = 2 * p
    <3>1. p \in Nat
      BY <1>9, Zenon
    <3> QED BY <3>1
  <2>2. q = p + p - 0
    BY <1>4, <1>7, <1>10, <1>11, Zenon
  <2> QED BY <2>1, <2>2, Zenon
<1> QED BY <1>9, <1>12, Zenon

LEMMA Powers ==
    \E pow \in [Nat -> Nat \ {0}] :
        /\ \A n \in Nat : pow[n] = 2^n
        /\ pow[0] = 1
        /\ \A n \in Nat : pow[n + 1] = 2 * pow[n]
<1>1. PICK pow : pow = [n \in Nat |-> 2^n]
  OBVIOUS
<1>2. \A n \in Nat : pow[n] = 2^n
  BY <1>1, Zenon
<1>3. ASSUME NEW n \in Nat PROVE pow[n] \in Nat \ {0}
  <2>1. PICK A : A = SUBSET (1..n)
    OBVIOUS
  <2>2. IsFiniteSet(A) /\ Cardinality(A) = 2^n /\ 2^n \in Nat
    BY <2>1, PowerNat
  <2>3. {} \in A
    BY <2>1
  <2>4. Cardinality(A) # 0
    BY <2>2, <2>3, FS_EmptySet, Zenon
  <2> QED BY <1>2, <2>2, <2>4, Zenon
<1>4. pow[0] = 1
  BY <1>2, PowerZero, Zenon
<1>5. ASSUME NEW n \in Nat PROVE pow[n + 1] = 2 * pow[n]
  <2>1. n + 1 \in Nat
    OBVIOUS
  <2> QED BY <1>2, <2>1, PowerStep, Zenon
<1>6. pow \in [Nat -> Nat \ {0}]
  BY <1>1, <1>3, Zenon
<1> QED BY <1>2, <1>4, <1>5, <1>6, Zenon

LEMMA QuotientUnique ==
    ASSUME NEW p \in Nat \ {0}, NEW q \in Nat, NEW r \in Nat, r < p
    PROVE  (p * q + r) \div p = q
<1>1. PICK a \in Nat : a = p * q + r
  OBVIOUS
<1>2. PICK d \in Nat, m \in Nat : d = a \div p /\ a = p * d + m /\ m < p
  OBVIOUS
<1>3. ~(d < q)
  <2> SUFFICES ASSUME d < q PROVE FALSE
    OBVIOUS
  <2>1. PICK x \in Nat : q = d + 1 + x
    <3>1. q - d - 1 \in Nat /\ q = d + 1 + (q - d - 1)
      OBVIOUS
    <3> QED BY <3>1
  <2>2. p * q = p * d + p + p * x /\ p * x \in Nat /\ p * d \in Nat
    BY <2>1
  <2> QED BY <1>1, <1>2, <2>2
<1>4. ~(q < d)
  <2> SUFFICES ASSUME q < d PROVE FALSE
    OBVIOUS
  <2>1. PICK x \in Nat : d = q + 1 + x
    <3>1. d - q - 1 \in Nat /\ d = q + 1 + (d - q - 1)
      OBVIOUS
    <3> QED BY <3>1
  <2>2. p * d = p * q + p + p * x /\ p * x \in Nat /\ p * q \in Nat
    BY <2>1
  <2> QED BY <1>1, <1>2, <2>2
<1>5. d = q
  BY <1>3, <1>4
<1> QED BY <1>1, <1>2, <1>5

\* Adding an even multiple of p does not change the bit of weight p.
LEMMA BitKept ==
    ASSUME NEW p \in Nat \ {0}, NEW s \in Nat, NEW c \in Nat
    PROVE  ((s + p * (2 * c)) \div p) % 2 = (s \div p) % 2
<1>1. PICK d \in Nat, m \in Nat : d = s \div p /\ s = p * d + m /\ m < p
  OBVIOUS
<1>2. p * (d + 2 * c) = p * d + p * (2 * c)
  OBVIOUS
<1>3. s + p * (2 * c) = p * (d + 2 * c) + m
  BY <1>1, <1>2
<1>4. d + 2 * c \in Nat
  OBVIOUS
<1>5. (p * (d + 2 * c) + m) \div p = d + 2 * c
  BY <1>1, <1>4, QuotientUnique
<1>6. (d + 2 * c) % 2 = d % 2
  OBVIOUS
<1> QED BY <1>1, <1>3, <1>5, <1>6

\* The bit of weight p in a number below p, and once p is added.
LEMMA TopBit ==
    ASSUME NEW p \in Nat \ {0}, NEW s \in Nat, s < p
    PROVE  /\ (s \div p) % 2 = 0
           /\ ((s + p) \div p) % 2 = 1
<1>1. (p * 0 + s) \div p = 0 /\ (p * 1 + s) \div p = 1
  BY QuotientUnique
<1>2. p * 0 + s = s /\ p * 1 + s = s + p
  OBVIOUS
<1> QED BY <1>1, <1>2

\* A power of two is an even multiple of every smaller one.
LEMMA PowerMultiple ==
    ASSUME NEW pow \in [Nat -> Nat \ {0}],
           \A n \in Nat : pow[n + 1] = 2 * pow[n],
           NEW r \in Nat, NEW k \in Nat, r < k
    PROVE  \E c \in Nat : pow[k] = pow[r] * (2 * c)
<1> DEFINE Bad == {j \in Nat : ~\E c \in Nat : pow[r + 1 + j] = pow[r] * (2 * c)}
<1>1. ASSUME Bad # {} PROVE FALSE
  <2>1. PICK j \in Bad : \A i \in Bad : j <= i
    BY <1>1, LeastNat
  <2>2. CASE j = 0
    <3>1. pow[r + 1 + 0] = pow[r] * (2 * 1)
      BY r + 1 + 0 = r + 1
    <3> QED BY <2>1, <2>2, <3>1
  <2>3. CASE j # 0
    <3>1. j - 1 \in Nat /\ ~(j <= j - 1)
      BY <2>3
    <3>2. j - 1 \notin Bad
      BY <2>1, <3>1
    <3>3. PICK c \in Nat : pow[r + 1 + (j - 1)] = pow[r] * (2 * c)
      BY <3>1, <3>2
    <3>4. r + 1 + (j - 1) \in Nat /\ r + 1 + (j - 1) + 1 = r + 1 + j
      OBVIOUS
    <3>5. pow[r + 1 + j] = 2 * (pow[r] * (2 * c))
      BY <3>3, <3>4
    <3>6. 2 * (pow[r] * (2 * c)) = pow[r] * (2 * (2 * c)) /\ 2 * c \in Nat
      BY pow[r] \in Nat
    <3> QED BY <2>1, <3>5, <3>6
  <2> QED BY <2>2, <2>3
<1>2. k - (r + 1) \in Nat /\ r + 1 + (k - (r + 1)) = k
  OBVIOUS
<1>3. k - (r + 1) \notin Bad
  BY <1>1
<1> QED BY <1>2, <1>3
-----------------------------------------------------------------------------
(***************************************************************************)
(* Every subset has a mask: the bits of the entries of rank below k can be *)
(* set as wanted with a number below 2^k.                                  *)
(***************************************************************************)
LEMMA MaskedOnto ==
    ASSUME NEW E \in SUBSET Entries, IsFiniteSet(E), NEW Q \in SUBSET E
    PROVE  \E s \in 0..(NumMasks(E) - 1) : Masked(E, s) = Q
<1>1. PICK n \in Nat : n = Cardinality(E)
  BY FS_CardinalityType
<1>0. PICK pow \in [Nat -> Nat \ {0}] :
         /\ \A k \in Nat : pow[k] = 2^k
         /\ pow[0] = 1
         /\ \A k \in Nat : pow[k + 1] = 2 * pow[k]
  BY Powers
<1>2. pow[0] = 1 /\ \A k \in Nat : pow[k + 1] = 2 * pow[k]
  BY <1>0, Zenon
<1>3. PICK rank : rank = [e \in E |-> Rank(E, e)]
  OBVIOUS
<1>4. \A e \in E : rank[e] \in Nat /\ rank[e] < n
  BY <1>1, <1>3, RankNumbers
<1>5. \A s : Masked(E, s) = {e \in E : (s \div pow[rank[e]]) % 2 = 1}
  <2>1. \A e \in E : pow[rank[e]] = 2^Rank(E, e)
    BY <1>0, <1>3, <1>4, Zenon
  <2> QED BY <2>1, Zenon DEF Masked
<1>6. NumMasks(E) = pow[n]
  BY <1>0, <1>1, FS_SUBSET, Zenon DEF NumMasks
<1> DEFINE Sets(k, s) == \A e \in E : rank[e] < k =>
                            ((s \div pow[rank[e]]) % 2 = 1 <=> e \in Q)
           Bad == {k \in Nat : ~\E s \in Nat : s < pow[k] /\ Sets(k, s)}
<1>7. ASSUME Bad # {} PROVE FALSE
  <2>1. PICK k \in Bad : \A j \in Bad : k <= j
    BY <1>7, LeastNat
  <2>2. CASE k = 0
    <3>1. Sets(0, 0)
      BY <1>4
    <3>2. 0 \in Nat /\ 0 < pow[0]
      BY <1>2
    <3> QED BY <2>1, <2>2, <3>1, <3>2
  <2>3. CASE k # 0
    <3>1. PICK j \in Nat : k = j + 1
      <4>1. k - 1 \in Nat /\ k = (k - 1) + 1
        BY <2>3
      <4> QED BY <4>1
    <3>2. j \notin Bad
      BY <2>1, <3>1
    <3>3. PICK s \in Nat : s < pow[j] /\ Sets(j, s)
      BY <3>2
    <3>4. pow[j] \in Nat \ {0} /\ pow[k] = pow[j] + pow[j]
      BY <1>2, <3>1
    <3>5. ASSUME NEW e \in E, rank[e] < k, rank[e] # j PROVE rank[e] < j
      <4>1. PICK x \in Nat : x = rank[e]
        BY <1>4
      <4>2. x < j + 1 /\ x # j => x < j
        OBVIOUS
      <4> QED BY <3>1, <3>5, <4>1, <4>2
    <3>6. CASE \E f \in E : rank[f] = j /\ f \in Q
      <4>1. s + pow[j] \in Nat /\ s + pow[j] < pow[k]
        BY <3>3, <3>4
      <4>2. ASSUME NEW e \in E, rank[e] < k
            PROVE  ((s + pow[j]) \div pow[rank[e]]) % 2 = 1 <=> e \in Q
        <5>1. CASE rank[e] = j
          <6>1. e \in Q
            BY <1>1, <1>3, <3>6, <5>1, RankNumbers
          <6>2. ((s + pow[j]) \div pow[j]) % 2 = 1
            BY <3>3, <3>4, TopBit
          <6> QED BY <5>1, <6>1, <6>2
        <5>2. CASE rank[e] # j
          <6>1. rank[e] < j
            BY <3>5, <4>2, <5>2
          <6>2. PICK p \in Nat \ {0} : p = pow[rank[e]]
            BY <1>4
          <6>3. PICK c \in Nat : pow[j] = p * (2 * c)
            <7> HIDE DEF Sets, Bad
            <7>1. PICK x \in Nat : x = rank[e] /\ x < j
              BY <1>4, <6>1
            <7>2. \A n_1 \in Nat : pow[n_1 + 1] = 2 * pow[n_1]
              BY <1>2
            <7>3. \E c \in Nat : pow[j] = pow[x] * (2 * c)
              BY <7>1, <7>2, PowerMultiple
            <7> QED BY <6>2, <7>1, <7>3, Zenon
          <6>4. ((s + p * (2 * c)) \div p) % 2 = (s \div p) % 2
            BY BitKept
          <6>5. (s \div p) % 2 = 1 <=> e \in Q
            BY <3>3, <6>1, <6>2
          <6> HIDE DEF Sets
          <6> QED BY <6>2, <6>3, <6>4, <6>5
        <5> QED BY <5>1, <5>2
      <4>3. Sets(k, s + pow[j])
        BY <4>2
      <4> HIDE DEF Sets
      <4> QED BY <2>1, <4>1, <4>3
    <3>7. CASE ~\E f \in E : rank[f] = j /\ f \in Q
      <4>1. s < pow[k]
        BY <3>3, <3>4
      <4>2. ASSUME NEW e \in E, rank[e] < k
            PROVE  (s \div pow[rank[e]]) % 2 = 1 <=> e \in Q
        <5>1. CASE rank[e] = j
          <6>1. (s \div pow[j]) % 2 = 0
            BY <3>3, <3>4, TopBit
          <6> QED BY <3>7, <5>1, <6>1
        <5>2. CASE rank[e] # j
          BY <3>3, <3>5, <4>2, <5>2
        <5> QED BY <5>1, <5>2
      <4>3. Sets(k, s)
        BY <4>2
      <4> HIDE DEF Sets
      <4> QED BY <2>1, <4>1, <4>3
    <3> QED BY <3>6, <3>7
  <2> QED BY <2>2, <2>3
<1>8. PICK s \in Nat : s < pow[n] /\ Sets(n, s)
  BY <1>7
<1>9. s \in 0..(NumMasks(E) - 1)
  BY <1>6, <1>8, pow[n] \in Nat
<1>10. \A e \in E : (s \div pow[rank[e]]) % 2 = 1 <=> e \in Q
  BY <1>4, <1>8
<1>11. Masked(E, s) = Q
  <2>1. PICK M : M = Masked(E, s)
    OBVIOUS
  <2>2. M = {e \in E : (s \div pow[rank[e]]) % 2 = 1}
    BY <1>5, <2>1
  <2>3. \A e \in E : e \in M <=> e \in Q
    BY <1>10, <2>2
  <2>4. M \subseteq E
    BY <2>2
  <2> QED BY <2>1, <2>3, <2>4
<1> QED BY <1>9, <1>11

LEMMA MaskedWithin ==
    ASSUME NEW E, NEW s
    PROVE  Masked(E, s) \in SUBSET E
BY DEF Masked

LEMMA NumMasksNat ==
    ASSUME NEW E, IsFiniteSet(E)
    PROVE  NumMasks(E) \in Nat
BY FS_SUBSET, FS_CardinalityType DEF NumMasks

(***************************************************************************)
(* GetAllSubset lists every subset, its column dropped when it has one     *)
(* entry, and nothing else.                                                *)
(***************************************************************************)
THEOREM AllSubsetsListed ==
    ASSUME NEW E \in SUBSET Entries, IsFiniteSet(E)
    PROVE  {GetAllSubset(E)[i] : i \in DOMAIN GetAllSubset(E)}
             = {Collapse(Q) : Q \in SUBSET E}
<1>1. PICK n \in Nat : n = NumMasks(E)
  BY NumMasksNat
<1>2. PICK list : list = GetAllSubset(E)
  OBVIOUS
<1>3. DOMAIN list = 1..n /\ \A i \in 1..n : list[i] = Collapse(Masked(E, i - 1))
  BY <1>1, <1>2 DEF GetAllSubset
<1>4. \A i \in 1..n : \E Q \in SUBSET E : list[i] = Collapse(Q)
  BY <1>3, MaskedWithin
<1>5. ASSUME NEW Q \in SUBSET E PROVE \E i \in 1..n : list[i] = Collapse(Q)
  <2>1. PICK s \in 0..(n - 1) : Masked(E, s) = Q
    BY <1>1, MaskedOnto
  <2>2. s + 1 \in 1..n /\ (s + 1) - 1 = s
    OBVIOUS
  <2> QED BY <1>3, <2>1, <2>2
<1>6. {list[i] : i \in DOMAIN list} = {Collapse(Q) : Q \in SUBSET E}
  <2>1. \A k : k \in {list[i] : i \in DOMAIN list} <=> \E i \in 1..n : k = list[i]
    BY <1>3
  <2>2. \A k : (\E i \in 1..n : k = list[i]) <=> \E Q \in SUBSET E : k = Collapse(Q)
    BY <1>4, <1>5, Zenon
  <2> QED BY <2>1, <2>2, Zenon
<1> QED BY <1>2, <1>6

(***************************************************************************)
(* GetAllSubsetLimitSize lists those within the limit.                     *)
(***************************************************************************)
THEOREM LimitedSubsetsListed ==
    ASSUME NEW E \in SUBSET Entries, IsFiniteSet(E), NEW limit \in Nat
    PROVE  {GetAllSubsetLimitSize(E, limit)[i] :
               i \in DOMAIN GetAllSubsetLimitSize(E, limit)}
             = {Collapse(Q) : Q \in {R \in SUBSET E : Cardinality(R) <= limit}}
<1>1. PICK n \in Nat : n = NumMasks(E)
  BY NumMasksNat
<1>2. PICK list : list = GetAllSubsetLimitSize(E, limit)
  OBVIOUS
<1>3. PICK kept : kept = {s \in 0..(n - 1) : Cardinality(Masked(E, s)) <= limit}
  OBVIOUS
<1>4. kept \in SUBSET Nat /\ IsFiniteSet(kept)
  <2>1. IsFiniteSet(0..(n - 1))
    BY FS_Interval
  <2> QED BY <1>3, <2>1, FS_Subset
<1>5. PICK masks : masks = Ascending(kept)
  OBVIOUS
<1>6. {masks[i] : i \in DOMAIN masks} = kept
  BY <1>4, <1>5, AscendingEnumerates DEF Range
<1>7. DOMAIN list = DOMAIN masks
      /\ \A i \in DOMAIN masks : list[i] = Collapse(Masked(E, masks[i]))
  BY <1>1, <1>2, <1>3, <1>5 DEF GetAllSubsetLimitSize, KeptSubsets
<1>8. PICK Small : Small = {R \in SUBSET E : Cardinality(R) <= limit}
  OBVIOUS
<1>9. ASSUME NEW i \in DOMAIN masks PROVE \E Q \in Small : list[i] = Collapse(Q)
  <2>1. masks[i] \in kept
    BY <1>6
  <2>2. Masked(E, masks[i]) \in Small
    BY <1>3, <1>8, <2>1, MaskedWithin
  <2> QED BY <1>7, <2>2
<1>10. ASSUME NEW Q \in Small PROVE \E i \in DOMAIN masks : list[i] = Collapse(Q)
  <2>1. Q \in SUBSET E
    BY <1>8
  <2>2. PICK s \in 0..(n - 1) : Masked(E, s) = Q
    BY <1>1, <2>1, MaskedOnto
  <2>3. s \in kept
    BY <1>3, <1>8, <2>2
  <2>4. PICK i \in DOMAIN masks : masks[i] = s
    BY <1>6, <2>3
  <2> QED BY <1>7, <2>2, <2>4
<1>11. {list[i] : i \in DOMAIN list} = {Collapse(Q) : Q \in Small}
  BY <1>7, <1>9, <1>10
<1> QED BY <1>2, <1>8, <1>11

\* Dropping the column of a single entry keeps the size.
LEMMA CollapseKeepsSize ==
    ASSUME NEW Q, IsFiniteSet(Q)
    PROVE  IsFiniteSet(Collapse(Q)) /\ Cardinality(Collapse(Q)) = Cardinality(Q)
<1>1. CASE Cardinality(Q) = 1
  <2>1. PICK e : Q = {e}
    BY <1>1, FS_Singleton
  <2>2. Collapse(Q) = {<<EntryTable(e), NoColumn>>}
    BY <1>1, <2>1 DEF Collapse, TablesOf
  <2> QED BY <1>1, <2>2, FS_Singleton
<1>2. CASE Cardinality(Q) # 1
  BY <1>2 DEF Collapse
<1> QED BY <1>1, <1>2
-----------------------------------------------------------------------------
(***************************************************************************)
(* Split's loop (equalset.hpp:149) moves forward with every limit that the *)
(* code accepts (it throws for one below 3): the set of ranks at which it  *)
(* starts a piece exists, and all of them are ranks of entries.            *)
(***************************************************************************)
LEMMA LoopDefined ==
    ASSUME NEW n \in Nat, NEW step \in [0..n -> 0..n],
           \A i \in 0..n : i # n => i < step[i]
    PROVE  \E f : f = [i \in 0..n |-> IF i = n THEN {} ELSE {i} \cup f[step[i]]]
<1> DEFINE Body(f, i) == IF i = n THEN {} ELSE {i} \cup f[step[i]]
           Solves(m, f) == f = [i \in (n - m)..n |-> Body(f, i)]
           Bad == {m \in 0..n : ~\E f : Solves(m, f)}
<1>1. ASSUME Bad # {} PROVE FALSE
  <2>1. PICK m \in Bad : \A l \in Bad : m <= l
    <3>1. Bad \in SUBSET Nat
      OBVIOUS
    <3> QED BY <1>1, <3>1, LeastNat
  <2>2. m \in 0..n /\ ~\E f : Solves(m, f)
    OBVIOUS
  <2>3. CASE m = 0
    <3>1. PICK f : f = [i \in {n} |-> {}]
      OBVIOUS
    <3>2. (n - m)..n = {n}
      BY <2>3
    <3>3. \A i \in {n} : Body(f, i) = {}
      OBVIOUS
    <3>4. f = [i \in (n - m)..n |-> Body(f, i)]
      BY <3>1, <3>2, <3>3
    <3> QED BY <2>2, <3>4
  <2>4. CASE m # 0
    <3>1. m - 1 \in 0..n /\ m - 1 < m
      BY <2>2, <2>4
    <3>2. m - 1 \notin Bad
      <4> HIDE DEF Bad
      <4>1. ~(m <= m - 1)
        BY <2>2
      <4> QED BY <2>1, <4>1
    <3>3. PICK g : Solves(m - 1, g)
      BY <3>1, <3>2
    <3>4. PICK a \in 0..n : a = n - m /\ a # n /\ (n - (m - 1)) = a + 1
      BY <2>2, <2>4
    <3>5. g = [i \in (a + 1)..n |-> Body(g, i)]
      BY <3>3, <3>4
    <3> DEFINE f == [i \in a..n |-> IF i = a THEN {a} \cup g[step[a]] ELSE g[i]]
    <3>6. ASSUME NEW i \in a..n PROVE f[i] = Body(f, i)
      <4>1. CASE i = n
        <5>1. i # a /\ i \in (a + 1)..n
          BY <3>4, <4>1
        <5>2. f[i] = g[i] /\ g[i] = Body(g, i)
          BY <3>5, <5>1
        <5> QED BY <4>1, <5>2
      <4>2. CASE i # n
        <5>1. i \in 0..n
          BY <3>4
        <5>2. step[i] \in (a + 1)..n
          BY <4>2, <5>1
        <5>3. f[step[i]] = g[step[i]]
          BY <3>4, <5>2
        <5>4. CASE i = a
          BY <4>2, <5>3, <5>4
        <5>5. CASE i # a
          <6>1. i \in (a + 1)..n
            BY <5>5
          <6>2. g[i] = Body(g, i) /\ f[i] = g[i]
            BY <3>5, <5>5, <6>1
          <6> QED BY <4>2, <5>3, <6>2
        <5> QED BY <5>4, <5>5
      <4> QED BY <4>1, <4>2
    <3>7. PICK h : h = f
      OBVIOUS
    <3>8. h = [i \in a..n |-> Body(h, i)]
      <4>1. DOMAIN h = a..n /\ h = [i \in a..n |-> h[i]]
        BY <3>7
      <4>2. \A i \in a..n : h[i] = Body(h, i)
        BY <3>6, <3>7
      <4> HIDE DEF Body
      <4> QED BY <4>1, <4>2, Zenon
    <3> QED BY <2>2, <3>4, <3>8
  <2> QED BY <2>3, <2>4
<1>2. n \in 0..n /\ n \notin Bad
  <2> HIDE DEF Bad
  <2> QED BY <1>1
<1>3. PICK f : Solves(n, f)
  BY <1>2
<1>4. n - n = 0
  OBVIOUS
<1> QED BY <1>3, <1>4

LEMMA CountedBack ==
    ASSUME NEW n \in Nat, NEW a \in 0..n, NEW b \in 0..n, NEW l \in 0..n,
           a < b, a = n - l
    PROVE  n - b \in 0..n /\ ~(l <= n - b) /\ n - (n - b) = b
OBVIOUS

LEMMA LoopStarts ==
    ASSUME NEW n \in Nat, NEW step \in [0..n -> 0..n],
           \A i \in 0..n : i # n => i < step[i],
           NEW f, f = [i \in 0..n |-> IF i = n THEN {} ELSE {i} \cup f[step[i]]]
    PROVE  \A i \in 0..n : f[i] \subseteq 0..(n - 1)
<1> DEFINE Bad == {m \in 0..n : ~(f[n - m] \subseteq 0..(n - 1))}
<1>1. ASSUME Bad # {} PROVE FALSE
  <2>1. PICK m \in Bad : \A l \in Bad : m <= l
    <3>1. Bad \in SUBSET Nat
      OBVIOUS
    <3> QED BY <1>1, <3>1, LeastNat
  <2>2. m \in 0..n /\ ~(f[n - m] \subseteq 0..(n - 1))
    OBVIOUS
  <2>3. PICK a \in 0..n : a = n - m
    BY <2>2
  <2>4. a # n
    <3>1. f[n] = {}
      OBVIOUS
    <3> QED BY <2>2, <2>3, <3>1
  <2>5. f[a] = {a} \cup f[step[a]] /\ step[a] \in 0..n /\ a < step[a]
    BY <2>4
  <2>6. PICK b \in 0..n : b = step[a] /\ a < b
    BY <2>5
  <2>7. n - b \in 0..n /\ ~(m <= n - b) /\ n - (n - b) = b
    <3> HIDE DEF Bad
    <3>1. PICK l \in 0..n : l = m /\ a = n - l
      BY <2>2, <2>3
    <3>2. n - b \in 0..n /\ ~(l <= n - b) /\ n - (n - b) = b
      BY <2>6, <3>1, CountedBack
    <3> QED BY <3>1, <3>2
  <2>8. f[step[a]] \subseteq 0..(n - 1)
    <3>1. n - b \notin Bad
      <4> HIDE DEF Bad
      <4> QED BY <2>1, <2>7
    <3>2. f[n - (n - b)] \subseteq 0..(n - 1)
      BY <2>7, <3>1
    <3> QED BY <2>6, <2>7, <3>2
  <2>9. a \in 0..(n - 1)
    BY <2>4
  <2> QED BY <2>2, <2>3, <2>5, <2>8, <2>9
<1>2. ASSUME NEW i \in 0..n PROVE f[i] \subseteq 0..(n - 1)
  <2>1. n - i \in 0..n /\ n - (n - i) = i
    OBVIOUS
  <2>2. n - i \notin Bad
    BY <1>1
  <2> QED BY <2>1, <2>2
<1> QED BY <1>2

\* Min of two numbers.
LEMMA MinOfTwo ==
    ASSUME NEW a \in Int, NEW b \in Int
    PROVE  Min({a, b}) = IF a <= b THEN a ELSE b
<1>1. \E x \in {a, b} : \A y \in {a, b} : x <= y
  OBVIOUS
<1>2. PICK m : m = Min({a, b})
  OBVIOUS
<1>3. m \in {a, b} /\ \A y \in {a, b} : m <= y
  BY <1>1, <1>2 DEF Min
<1>4. m = IF a <= b THEN a ELSE b
  BY <1>3
<1> QED BY <1>2, <1>4

(***************************************************************************)
(* Every piece of Split is a nonempty part of the equal set within the     *)
(* limit, its column dropped when it has one entry.                        *)
(***************************************************************************)
THEOREM PiecesWithinLimit ==
    ASSUME NEW E \in SUBSET Entries, IsFiniteSet(E),
           NEW maxSize \in Nat, maxSize >= 3
    PROVE  \A k \in Split(E, maxSize) :
              \E Q \in (SUBSET E) \ {{}} : /\ Cardinality(Q) <= maxSize
                                         /\ k = Collapse(Q)
<1>1. PICK n \in Nat : n = Cardinality(E)
  BY FS_CardinalityType
<1> DEFINE take(i) == IF (n - i) - maxSize = 1 THEN maxSize - 1 ELSE maxSize
           piece(i) == {e \in E : Rank(E, e) \in i..(i + take(i) - 1)}
           starts == CHOOSE f : f = [i \in 0..n |->
                        IF i = n THEN {} ELSE {i} \cup f[Min({n, i + take(i)})]]
<1>2. Split(E, maxSize) = {Collapse(piece(i)) : i \in starts[0]}
  BY <1>1 DEF Split
<1>3. \A i \in 0..n : take(i) \in 1..maxSize
  OBVIOUS
<1>4. PICK step : step = [i \in 0..n |-> Min({n, i + take(i)})]
  OBVIOUS
<1>5. ASSUME NEW i \in 0..n
      PROVE  /\ step[i] \in 0..n
             /\ step[i] = Min({n, i + take(i)})
             /\ i # n => i < step[i]
  <2>1. take(i) \in Nat /\ take(i) >= 1
    BY <1>3
  <2> HIDE DEF take
  <2>2. step[i] = IF n <= i + take(i) THEN n ELSE i + take(i)
    BY <1>4, <2>1, MinOfTwo
  <2> QED BY <1>4, <2>1, <2>2
<1> HIDE DEF take
<1>6. step \in [0..n -> 0..n]
  BY <1>4, <1>5
<1>7. \A f : [i \in 0..n |-> IF i = n THEN {} ELSE {i} \cup f[Min({n, i + take(i)})]]
           = [i \in 0..n |-> IF i = n THEN {} ELSE {i} \cup f[step[i]]]
  BY <1>5
<1>8. \E f : f = [i \in 0..n |-> IF i = n THEN {} ELSE {i} \cup f[step[i]]]
  BY <1>5, <1>6, LoopDefined
<1>9. starts = [i \in 0..n |->
                   IF i = n THEN {} ELSE {i} \cup starts[Min({n, i + take(i)})]]
  <2> DEFINE Loop(f) == [i \in 0..n |->
                IF i = n THEN {} ELSE {i} \cup f[Min({n, i + take(i)})]]
  <2>1. \E f : f = Loop(f)
    <3>1. PICK f : f = [i \in 0..n |-> IF i = n THEN {} ELSE {i} \cup f[step[i]]]
      BY <1>8
    <3>2. Loop(f) = [i \in 0..n |-> IF i = n THEN {} ELSE {i} \cup f[step[i]]]
      BY <1>7
    <3> HIDE DEF Loop
    <3>3. f = Loop(f)
      BY ONLY <3>1, <3>2, Zenon
    <3> QED BY <3>3
  <2>2. starts = CHOOSE f : f = Loop(f)
    OBVIOUS
  <2> HIDE DEF Loop, starts
  <2>3. starts = Loop(starts)
    BY <2>1, <2>2
  <2> QED BY <2>3 DEF Loop
<1> HIDE DEF starts
<1>10. starts = [i \in 0..n |-> IF i = n THEN {} ELSE {i} \cup starts[step[i]]]
  BY <1>7, <1>9, Zenon
<1>11. \A i \in 0..n : starts[i] \subseteq 0..(n - 1)
  BY <1>5, <1>6, <1>10, LoopStarts
<1>12. ASSUME NEW i \in starts[0]
       PROVE  /\ piece(i) \in (SUBSET E) \ {{}}
              /\ Cardinality(piece(i)) <= maxSize
  <2>1. i \in 0..(n - 1) /\ i \in 0..n
    BY <1>11
  <2>2. take(i) \in Nat /\ 1 <= take(i) /\ take(i) <= maxSize
    BY <1>3, <2>1
  <2>3. PICK e \in E : Rank(E, e) = i
    BY <1>1, <2>1, RankNumbers
  <2>4. PICK J : J = i..(i + take(i) - 1)
    OBVIOUS
  <2>5. i \in J /\ IsFiniteSet(J) /\ Cardinality(J) <= maxSize
    <3>1. PICK b \in Int : b = i + take(i) - 1
      BY <2>1, <2>2
    <3>2. i \in Int /\ i <= b /\ b - i + 1 <= maxSize
      BY <2>1, <2>2, <3>1
    <3>3. IsFiniteSet(i..b) /\ Cardinality(i..b) = b - i + 1
      BY <3>2, FS_Interval
    <3> QED BY <2>4, <3>1, <3>2, <3>3
  <2>6. PICK p : p = piece(i)
    OBVIOUS
  <2>7. p = {g \in E : Rank(E, g) \in J}
    BY <2>4, <2>6
  <2>8. e \in p
    BY <2>3, <2>5, <2>7
  <2>9. PICK r : r = [g \in p |-> Rank(E, g)]
    OBVIOUS
  <2>10. \A g, h \in E : Rank(E, g) = Rank(E, h) => g = h
    BY RankNumbers
  <2>11. r \in Injection(p, J)
    BY <2>7, <2>9, <2>10 DEF Injection, IsInjective
  <2>12. Cardinality(p) <= Cardinality(J) /\ IsFiniteSet(p)
    BY <2>5, <2>11, FS_Injection
  <2>13. Cardinality(p) \in Nat /\ Cardinality(J) \in Nat
    BY <2>5, <2>12, FS_CardinalityType
  <2>14. Cardinality(p) <= maxSize
    BY <2>5, <2>12, <2>13
  <2> QED BY <2>6, <2>7, <2>8, <2>14
<1> HIDE DEF piece
<1> QED BY <1>2, <1>12
=============================================================================

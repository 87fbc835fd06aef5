---------------------------- MODULE SessionProofs ----------------------------
(***************************************************************************)
(* Proofs about Session: AddPredicate computes the partition into stars    *)
(* for any sequence of predicates, and the properties of a session hold    *)
(* for every workload.                                                     *)
(***************************************************************************)
EXTENDS Session, TLAPS

\* The attributes of a query are those of its predicates.
LEMMA InAttrs ==
    ASSUME NEW P, NEW x
    PROVE  x \in Attrs(P) <=> \E p \in P : x = p[1] \/ x = p[2]
BY DEF Attrs

\* The attributes of a predicate are attributes of the query.
LEMMA AttrsOf ==
    ASSUME NEW P, NEW p \in P
    PROVE  p[1] \in Attrs(P) /\ p[2] \in Attrs(P)
BY DEF Attrs

(***************************************************************************)
(* What the four branches of AddPredicate have in common: one star n holds *)
(* a, b and all stars that held one of them; the other stars are kept.     *)
(***************************************************************************)
Merges(esets, a, b, new, n) ==
    /\ n \in DOMAIN new /\ a \in new[n] /\ b \in new[n]
    /\ \A x \in new[n] :
          \/ x \in {a, b}
          \/ \E i \in DOMAIN esets :
                x \in esets[i] /\ (a \in esets[i] \/ b \in esets[i])
    /\ \A i \in DOMAIN esets :
          a \in esets[i] \/ b \in esets[i] => esets[i] \subseteq new[n]
    /\ \A k \in DOMAIN new : k # n =>
          \E i \in DOMAIN esets :
              new[k] = esets[i] /\ a \notin esets[i] /\ b \notin esets[i]
    /\ \A k, l \in DOMAIN new : k # l /\ k # n /\ l # n => new[k] \cap new[l] = {}
    /\ \A i \in DOMAIN esets : a \notin esets[i] /\ b \notin esets[i] =>
          \E k \in DOMAIN new : new[k] = esets[i]

\* Such a merge turns a partition into the partition with a = b added.
LEMMA MergedPartition ==
    ASSUME NEW esets, NEW P, IsPartition(esets, P), NEW a, NEW b,
           NEW new, NEW n, Merges(esets, a, b, new, n)
    PROVE  IsPartition(new, P \cup {<<a, b>>})
<1> USE DEF Merges
<1>0. PICK Q : Q = P \cup {<<a, b>>}
  OBVIOUS
<1>1. Attrs(Q) = Attrs(P) \cup {a, b}
  <2>1. \A x : x \in Attrs(Q) <=> \E p \in Q : x = p[1] \/ x = p[2]
    BY ONLY InAttrs
  <2>2. \A x : x \in Attrs(P) <=> \E p \in P : x = p[1] \/ x = p[2]
    BY ONLY InAttrs
  <2>3. <<a, b>>[1] = a /\ <<a, b>>[2] = b
    OBVIOUS
  <2>4. ASSUME NEW x PROVE x \in Attrs(Q) <=> x \in Attrs(P) \/ x = a \/ x = b
    BY ONLY <1>0, <2>1, <2>2, <2>3
  <2> QED BY ONLY <2>4
<1>2. /\ \A i, j \in DOMAIN esets : i # j => esets[i] \cap esets[j] = {}
      /\ \A i \in DOMAIN esets : esets[i] # {} /\ esets[i] \subseteq Attrs(P)
      /\ \A p \in P : \E i \in DOMAIN esets : p[1] \in esets[i] /\ p[2] \in esets[i]
      /\ \A S \in SUBSET Attrs(P) : Closed(S, P) =>
            \A i \in DOMAIN esets : esets[i] \subseteq S \/ esets[i] \cap S = {}
  BY DEF IsPartition
<1>3. ASSUME NEW k \in DOMAIN new, k # n PROVE new[k] \cap new[n] = {}
  <2>1. PICK i \in DOMAIN esets :
            new[k] = esets[i] /\ a \notin esets[i] /\ b \notin esets[i]
    BY <1>3
  <2> SUFFICES ASSUME NEW x \in new[k], x \in new[n] PROVE FALSE
    OBVIOUS
  <2>2. x \notin {a, b}
    BY <2>1
  <2>3. PICK j \in DOMAIN esets : x \in esets[j] /\ (a \in esets[j] \/ b \in esets[j])
    BY <2>2
  <2>4. i # j /\ x \in esets[i] \cap esets[j]
    BY <2>1, <2>3
  <2> QED BY <1>2, <2>4
<1>4. \A k, l \in DOMAIN new : k # l => new[k] \cap new[l] = {}
  BY <1>3
<1>5. \A k \in DOMAIN new : new[k] # {} /\ new[k] \subseteq Attrs(Q)
  <2>1. new[n] # {} /\ new[n] \subseteq Attrs(Q)
    BY <1>1, <1>2
  <2>2. ASSUME NEW k \in DOMAIN new, k # n
        PROVE  new[k] # {} /\ new[k] \subseteq Attrs(Q)
    BY <1>1, <1>2, <2>2
  <2> QED BY <2>1, <2>2
<1>6. ASSUME NEW p \in Q
      PROVE  \E k \in DOMAIN new : p[1] \in new[k] /\ p[2] \in new[k]
  <2>0. p = <<a, b>> \/ p \in P
    BY <1>0
  <2>1. CASE p = <<a, b>>
    BY <2>1
  <2>2. CASE p \in P
    <3>1. PICK i \in DOMAIN esets : p[1] \in esets[i] /\ p[2] \in esets[i]
      BY <1>2, <2>2
    <3>2. CASE a \in esets[i] \/ b \in esets[i]
      BY <3>1, <3>2
    <3>3. CASE a \notin esets[i] /\ b \notin esets[i]
      BY <3>1, <3>3
    <3> QED BY <3>2, <3>3
  <2> QED BY <2>0, <2>1, <2>2
<1>7. ASSUME NEW S \in SUBSET Attrs(Q), Closed(S, Q), NEW k \in DOMAIN new
      PROVE  new[k] \subseteq S \/ new[k] \cap S = {}
  <2> DEFINE S0 == S \cap Attrs(P)
  <2>1. a \in S <=> b \in S
    <3>1. <<a, b>> \in Q /\ <<a, b>>[1] = a /\ <<a, b>>[2] = b
      BY <1>0
    <3>2. <<a, b>>[1] \in S <=> <<a, b>>[2] \in S
      BY <1>7, <3>1, Zenon DEF Closed
    <3> QED BY <3>1, <3>2
  <2>2. Closed(S0, P)
    <3>1. \A p \in P : p[1] \in Attrs(P) /\ p[2] \in Attrs(P)
      BY ONLY AttrsOf, Zenon
    <3>2. \A p \in P : p[1] \in S <=> p[2] \in S
      BY <1>0, <1>7 DEF Closed
    <3> QED BY <3>1, <3>2 DEF Closed
  <2>3. \A i \in DOMAIN esets : esets[i] \subseteq S0 \/ esets[i] \cap S0 = {}
    BY <1>2, <2>2
  <2>4. \A i \in DOMAIN esets : esets[i] \subseteq S \/ esets[i] \cap S = {}
    BY <1>2, <2>3
  <2>5. CASE k # n
    BY <2>4, <2>5
  <2>6. CASE k = n /\ a \in S
    BY <2>1, <2>4, <2>6
  <2>7. CASE k = n /\ a \notin S
    BY <2>1, <2>4, <2>7
  <2> QED BY <2>5, <2>6, <2>7
<1>8. IsPartition(new, Q)
  BY <1>4, <1>5, <1>6, <1>7 DEF IsPartition
<1> QED BY <1>0, <1>8

\* The scan finds the only star that satisfies its condition.
LEMMA LastIndexUnique ==
    ASSUME NEW I, I \subseteq Nat \ {0}, \A i, j \in I : i = j
    PROVE  /\ LastIndex(I) = 0 => I = {}
           /\ LastIndex(I) # 0 => LastIndex(I) \in I
<1>1. CASE I = {}
  BY <1>1 DEF LastIndex
<1>2. CASE I # {}
  <2>1. PICK i \in I : TRUE
    BY <1>2
  <2>2. \A j \in I : j <= i
    BY <2>1
  <2>3. LastIndex(I) \in I
    BY <1>2, <2>1, <2>2 DEF LastIndex
  <2> QED BY <2>3, <1>2
<1> QED BY <1>1, <1>2

\* Erasing position j of a vector shifts the later elements down.
LEMMA Erased ==
    ASSUME NEW T, NEW s \in Seq(T), NEW j \in DOMAIN s
    PROVE  /\ RemoveAt(s, j) \in Seq(T)
           /\ Len(RemoveAt(s, j)) = Len(s) - 1
           /\ \A k \in 1..(Len(s) - 1) :
                 RemoveAt(s, j)[k] = IF k < j THEN s[k] ELSE s[k + 1]
<1> DEFINE left == SubSeq(s, 1, j - 1)
           right == SubSeq(s, j + 1, Len(s))
<1>1. j \in Nat /\ 1 <= j /\ j <= Len(s) /\ Len(s) \in Nat
  OBVIOUS
<1>2. /\ left \in Seq(T) /\ Len(left) = j - 1
      /\ \A k \in 1..(j - 1) : left[k] = s[k]
  BY <1>1
<1>3. /\ right \in Seq(T) /\ Len(right) = Len(s) - j
      /\ \A k \in 1..(Len(s) - j) : right[k] = s[j + k]
  BY <1>1
<1> HIDE DEF left, right
<1>4. /\ left \o right \in Seq(T) /\ Len(left \o right) = Len(s) - 1
      /\ \A k \in 1..(Len(s) - 1) :
            (left \o right)[k] = IF k < j THEN s[k] ELSE s[k + 1]
  BY <1>1, <1>2, <1>3
<1> QED BY <1>4 DEF RemoveAt, left, right

(***************************************************************************)
(* AddPredicate: if attrEsets is the partition that the predicates so far  *)
(* generate, it is the partition of those and the new one afterwards.      *)
(***************************************************************************)
LEMMA AddKeepsPartition ==
    ASSUME NEW esets \in Seq(SUBSET Attr), NEW P, IsPartition(esets, P),
           NEW a \in Attr, NEW b \in Attr
    PROVE  /\ AddToStars(esets, a, b) \in Seq(SUBSET Attr)
           /\ IsPartition(AddToStars(esets, a, b), P \cup {<<a, b>>})
<1> DEFINE I1 == {i \in DOMAIN esets : a \in esets[i]}
           I2 == {i \in DOMAIN esets : a \notin esets[i] /\ b \in esets[i]}
           idx1 == LastIndex(I1)
           idx2 == LastIndex(I2)
           new == AddToStars(esets, a, b)
<1>0. IsPartition(esets, P)
  OBVIOUS
<1>1. \A i, j \in DOMAIN esets : i # j => esets[i] \cap esets[j] = {}
  BY <1>0 DEF IsPartition
<1>2. /\ DOMAIN esets = 1..Len(esets) /\ Len(esets) \in Nat
      /\ \A i \in DOMAIN esets : esets[i] \in SUBSET Attr
  OBVIOUS
<1>3. idx1 = 0 => I1 = {}
  BY <1>1, <1>2, LastIndexUnique
<1>4. idx1 # 0 => idx1 \in I1
  BY <1>1, <1>2, LastIndexUnique
<1>5. idx2 = 0 => I2 = {}
  BY <1>1, <1>2, LastIndexUnique
<1>6. idx2 # 0 => idx2 \in I2
  BY <1>1, <1>2, LastIndexUnique
<1> HIDE DEF idx1, idx2
<1>7. CASE idx1 = 0 /\ idx2 = 0
  <2>1. new = Append(esets, {a, b})
    BY <1>7 DEF AddToStars, idx1, idx2
  <2>2. /\ new \in Seq(SUBSET Attr) /\ DOMAIN new = 1..(Len(esets) + 1)
        /\ new[Len(esets) + 1] = {a, b}
        /\ \A i \in DOMAIN esets : new[i] = esets[i]
    BY <1>2, <2>1
  <2>3. \A i \in DOMAIN esets : a \notin esets[i] /\ b \notin esets[i]
    BY <1>3, <1>5, <1>7
  <2> HIDE DEF new
  <2>4. PICK n \in DOMAIN new : n = Len(esets) + 1
    BY <1>2, <2>2, <2>3
  <2>5. /\ a \in new[n] /\ b \in new[n]
        /\ \A x \in new[n] : \/ x \in {a, b}
                              \/ \E i \in DOMAIN esets :
                                   x \in esets[i] /\ (a \in esets[i] \/ b \in esets[i])
        /\ \A i \in DOMAIN esets :
              a \in esets[i] \/ b \in esets[i] => esets[i] \subseteq new[n]
    BY <1>2, <2>2, <2>3, <2>4
  <2>6. \A k \in DOMAIN new : k # n =>
           /\ k \in DOMAIN esets
           /\ new[k] = esets[k] /\ a \notin esets[k] /\ b \notin esets[k]
    BY <1>2, <2>2, <2>3, <2>4
  <2>7. \A k, l \in DOMAIN new : k # l /\ k # n /\ l # n => new[k] \cap new[l] = {}
    BY <1>1, <2>6
  <2>8. \A i \in DOMAIN esets : a \notin esets[i] /\ b \notin esets[i] =>
           \E k \in DOMAIN new : new[k] = esets[i]
    BY <1>2, <2>2, <2>3, <2>4
  <2>9. Merges(esets, a, b, new, n)
    BY <2>5, <2>6, <2>7, <2>8 DEF Merges
  <2>10. IsPartition(new, P \cup {<<a, b>>})
    BY <2>9, MergedPartition
  <2> QED BY <2>2, <2>10 DEF new
<1>8. CASE idx1 = 0 /\ idx2 # 0
  <2>1. new = [esets EXCEPT ![idx2] = @ \cup {a}]
    BY <1>8 DEF AddToStars, idx1, idx2
  <2>2. /\ new \in Seq(SUBSET Attr) /\ DOMAIN new = DOMAIN esets
        /\ new[idx2] = esets[idx2] \cup {a}
        /\ \A i \in DOMAIN esets : i # idx2 => new[i] = esets[i]
    BY <1>2, <1>6, <1>8, <2>1
  <2>3. /\ idx2 \in DOMAIN esets /\ b \in esets[idx2]
        /\ \A i \in DOMAIN esets : a \notin esets[i] /\ (i # idx2 => b \notin esets[i])
    BY <1>1, <1>3, <1>6, <1>8
  <2> HIDE DEF new
  <2>4. PICK n \in DOMAIN new : n = idx2
    BY <1>2, <2>2, <2>3
  <2>5. /\ a \in new[n] /\ b \in new[n]
        /\ \A x \in new[n] : \/ x \in {a, b}
                              \/ \E i \in DOMAIN esets :
                                   x \in esets[i] /\ (a \in esets[i] \/ b \in esets[i])
        /\ \A i \in DOMAIN esets :
              a \in esets[i] \/ b \in esets[i] => esets[i] \subseteq new[n]
    BY <1>2, <2>2, <2>3, <2>4
  <2>6. \A k \in DOMAIN new : k # n =>
           /\ k \in DOMAIN esets
           /\ new[k] = esets[k] /\ a \notin esets[k] /\ b \notin esets[k]
    BY <1>2, <2>2, <2>3, <2>4
  <2>7. \A k, l \in DOMAIN new : k # l /\ k # n /\ l # n => new[k] \cap new[l] = {}
    BY <1>1, <2>6
  <2>8. \A i \in DOMAIN esets : a \notin esets[i] /\ b \notin esets[i] =>
           \E k \in DOMAIN new : new[k] = esets[i]
    BY <1>2, <2>2, <2>3, <2>4
  <2>9. Merges(esets, a, b, new, n)
    BY <2>5, <2>6, <2>7, <2>8 DEF Merges
  <2>10. IsPartition(new, P \cup {<<a, b>>})
    BY <2>9, MergedPartition
  <2> QED BY <2>2, <2>10 DEF new
<1>9. CASE idx1 # 0 /\ idx2 = 0
  <2>1. new = [esets EXCEPT ![idx1] = @ \cup {b}]
    BY <1>9 DEF AddToStars, idx1, idx2
  <2>2. /\ new \in Seq(SUBSET Attr) /\ DOMAIN new = DOMAIN esets
        /\ new[idx1] = esets[idx1] \cup {b}
        /\ \A i \in DOMAIN esets : i # idx1 => new[i] = esets[i]
    BY <1>2, <1>4, <1>9, <2>1
  <2>3. /\ idx1 \in DOMAIN esets /\ a \in esets[idx1]
        /\ \A i \in DOMAIN esets : i # idx1 => a \notin esets[i] /\ b \notin esets[i]
    BY <1>1, <1>4, <1>5, <1>9
  <2> HIDE DEF new
  <2>4. PICK n \in DOMAIN new : n = idx1
    BY <1>2, <2>2, <2>3
  <2>5. /\ a \in new[n] /\ b \in new[n]
        /\ \A x \in new[n] : \/ x \in {a, b}
                              \/ \E i \in DOMAIN esets :
                                   x \in esets[i] /\ (a \in esets[i] \/ b \in esets[i])
        /\ \A i \in DOMAIN esets :
              a \in esets[i] \/ b \in esets[i] => esets[i] \subseteq new[n]
    BY <1>2, <2>2, <2>3, <2>4
  <2>6. \A k \in DOMAIN new : k # n =>
           /\ k \in DOMAIN esets
           /\ new[k] = esets[k] /\ a \notin esets[k] /\ b \notin esets[k]
    BY <1>2, <2>2, <2>3, <2>4
  <2>7. \A k, l \in DOMAIN new : k # l /\ k # n /\ l # n => new[k] \cap new[l] = {}
    BY <1>1, <2>6
  <2>8. \A i \in DOMAIN esets : a \notin esets[i] /\ b \notin esets[i] =>
           \E k \in DOMAIN new : new[k] = esets[i]
    BY <1>2, <2>2, <2>3, <2>4
  <2>9. Merges(esets, a, b, new, n)
    BY <2>5, <2>6, <2>7, <2>8 DEF Merges
  <2>10. IsPartition(new, P \cup {<<a, b>>})
    BY <2>9, MergedPartition
  <2> QED BY <2>2, <2>10 DEF new
<1>10. CASE idx1 # 0 /\ idx2 # 0
  <2> DEFINE mid == [esets EXCEPT ![idx1] = @ \cup esets[idx2]]
  <2>0. PICK n : n = IF idx1 < idx2 THEN idx1 ELSE idx1 - 1
    OBVIOUS
  <2>1. new = RemoveAt(mid, idx2)
    BY <1>10 DEF AddToStars, idx1, idx2
  <2>2. /\ idx1 \in DOMAIN esets /\ a \in esets[idx1]
        /\ idx2 \in DOMAIN esets /\ b \in esets[idx2] /\ a \notin esets[idx2]
        /\ idx1 # idx2
        /\ \A i \in DOMAIN esets : /\ i # idx1 => a \notin esets[i]
                                   /\ i # idx2 => b \notin esets[i]
    BY <1>1, <1>4, <1>6, <1>10
  <2>3. /\ mid \in Seq(SUBSET Attr) /\ Len(mid) = Len(esets)
        /\ mid[idx1] = esets[idx1] \cup esets[idx2]
        /\ \A i \in DOMAIN esets : i # idx1 => mid[i] = esets[i]
        /\ idx2 \in DOMAIN mid
    BY <1>2, <2>2
  <2> HIDE DEF mid
  <2>4. /\ new \in Seq(SUBSET Attr) /\ Len(new) = Len(esets) - 1
        /\ \A k \in 1..(Len(esets) - 1) :
              new[k] = IF k < idx2 THEN mid[k] ELSE mid[k + 1]
    BY <2>1, <2>3, Erased
  <2> HIDE DEF new
  <2>5. DOMAIN new = 1..(Len(esets) - 1)
    BY <1>2, <2>4
  <2>6. n \in DOMAIN new /\ new[n] = esets[idx1] \cup esets[idx2]
    BY <1>2, <2>0, <2>2, <2>3, <2>4, <2>5
  <2>7. PICK src : src = [k \in DOMAIN new |-> IF k < idx2 THEN k ELSE k + 1]
    OBVIOUS
  <2>8. \A k \in DOMAIN new : k # n =>
           /\ src[k] \in DOMAIN esets /\ new[k] = esets[src[k]]
           /\ a \notin new[k] /\ b \notin new[k]
    <3> SUFFICES ASSUME NEW k \in DOMAIN new, k # n
                 PROVE  /\ src[k] \in DOMAIN esets /\ new[k] = esets[src[k]]
                        /\ a \notin new[k] /\ b \notin new[k]
      OBVIOUS
    <3>1. src[k] \in DOMAIN esets /\ src[k] # idx1 /\ src[k] # idx2
      BY <1>2, <2>0, <2>2, <2>5, <2>7
    <3>2. new[k] = esets[src[k]]
      BY <2>3, <2>4, <2>5, <2>7, <3>1
    <3> QED BY <2>2, <3>1, <3>2
  <2>9. ASSUME NEW i \in DOMAIN esets, i # idx1, i # idx2
        PROVE  \E k \in DOMAIN new : new[k] = esets[i]
    <3>1. CASE i < idx2
      <4>1. i \in DOMAIN new
        BY <1>2, <2>2, <2>5, <3>1
      <4>2. new[i] = esets[i]
        BY <2>3, <2>4, <2>5, <2>9, <3>1, <4>1
      <4> QED BY <4>1, <4>2
    <3>2. CASE i > idx2
      <4>1. i - 1 \in DOMAIN new /\ ~(i - 1 < idx2) /\ (i - 1) + 1 = i
        BY <1>2, <2>2, <2>5, <3>2
      <4>2. new[i - 1] = esets[i]
        BY <2>3, <2>4, <2>5, <2>9, <4>1
      <4> QED BY <4>1, <4>2
    <3> QED BY <1>2, <2>2, <2>9, <3>1, <3>2
  <2>10. \A k, l \in DOMAIN new : k # l /\ k # n /\ l # n => new[k] \cap new[l] = {}
    <3> SUFFICES ASSUME NEW k \in DOMAIN new, NEW l \in DOMAIN new,
                        k # l, k # n, l # n
                 PROVE  new[k] \cap new[l] = {}
      OBVIOUS
    <3>1. src[k] # src[l]
      BY <1>2, <2>2, <2>5, <2>7
    <3> QED BY <1>1, <2>8, <3>1
  <2>11. /\ a \in new[n] /\ b \in new[n]
         /\ \A x \in new[n] : \/ x \in {a, b}
                               \/ \E i \in DOMAIN esets :
                                    x \in esets[i] /\ (a \in esets[i] \/ b \in esets[i])
         /\ \A i \in DOMAIN esets :
               a \in esets[i] \/ b \in esets[i] => esets[i] \subseteq new[n]
    BY <2>2, <2>6
  <2>12. \A i \in DOMAIN esets : a \notin esets[i] /\ b \notin esets[i] =>
            \E k \in DOMAIN new : new[k] = esets[i]
    BY <2>2, <2>9
  <2>13. Merges(esets, a, b, new, n)
    BY <2>6, <2>8, <2>10, <2>11, <2>12 DEF Merges
  <2>14. IsPartition(new, P \cup {<<a, b>>})
    BY <2>13, MergedPartition
  <2> QED BY <2>4, <2>14 DEF new
<1> QED BY <1>7, <1>8, <1>9, <1>10
-----------------------------------------------------------------------------
(***************************************************************************)
(* The invariant of a session.  First the steps that only move frames.     *)
(***************************************************************************)
LEMMA InitInv == Init => SessionInv
<1> SUFFICES ASSUME Init PROVE SessionInv
  OBVIOUS
<1>1. TypeOK
  <2>1. \A T : <<>> \in Seq(T)
    OBVIOUS
  <2>2. DOMAIN relNDV = {} /\ DOMAIN frames = {}
    BY DEF Init
  <2>3. /\ frames \in Seq(Frame) /\ filterString \in Seq(STRING)
        /\ log \in Seq({"ok", "prepared", "statistics", "filter"})
        /\ tableName \in Seq(Nat) /\ attrEsets \in Seq(SUBSET Attr)
    BY <2>1 DEF Init
  <2> QED BY <2>2, <2>3 DEF Init, TypeOK
<1>2. ~At("tables") /\ ~At("edges") /\ ~prepared /\ frames = <<>> /\ log = <<>>
  BY DEF Init, At
<1> QED BY <1>1, <1>2 DEF SessionInv, OneSession, StarsExact, PreparedOnlyAfterFailure

\* ParsePredicate starts a line: one frame, the filters of this line.
LEMMA ParseInv == SessionInv /\ ParsePredicate => SessionInv'
<1> SUFFICES ASSUME SessionInv, ParsePredicate PROVE SessionInv'
  OBVIOUS
<1>1. PICK q \in Queries : query' = q /\ filterString' = ParsedFilters(q)
  BY DEF ParsePredicate
<1>2. /\ frames = <<>> /\ frames' = <<NewFrame(1)>>
      /\ UNCHANGED <<running, log, prepared, tableName, relNDV, attrEsets, query_id,
                     UseSingleTableCard>>
  BY DEF ParsePredicate, Idle
<1>3. q \in Query /\ 1 \in DOMAIN q.blocks
  BY QueriesAssumption
<1>4. NewFrame(1) \in Frame
  BY DEF NewFrame, Frame
<1>5. /\ frames' \in Seq(Frame) /\ Len(frames') = 1 /\ DOMAIN frames' = {1}
      /\ frames'[1].step = "extract" /\ frames'[1].block = 1
  BY <1>2, <1>4 DEF NewFrame
<1>6. TypeOK'
  <2>1. filterString' \in Seq(STRING)
    <3>1. q.filters \in Seq(STRING)
      BY <1>3 DEF Query
    <3>2. <<>> \in Seq(STRING)
      OBVIOUS
    <3> QED BY <1>1, <3>1, <3>2 DEF ParsedFilters
  <2>2. \A f \in DOMAIN frames' : frames'[f].block \in DOMAIN query'.blocks
    BY <1>1, <1>3, <1>5
  <2> QED BY <1>1, <1>2, <1>5, <2>1, <2>2 DEF SessionInv, TypeOK
<1>7. ~InSession /\ ~InSession' /\ ~At("tables")' /\ ~At("edges")'
  BY <1>2, <1>5 DEF InSession, At, Top
<1> QED
  BY <1>1, <1>2, <1>5, <1>6, <1>7
  DEF SessionInv, OneSession, StarsExact, FailedBefore, PreparedOnlyAfterFailure,
      ParsedFilters

\* The innermost Optimize call and its block.
LEMMA TopFacts ==
    ASSUME TypeOK, frames # <<>>
    PROVE  /\ Len(frames) \in Nat \ {0} /\ DOMAIN frames = 1..Len(frames)
           /\ Len(frames) \in DOMAIN frames
           /\ Top \in Frame /\ Top.block \in DOMAIN query.blocks
           /\ query \in Query /\ TopBlock \in Block
<1>1. /\ Len(frames) \in Nat \ {0} /\ DOMAIN frames = 1..Len(frames)
      /\ Len(frames) \in DOMAIN frames
  BY DEF TypeOK
<1>2. Top \in Frame /\ Top.block \in DOMAIN query.blocks
  <2>1. frames \in Seq(Frame) /\ \A f \in DOMAIN frames : frames[f].block \in DOMAIN query.blocks
    BY DEF TypeOK
  <2> QED BY <1>1, <2>1 DEF Top
<1>3. query \in Query
  BY QueriesAssumption DEF TypeOK
<1>4. query.blocks \in Seq(Block)
  BY <1>3 DEF Query
<1>5. TopBlock \in Block
  BY <1>2, <1>4 DEF TopBlock
<1> QED BY <1>1, <1>2, <1>3, <1>5

(***************************************************************************)
(* An exception: all frames are unwound, the session may stay open, and    *)
(* the failure is in the log.                                              *)
(***************************************************************************)
LEMMA FailInv ==
    ASSUME SessionInv, NEW w \in {"prepared", "statistics", "filter"}, Fail(w),
           w = "prepared" => FailedBefore(Len(log) + 1),
           UNCHANGED <<running, query, filterString, prepared, relNDV, attrEsets,
                       query_id, UseSingleTableCard>>,
           tableName' \in Seq(Nat)
    PROVE  SessionInv'
<1>1. frames' = <<>> /\ log' = Append(log, w)
  BY DEF Fail
<1>2. log \in Seq({"ok", "prepared", "statistics", "filter"})
  BY DEF SessionInv, TypeOK
<1>3. /\ log' \in Seq({"ok", "prepared", "statistics", "filter"})
      /\ Len(log) \in Nat /\ Len(log') = Len(log) + 1 /\ log'[Len(log) + 1] = w
      /\ \A k \in 1..Len(log) : log'[k] = log[k]
      /\ DOMAIN log' = 1..(Len(log) + 1)
  BY <1>1, <1>2
<1>4. TypeOK'
  <2>1. frames' \in Seq(Frame) /\ DOMAIN frames' = {}
    BY <1>1
  <2> QED BY <1>3, <2>1 DEF SessionInv, TypeOK
<1>5. ~At("tables")' /\ ~At("edges")' /\ ~InSession'
  BY <1>1 DEF At, InSession
<1>6. OneSession' /\ StarsExact'
  BY <1>1, <1>5 DEF OneSession, StarsExact
<1>7. FailedBefore(Len(log) + 1)'
  <2>1. CASE w \in {"statistics", "filter"}
    <3>1. Len(log) + 1 \in 1..((Len(log') + 1) - 1)
      BY <1>3
    <3> QED BY <1>3, <2>1, <3>1 DEF FailedBefore
  <2>2. CASE w = "prepared"
    <3>1. PICK j \in 1..Len(log) : log[j] \in {"statistics", "filter"}
      BY <1>3, <2>2 DEF FailedBefore
    <3>2. j \in 1..((Len(log') + 1) - 1) /\ log'[j] = log[j]
      BY <1>3
    <3> QED BY <1>3, <3>1, <3>2 DEF FailedBefore
  <2> QED BY <2>1, <2>2
<1>8. PreparedOnlyAfterFailure'
  <2> SUFFICES ASSUME NEW k \in 1..(Len(log) + 1), log'[k] = "prepared"
               PROVE  \E j \in 1..(k - 1) : log'[j] \in {"statistics", "filter"}
    BY <1>3 DEF PreparedOnlyAfterFailure
  <2>1. PICK j \in 1..(k - 1) : log[j] \in {"statistics", "filter"}
    <3>1. CASE k = Len(log) + 1
      BY <1>3, <3>1 DEF FailedBefore
    <3>2. CASE k # Len(log) + 1
      <4>1. k \in DOMAIN log /\ log[k] = "prepared"
        BY <1>2, <1>3, <3>2
      <4> QED BY <4>1 DEF SessionInv, PreparedOnlyAfterFailure
    <3> QED BY <3>1, <3>2
  <2>2. log'[j] = log[j]
    BY <1>3
  <2> QED BY <2>1, <2>2
<1> QED BY <1>1, <1>4, <1>5, <1>6, <1>7, <1>8 DEF SessionInv

(***************************************************************************)
(* Optimize returns: what is left of the stack is still extracting.        *)
(***************************************************************************)
LEMMA ReturnInv ==
    ASSUME SessionInv, frames # <<>>, Return,
           UNCHANGED <<running, query, filterString, tableName, relNDV, attrEsets,
                       query_id, UseSingleTableCard>>,
           prepared' \in BOOLEAN,
           prepared' => FailedBefore(Len(log) + 1)
    PROVE  SessionInv'
<1>0. TypeOK /\ OneSession
  BY DEF SessionInv
<1>1. /\ frames \in Seq(Frame) /\ Len(frames) \in Nat \ {0}
      /\ DOMAIN frames = 1..Len(frames)
  BY <1>0, TopFacts DEF TypeOK
<1>2. /\ frames' \in Seq(Frame) /\ Len(frames') = Len(frames) - 1
      /\ DOMAIN frames' = 1..(Len(frames) - 1)
      /\ \A f \in DOMAIN frames' : frames'[f] = frames[f]
  BY <1>1 DEF Return, Front
<1>3. log \in Seq({"ok", "prepared", "statistics", "filter"})
  BY DEF SessionInv, TypeOK
<1>4. \/ log' = log
      \/ log' = Append(log, "ok")
  BY DEF Return
<1>5. /\ log' \in Seq({"ok", "prepared", "statistics", "filter"})
      /\ Len(log) \in Nat /\ Len(log') \in Nat /\ Len(log) <= Len(log')
      /\ \A k \in 1..Len(log) : log'[k] = log[k]
      /\ \A k \in DOMAIN log' : k > Len(log) => log'[k] = "ok"
  BY <1>3, <1>4
<1>6. TypeOK'
  BY <1>1, <1>2, <1>5 DEF SessionInv, TypeOK
<1>7. \A f \in DOMAIN frames' : frames'[f].step = "extract"
  <2> SUFFICES ASSUME NEW f \in DOMAIN frames' PROVE frames'[f].step = "extract"
    OBVIOUS
  <2>1. f \in DOMAIN frames /\ f # Len(frames)
    BY <1>1, <1>2
  <2> QED BY <1>0, <1>2, <2>1 DEF OneSession
<1>8. ~At("tables")' /\ ~At("edges")' /\ ~InSession'
  <2>1. CASE frames' = <<>>
    BY <2>1 DEF At, InSession
  <2>2. CASE frames' # <<>>
    <3>1. Len(frames') \in DOMAIN frames'
      BY <1>1, <1>2, <2>2
    <3>2. Top' = frames'[Len(frames')]
      BY DEF Top
    <3> QED BY <1>7, <3>1, <3>2 DEF At, InSession
  <2> QED BY <2>1, <2>2
<1>9. OneSession' /\ StarsExact'
  BY <1>7, <1>8 DEF OneSession, StarsExact
<1>10. prepared' => FailedBefore(Len(log) + 1)'
  <2> SUFFICES ASSUME prepared' PROVE FailedBefore(Len(log) + 1)'
    OBVIOUS
  <2>1. PICK j \in 1..((Len(log) + 1) - 1) : log[j] \in {"statistics", "filter"}
    BY DEF FailedBefore
  <2>2. j \in 1..((Len(log') + 1) - 1) /\ log'[j] = log[j]
    BY <1>5
  <2> QED BY <2>1, <2>2 DEF FailedBefore
<1>11. PreparedOnlyAfterFailure'
  <2> SUFFICES ASSUME NEW k \in DOMAIN log', log'[k] = "prepared"
               PROVE  \E j \in 1..(k - 1) : log'[j] \in {"statistics", "filter"}
    BY DEF PreparedOnlyAfterFailure
  <2>1. k \in DOMAIN log /\ k \in 1..Len(log) /\ log[k] = "prepared"
    BY <1>3, <1>5
  <2>2. PICK j \in 1..(k - 1) : log[j] \in {"statistics", "filter"}
    BY <2>1 DEF SessionInv, PreparedOnlyAfterFailure
  <2>3. log'[j] = log[j]
    BY <1>5, <2>1
  <2> QED BY <2>2, <2>3
<1>12. frames' # <<>> => filterString' = IF query'.where THEN query'.filters ELSE <<>>
  BY DEF SessionInv
<1> QED BY <1>6, <1>8, <1>9, <1>10, <1>11, <1>12 DEF SessionInv

(***************************************************************************)
(* A step within the innermost Optimize call; the calls around it wait.    *)
(***************************************************************************)
LEMMA AdvanceFacts ==
    ASSUME TypeOK, OneSession, frames # <<>>, NEW f \in Frame,
           f.block = Top.block, Advance(f), query' = query
    PROVE  /\ frames' \in Seq(Frame) /\ frames' # <<>> /\ Top' = f
           /\ TopBlock' = TopBlock
           /\ \A g \in DOMAIN frames' : frames'[g].block \in DOMAIN query'.blocks
           /\ \A g \in DOMAIN frames' : g # Len(frames') => frames'[g].step = "extract"
<1>1. /\ frames \in Seq(Frame) /\ Len(frames) \in Nat \ {0}
      /\ DOMAIN frames = 1..Len(frames) /\ Len(frames) \in DOMAIN frames
      /\ Top.block \in DOMAIN query.blocks
  BY TopFacts DEF TypeOK
<1>2. /\ frames' \in Seq(Frame) /\ Len(frames') = Len(frames)
      /\ DOMAIN frames' = DOMAIN frames /\ frames'[Len(frames)] = f
      /\ \A g \in DOMAIN frames : g # Len(frames) => frames'[g] = frames[g]
  BY <1>1 DEF Advance
<1>3. frames' # <<>> /\ Top' = f
  BY <1>1, <1>2 DEF Top
<1>4. TopBlock' = TopBlock
  BY <1>3 DEF TopBlock
<1>5. \A g \in DOMAIN frames' : frames'[g].block \in DOMAIN query'.blocks
  BY <1>1, <1>2 DEF TypeOK
<1>6. \A g \in DOMAIN frames' : g # Len(frames') => frames'[g].step = "extract"
  BY <1>2 DEF OneSession
<1> QED BY <1>2, <1>3, <1>4, <1>5, <1>6

\* PrepareEstimate opens a session with nothing in it.
LEMMA PrepareInv == SessionInv /\ PrepareEstimate => SessionInv'
<1> SUFFICES ASSUME SessionInv, PrepareEstimate PROVE SessionInv'
  OBVIOUS
<1> DEFINE f == [Top EXCEPT !.step = "tables", !.n = 0]
<1>0. TypeOK /\ OneSession
  BY DEF SessionInv
<1>1. /\ frames # <<>> /\ attrEsets' = <<>> /\ tableName' = <<>> /\ prepared' = TRUE
      /\ query_id' = query_id + 1 /\ Advance(f)
      /\ UNCHANGED <<running, query, log, filterString, relNDV, UseSingleTableCard>>
  BY DEF PrepareEstimate, Extracted, At
<1>2. f \in Frame /\ f.block = Top.block /\ f.step = "tables" /\ f.n = 0
  BY <1>0, <1>1, TopFacts DEF Frame
<1> HIDE DEF f
<1>3. /\ frames' \in Seq(Frame) /\ frames' # <<>> /\ Top' = f /\ TopBlock' = TopBlock
      /\ \A g \in DOMAIN frames' : frames'[g].block \in DOMAIN query'.blocks
      /\ \A g \in DOMAIN frames' : g # Len(frames') => frames'[g].step = "extract"
  BY <1>0, <1>1, <1>2, AdvanceFacts
<1>4. TypeOK'
  <2>1. attrEsets' \in Seq(SUBSET Attr) /\ tableName' \in Seq(Nat) /\ query_id' \in Nat
    BY <1>0, <1>1 DEF TypeOK
  <2> QED BY <1>0, <1>1, <1>3, <2>1 DEF TypeOK
<1>5. At("tables")' /\ ~At("edges")' /\ InSession'
  BY <1>2, <1>3 DEF At, InSession
<1>6. OneSession' /\ StarsExact'
  BY <1>1, <1>3, <1>5 DEF OneSession, StarsExact
<1>7. Top'.n <= Len(TopBlock'.tables) /\ TablesAdded(Top.n)'
  <2>1. Len(TopBlock.tables) \in Nat
    BY <1>0, <1>1, TopFacts DEF Block
  <2>2. Top'.n = 0 /\ TopBlock'.tables = TopBlock.tables /\ Len(tableName') = 0
    BY <1>1, <1>2, <1>3
  <2> QED BY <2>1, <2>2 DEF TablesAdded
<1> QED BY <1>1, <1>3, <1>4, <1>5, <1>6, <1>7 DEF SessionInv, PreparedOnlyAfterFailure

\* AddTable adds the next table of the block, or fails.
LEMMA AddTableInv == SessionInv /\ AddTable => SessionInv'
<1> SUFFICES ASSUME SessionInv, AddTable PROVE SessionInv'
  OBVIOUS
<1>0. TypeOK /\ OneSession /\ frames # <<>> /\ Top.step = "tables" /\ At("tables")
  BY DEF SessionInv, AddTable, At
<1>1. PICK i, t : /\ i = Top.n + 1 /\ t = TopBlock.tables[i]
                  /\ tableName' = Append(tableName, t)
                  /\ \/ /\ relNDV' = NewNDV(i, t)
                        /\ Advance([Top EXCEPT !.n = i])
                        /\ UNCHANGED log
                     \/ Fail("statistics") /\ UNCHANGED relNDV
  BY DEF AddTable
<1>2. /\ UNCHANGED <<running, query, filterString, prepared, attrEsets, query_id,
                     UseSingleTableCard>>
      /\ Top.n < Len(TopBlock.tables)
  BY DEF AddTable
<1>3. /\ TopBlock.tables \in Seq(Nat) /\ Len(TopBlock.tables) \in Nat
      /\ Top.n \in Nat /\ Top \in Frame
  BY <1>0, TopFacts DEF Block, Frame
<1>4. i \in 1..Len(TopBlock.tables) /\ t \in Nat /\ i \in Nat
  BY <1>1, <1>2, <1>3
<1>5. tableName \in Seq(Nat) /\ tableName' \in Seq(Nat)
  BY <1>0, <1>1, <1>4 DEF TypeOK
<1>6. CASE Fail("statistics") /\ UNCHANGED relNDV
  BY <1>2, <1>5, <1>6, FailInv
<1>7. CASE relNDV' = NewNDV(i, t) /\ Advance([Top EXCEPT !.n = i]) /\ UNCHANGED log
  <2>1. PICK f : f = [Top EXCEPT !.n = i]
    OBVIOUS
  <2>2. f \in Frame /\ f.block = Top.block /\ f.step = "tables" /\ f.n = i
    BY <1>0, <1>3, <1>4, <2>1 DEF Frame
  <2>3. /\ frames' \in Seq(Frame) /\ frames' # <<>> /\ Top' = f /\ TopBlock' = TopBlock
        /\ \A g \in DOMAIN frames' : frames'[g].block \in DOMAIN query'.blocks
        /\ \A g \in DOMAIN frames' : g # Len(frames') => frames'[g].step = "extract"
    BY <1>0, <1>2, <1>7, <2>1, <2>2, AdvanceFacts
  <2>4. /\ DOMAIN relNDV' = DOMAIN relNDV \cup {i} /\ relNDV'[i] = t
        /\ \A j \in DOMAIN relNDV : j # i => relNDV'[j] = relNDV[j]
    BY <1>7 DEF NewNDV
  <2>5. TypeOK'
    BY <1>0, <1>2, <1>4, <1>5, <1>7, <2>3, <2>4 DEF TypeOK
  <2>6. At("tables")' /\ ~At("edges")' /\ InSession'
    BY <2>2, <2>3 DEF At, InSession
  <2>7. OneSession' /\ StarsExact'
    BY <1>0, <1>2, <2>3, <2>6, TopFacts DEF OneSession, StarsExact, Top
  <2>8. TablesAdded(Top.n)'
    <3>1. TablesAdded(Top.n) /\ Len(tableName) = Top.n
      BY <1>0 DEF SessionInv, TablesAdded
    <3>2. /\ Len(tableName') = i /\ tableName'[i] = t
          /\ \A j \in 1..Top.n : tableName'[j] = tableName[j]
      BY <1>1, <1>3, <1>5, <3>1
    <3>3. \A j \in 1..i : j = i \/ (j \in 1..Top.n /\ j # i)
      BY <1>1, <1>3
    <3>4. Top'.n = i /\ TopBlock'.tables = TopBlock.tables
      BY <2>2, <2>3
    <3>5. \A j \in 1..i : /\ tableName'[j] = TopBlock.tables[j]
                           /\ j \in DOMAIN relNDV' /\ relNDV'[j] = tableName'[j]
      <4> SUFFICES ASSUME NEW j \in 1..i
                   PROVE  /\ tableName'[j] = TopBlock.tables[j]
                          /\ j \in DOMAIN relNDV' /\ relNDV'[j] = tableName'[j]
        OBVIOUS
      <4>1. CASE j = i
        BY ONLY <1>1, <2>4, <3>2, <4>1
      <4>2. CASE j \in 1..Top.n /\ j # i
        <5>1. /\ tableName[j] = TopBlock.tables[j]
              /\ j \in DOMAIN relNDV /\ relNDV[j] = tableName[j]
          BY ONLY <3>1, <4>2 DEF TablesAdded
        <5> QED BY ONLY <2>4, <3>2, <4>2, <5>1
      <4> QED BY <3>3, <4>1, <4>2
    <3> QED BY <3>2, <3>4, <3>5 DEF TablesAdded
  <2>9. attrEsets' = <<>> /\ Top'.n <= Len(TopBlock'.tables)
    BY <1>0, <1>2, <1>4, <2>2, <2>3 DEF SessionInv
  <2> QED
    BY <1>0, <1>2, <1>7, <2>3, <2>5, <2>6, <2>7, <2>8, <2>9
    DEF SessionInv, PreparedOnlyAfterFailure
<1> QED BY <1>1, <1>6, <1>7

\* A nested block is optimized before the session of its parent is opened.
LEMMA OptimizeChildInv == SessionInv /\ OptimizeChild => SessionInv'
<1> SUFFICES ASSUME SessionInv, OptimizeChild PROVE SessionInv'
  OBVIOUS
<1>0. TypeOK /\ OneSession /\ frames # <<>> /\ Top.step = "extract"
  BY DEF SessionInv, OptimizeChild, At
<1>1. PICK c, grown : /\ c = TopBlock.children[Top.n + 1]
                      /\ grown = [frames EXCEPT ![Len(frames)].n = @ + 1]
                      /\ frames' = Append(grown, NewFrame(c))
  BY DEF OptimizeChild
<1>2. /\ UNCHANGED <<running, query, log, managerVars>>
      /\ Top.n < Len(TopBlock.children)
  BY DEF OptimizeChild
<1>3. /\ Top \in Frame /\ Top.n \in Nat /\ TopBlock.children \in Seq(Nat)
      /\ Len(frames) \in Nat \ {0} /\ DOMAIN frames = 1..Len(frames)
      /\ Top.block \in DOMAIN query.blocks /\ frames \in Seq(Frame)
  BY <1>0, TopFacts DEF Block, Frame, TypeOK
<1>4. c \in DOMAIN query.blocks /\ c \in Nat \ {0}
  <2>1. Top.n + 1 \in DOMAIN TopBlock.children
    BY <1>2, <1>3
  <2>2. query \in Queries /\ query \in Query
    BY <1>0, TopFacts DEF TypeOK
  <2>3. c \in DOMAIN query.blocks
    BY <1>1, <1>3, <2>1, <2>2, QueriesAssumption DEF TopBlock
  <2>4. query.blocks \in Seq(Block)
    BY <2>2 DEF Query
  <2> QED BY <2>3, <2>4
<1>5. /\ grown \in Seq(Frame) /\ Len(grown) = Len(frames)
      /\ \A f \in DOMAIN frames : /\ grown[f].step = frames[f].step
                                  /\ grown[f].block = frames[f].block
  <2>0. PICK m : m = Top.n + 1 /\ m \in Nat
    BY <1>3
  <2>1. PICK top : top = [Top EXCEPT !.n = m]
    OBVIOUS
  <2>2. top \in Frame /\ top.step = Top.step /\ top.block = Top.block
    BY <1>3, <2>0, <2>1 DEF Frame
  <2>3. grown = [frames EXCEPT ![Len(frames)] = top]
    BY <1>1, <1>3, <2>0, <2>1 DEF Top
  <2> QED BY <1>3, <2>2, <2>3 DEF Top
<1>6. NewFrame(c) \in Frame /\ NewFrame(c).step = "extract" /\ NewFrame(c).block = c
  BY <1>4 DEF NewFrame, Frame
<1>7. /\ frames' \in Seq(Frame) /\ Len(frames') = Len(frames) + 1
      /\ DOMAIN frames' = 1..(Len(frames) + 1)
      /\ frames'[Len(frames) + 1] = NewFrame(c)
      /\ \A f \in 1..Len(frames) : frames'[f] = grown[f]
  <2>1. PICK new : new = NewFrame(c)
    OBVIOUS
  <2>2. new \in Frame /\ frames' = Append(grown, new)
    BY <1>1, <1>6, <2>1
  <2> QED BY ONLY <1>3, <1>5, <2>1, <2>2
<1>8. \A f \in DOMAIN frames : frames[f].step = "extract"
  BY <1>0, <1>3 DEF OneSession, Top
<1>9. \A f \in DOMAIN frames' : /\ frames'[f].step = "extract"
                                /\ frames'[f].block \in DOMAIN query.blocks
  <2> SUFFICES ASSUME NEW f \in DOMAIN frames'
               PROVE  /\ frames'[f].step = "extract"
                      /\ frames'[f].block \in DOMAIN query.blocks
    OBVIOUS
  <2>1. CASE f = Len(frames) + 1
    BY ONLY <1>4, <1>6, <1>7, <2>1
  <2>2. CASE f \in 1..Len(frames)
    BY ONLY <1>0, <1>3, <1>5, <1>7, <1>8, <2>2 DEF TypeOK
  <2> QED BY <1>3, <1>7, <2>1, <2>2
<1>10. TypeOK'
  BY <1>0, <1>2, <1>7, <1>9 DEF TypeOK, managerVars
<1>11. ~InSession /\ ~InSession' /\ ~At("tables")' /\ ~At("edges")' /\ frames' # <<>>
  <2>1. Top'.step = "extract" /\ frames' # <<>>
    BY <1>3, <1>7, <1>9 DEF Top
  <2> QED BY <1>0, <2>1 DEF InSession, At
<1>12. OneSession' /\ StarsExact'
  BY <1>9, <1>11 DEF OneSession, StarsExact
<1> QED BY <1>0, <1>2, <1>10, <1>11, <1>12
        DEF SessionInv, managerVars, PreparedOnlyAfterFailure, FailedBefore

\* A block of one relation returns without a session.
LEMMA ReturnUnorderedInv == SessionInv /\ ReturnUnordered => SessionInv'
<1> SUFFICES ASSUME SessionInv, ReturnUnordered PROVE SessionInv'
  OBVIOUS
<1>1. frames # <<>> /\ Return /\ ~InSession /\ UNCHANGED <<running, query, managerVars>>
  BY DEF ReturnUnordered, Extracted, At, InSession
<1>2. prepared \in BOOLEAN /\ (prepared => FailedBefore(Len(log) + 1))
  BY <1>1 DEF SessionInv, TypeOK
<1> QED BY <1>1, <1>2, ReturnInv DEF managerVars

\* PrepareEstimate throws only in a session that an exception left open.
LEMMA PrepareThrowsInv == SessionInv /\ PrepareEstimateThrows => SessionInv'
<1> SUFFICES ASSUME SessionInv, PrepareEstimateThrows PROVE SessionInv'
  OBVIOUS
<1>1. /\ prepared /\ ~InSession /\ Fail("prepared")
      /\ UNCHANGED <<running, query, managerVars>>
  BY DEF PrepareEstimateThrows, Extracted, At, InSession
<1>2. FailedBefore(Len(log) + 1) /\ tableName \in Seq(Nat)
  BY <1>1 DEF SessionInv, TypeOK
<1> QED BY <1>1, <1>2, FailInv DEF managerVars

\* FinishEstimate closes the session.
LEMMA FinishInv == SessionInv /\ FinishEstimate => SessionInv'
<1> SUFFICES ASSUME SessionInv, FinishEstimate PROVE SessionInv'
  OBVIOUS
<1>1. /\ frames # <<>> /\ Return /\ prepared' = FALSE
      /\ UNCHANGED <<running, query, filterString, tableName, relNDV, attrEsets, query_id,
                     UseSingleTableCard>>
  BY DEF FinishEstimate, Enumerating, At
<1> QED BY <1>1, ReturnInv

(***************************************************************************)
(* A step of a session that keeps its tables: only the innermost frame and *)
(* the stars may change.                                                   *)
(***************************************************************************)
LEMMA EdgesInv ==
    ASSUME SessionInv, InSession, NEW f \in Frame, f.block = Top.block,
           f.step = "edges", Advance(f),
           UNCHANGED <<running, query, log, filterString, prepared, tableName,
                       relNDV, query_id, UseSingleTableCard>>,
           TablesAdded(Len(TopBlock.tables)),
           attrEsets' \in Seq(SUBSET Attr),
           IsPartition(attrEsets', {TopBlock.preds[i] : i \in 1..f.n})
    PROVE  SessionInv'
<1>0. TypeOK /\ OneSession /\ frames # <<>> /\ Top.step # "extract"
  BY DEF SessionInv, InSession, At
<1>1. /\ frames' \in Seq(Frame) /\ frames' # <<>> /\ Top' = f /\ TopBlock' = TopBlock
      /\ \A g \in DOMAIN frames' : frames'[g].block \in DOMAIN query'.blocks
      /\ \A g \in DOMAIN frames' : g # Len(frames') => frames'[g].step = "extract"
  BY <1>0, AdvanceFacts
<1>2. TypeOK'
  BY <1>0, <1>1 DEF TypeOK
<1>3. At("edges")' /\ ~At("tables")' /\ InSession'
  BY <1>1 DEF At, InSession
<1>4. prepared
  BY <1>0, TopFacts DEF OneSession, Top
<1>5. OneSession'
  BY <1>1, <1>4 DEF OneSession
<1>6. StarsExact'
  BY <1>1 DEF StarsExact, Added
<1>7. TablesAdded(Len(TopBlock.tables))'
  BY <1>1 DEF TablesAdded
<1> QED BY <1>0, <1>1, <1>2, <1>3, <1>5, <1>6, <1>7
        DEF SessionInv, PreparedOnlyAfterFailure

\* ResetCardinality ends the tables of the block, or fails.
LEMMA ResetInv == SessionInv /\ ResetCardinality => SessionInv'
<1> SUFFICES ASSUME SessionInv, ResetCardinality PROVE SessionInv'
  OBVIOUS
<1>0. /\ TypeOK /\ frames # <<>> /\ At("tables") /\ InSession
      /\ Top.n = Len(TopBlock.tables) /\ UNCHANGED <<running, query, managerVars>>
  BY DEF SessionInv, ResetCardinality, At, InSession
<1>1. /\ attrEsets = <<>> /\ TablesAdded(Len(TopBlock.tables))
      /\ tableName \in Seq(Nat) /\ attrEsets \in Seq(SUBSET Attr)
  BY <1>0 DEF SessionInv, TypeOK
<1>2. CASE Fail("filter")
  BY <1>0, <1>1, <1>2, FailInv DEF managerVars
<1>3. CASE Advance([Top EXCEPT !.step = "edges", !.n = 0]) /\ UNCHANGED log
  <2>1. PICK f : f = [Top EXCEPT !.step = "edges", !.n = 0]
    OBVIOUS
  <2>2. f \in Frame /\ f.block = Top.block /\ f.step = "edges" /\ f.n = 0
    BY <1>0, <2>1, TopFacts DEF Frame
  <2>3. {TopBlock.preds[i] : i \in 1..f.n} = {}
    BY <2>2
  <2>4. IsPartition(attrEsets', {TopBlock.preds[i] : i \in 1..f.n})
    <3>1. DOMAIN attrEsets' = {}
      BY <1>0, <1>1 DEF managerVars
    <3> QED BY <2>3, <3>1 DEF IsPartition
  <2> QED BY <1>0, <1>1, <1>3, <2>1, <2>2, <2>4, EdgesInv DEF managerVars
<1> QED BY <1>2, <1>3 DEF ResetCardinality

\* AddPredicate keeps the stars exact.
LEMMA AddPredicateInv == SessionInv /\ AddPredicate => SessionInv'
<1> SUFFICES ASSUME SessionInv, AddPredicate PROVE SessionInv'
  OBVIOUS
<1>0. TypeOK /\ frames # <<>> /\ At("edges") /\ InSession /\ Top.step = "edges"
  BY DEF SessionInv, AddPredicate, At, InSession
<1>1. PICK p, n : /\ n = Top.n + 1 /\ p = TopBlock.preds[n]
                  /\ attrEsets' = AddToStars(attrEsets, p[1], p[2])
                  /\ Advance([Top EXCEPT !.n = n])
  BY DEF AddPredicate
<1>2. /\ UNCHANGED <<running, query, log, filterString, prepared, tableName, relNDV,
                     query_id, UseSingleTableCard>>
      /\ Top.n < Len(TopBlock.preds)
  BY DEF AddPredicate
<1>3. /\ TopBlock.preds \in Seq(Attr \X Attr) /\ Len(TopBlock.preds) \in Nat
      /\ Top.n \in Nat /\ Top \in Frame /\ n \in Nat
  BY <1>0, <1>1, TopFacts DEF Block, Frame
<1>4. p \in Attr \X Attr
  BY <1>1, <1>2, <1>3
<1>5. p[1] \in Attr /\ p[2] \in Attr /\ p = <<p[1], p[2]>>
  BY <1>4
<1>6. /\ attrEsets \in Seq(SUBSET Attr) /\ IsPartition(attrEsets, Added)
      /\ TablesAdded(Len(TopBlock.tables))
  BY <1>0 DEF SessionInv, TypeOK, StarsExact
<1>7. /\ attrEsets' \in Seq(SUBSET Attr)
      /\ IsPartition(attrEsets', Added \cup {p})
  <2>1. PICK a, b : a = p[1] /\ b = p[2] /\ a \in Attr /\ b \in Attr
    BY <1>5
  <2>2. attrEsets' = AddToStars(attrEsets, a, b) /\ {p} = {<<a, b>>}
    BY <1>1, <1>5, <2>1
  <2>3. PICK P : P = Added
    OBVIOUS
  <2>4. /\ AddToStars(attrEsets, a, b) \in Seq(SUBSET Attr)
        /\ IsPartition(AddToStars(attrEsets, a, b), P \cup {<<a, b>>})
    BY <1>6, <2>1, <2>3, AddKeepsPartition
  <2> QED BY ONLY <2>2, <2>3, <2>4
<1>8. PICK f : f = [Top EXCEPT !.n = n]
  OBVIOUS
<1>9. f \in Frame /\ f.block = Top.block /\ f.step = "edges" /\ f.n = n
  BY <1>0, <1>3, <1>8 DEF Frame
<1>10. Added \cup {p} = {TopBlock.preds[i] : i \in 1..f.n}
  <2>1. \A i : i \in 1..n <=> (i \in 1..Top.n \/ i = n)
    BY <1>1, <1>3
  <2> QED BY <1>1, <1>9, <2>1 DEF Added
<1> QED BY <1>0, <1>1, <1>2, <1>6, <1>7, <1>8, <1>9, <1>10, EdgesInv

\* EstimateCardinality changes nothing but the estimator's cache, or fails.
LEMMA EstimateInv ==
    ASSUME SessionInv, NEW rels \in SUBSET DOMAIN TopBlock.tables,
           EstimateCardinality(rels)
    PROVE  SessionInv'
<1>0. /\ TypeOK /\ frames # <<>> /\ At("edges") /\ InSession /\ Top.step = "edges"
      /\ UNCHANGED <<running, query, managerVars>>
  BY DEF SessionInv, EstimateCardinality, Enumerating, At, InSession
<1>1. /\ attrEsets \in Seq(SUBSET Attr) /\ IsPartition(attrEsets, Added)
      /\ TablesAdded(Len(TopBlock.tables)) /\ tableName \in Seq(Nat)
  BY <1>0 DEF SessionInv, TypeOK, StarsExact
<1>2. CASE Fail("statistics")
  BY <1>0, <1>1, <1>2, FailInv DEF managerVars
<1>3. CASE Fail("filter")
  BY <1>0, <1>1, <1>3, FailInv DEF managerVars
<1>4. CASE Advance([Top EXCEPT !.estimated = @ \cup {rels}]) /\ UNCHANGED log
  <2>1. Top \in Frame /\ TopBlock.tables \in Seq(Nat)
    BY <1>0, TopFacts DEF Block
  <2>2. PICK e : e = Top.estimated \cup {rels} /\ e \in SUBSET SUBSET Nat
    <3>1. DOMAIN TopBlock.tables \subseteq Nat
      BY <2>1
    <3>2. Top.estimated \in SUBSET SUBSET Nat
      BY <2>1 DEF Frame
    <3>3. rels \in SUBSET Nat
      BY <3>1
    <3>4. Top.estimated \cup {rels} \in SUBSET SUBSET Nat
      BY ONLY <3>2, <3>3
    <3> QED BY <3>4
  <2>3. PICK f : f = [Top EXCEPT !.estimated = e]
    OBVIOUS
  <2>4. /\ f \in Frame /\ f.block = Top.block /\ f.step = "edges" /\ f.n = Top.n
    BY <1>0, <2>1, <2>2, <2>3 DEF Frame
  <2>5. Advance(f)
    BY <1>4, <2>2, <2>3
  <2> QED BY <1>0, <1>1, <1>4, <2>4, <2>5, EdgesInv DEF managerVars, Added
<1> QED BY <1>2, <1>3, <1>4 DEF EstimateCardinality

\* Between queries nothing of a session is visible.
LEMMA IdleInv ==
    ASSUME SessionInv, frames = <<>>, frames' = frames, query' \in Queries,
           running' \in BOOLEAN, filterString' \in Seq(STRING),
           UNCHANGED <<log, prepared, tableName, relNDV, attrEsets, query_id,
                       UseSingleTableCard>>
    PROVE  SessionInv'
<1>1. ~InSession /\ ~At("tables")' /\ ~At("edges")' /\ DOMAIN frames' = {}
  BY DEF InSession, At
<1>2. TypeOK'
  BY <1>1 DEF SessionInv, TypeOK
<1> QED BY <1>1, <1>2
        DEF SessionInv, OneSession, StarsExact, PreparedOnlyAfterFailure, FailedBefore

\* Every step of the specification preserves the invariant.
LEMMA NextInv == SessionInv /\ [Next]_vars => SessionInv'
<1> SUFFICES ASSUME SessionInv, [Next]_vars PROVE SessionInv'
  OBVIOUS
<1>1. CASE ParsePredicate
  BY <1>1, ParseInv
<1>2. CASE ParsePredicateThrows
  <2>1. PICK q \in Queries : query' = q /\ filterString' = ParsedFilters(q)
    BY <1>2 DEF ParsePredicateThrows
  <2>2. filterString' \in Seq(STRING)
    <3>1. q.filters \in Seq(STRING)
      BY QueriesAssumption DEF Query
    <3>2. <<>> \in Seq(STRING)
      OBVIOUS
    <3> QED BY <2>1, <3>1, <3>2 DEF ParsedFilters
  <2> QED BY <1>2, <2>1, <2>2, IdleInv DEF ParsePredicateThrows, Idle
<1>3. CASE EndOfFile
  BY <1>3, IdleInv DEF EndOfFile, managerVars, SessionInv, TypeOK
<1>4. CASE OptimizerStep
  <2>1. CASE \E rels \in SUBSET DOMAIN TopBlock.tables : EstimateCardinality(rels)
    BY <2>1, EstimateInv
  <2> QED BY <1>4, <2>1, OptimizeChildInv, ReturnUnorderedInv, PrepareInv,
             PrepareThrowsInv, AddTableInv, ResetInv, AddPredicateInv, FinishInv
          DEF OptimizerStep
<1>5. CASE UNCHANGED vars
  BY <1>5 DEF vars, managerVars, SessionInv, TypeOK, OneSession, StarsExact, Added,
              PreparedOnlyAfterFailure, FailedBefore, InSession, TablesAdded, At, Top,
              TopBlock
<1> QED BY <1>1, <1>2, <1>3, <1>4, <1>5 DEF Next, Ended
-----------------------------------------------------------------------------
(***************************************************************************)
(* The inductive invariant holds in every reachable state, for any set of  *)
(* queries and of summaries.                                               *)
(***************************************************************************)
THEOREM Invariant == Spec => []SessionInv
<1>1. Init => SessionInv
  BY InitInv
<1>2. SessionInv /\ [Next]_vars => SessionInv'
  BY NextInv
<1> QED BY <1>1, <1>2, PTL DEF Spec

(***************************************************************************)
(* Type correctness of the session's variables.                            *)
(***************************************************************************)
THEOREM TypeCorrect == Spec => []TypeOK
<1>1. SessionInv => TypeOK
  BY DEF SessionInv
<1> QED BY <1>1, Invariant, PTL

(***************************************************************************)
(* AddPredicate computes the equality classes of the block's predicates,   *)
(* for any number of predicates in any order, and no query, failed or not, *)
(* leaves a star to the next one.                                          *)
(***************************************************************************)
THEOREM StarsAreExact == Spec => []StarsExact
<1>1. SessionInv => StarsExact
  BY DEF SessionInv
<1> QED BY <1>1, Invariant, PTL

(***************************************************************************)
(* However deeply blocks are nested, only the innermost Optimize call is   *)
(* in a session.                                                           *)
(***************************************************************************)
THEOREM SessionsDoNotNest == Spec => []OneSession
<1>1. SessionInv => OneSession
  BY DEF SessionInv
<1> QED BY <1>1, Invariant, PTL

(***************************************************************************)
(* PrepareEstimate throws "Already prepared for estimation" only after     *)
(* another exception: every session that is not cut short is closed.       *)
(***************************************************************************)
THEOREM ThrowsOnlyAfterFailure == Spec => []PreparedOnlyAfterFailure
<1>1. SessionInv => PreparedOnlyAfterFailure
  BY DEF SessionInv
<1> QED BY <1>1, Invariant, PTL

(***************************************************************************)
(* An estimate never reads the table names, row counts or filters of       *)
(* another query or block, although relNDV is never cleared.               *)
(***************************************************************************)
THEOREM EstimatesReadTheirOwnQuery == Spec => []NothingStale
<1>1. SessionInv => NothingStale
  <2> SUFFICES ASSUME SessionInv, Enumerating
               PROVE  /\ tableName = TopBlock.tables
                      /\ \A i \in DOMAIN tableName : relNDV[i] = tableName[i]
                      /\ filterString = IF query.where THEN query.filters ELSE <<>>
    BY DEF NothingStale
  <2>1. TypeOK /\ frames # <<>> /\ TablesAdded(Len(TopBlock.tables))
    BY DEF SessionInv, Enumerating, At
  <2>2. tableName \in Seq(Nat) /\ TopBlock.tables \in Seq(Nat)
    BY <2>1, TopFacts DEF TypeOK, Block
  <2>3. /\ Len(tableName) = Len(TopBlock.tables)
        /\ \A i \in 1..Len(TopBlock.tables) : /\ tableName[i] = TopBlock.tables[i]
                                              /\ relNDV[i] = tableName[i]
    BY <2>1 DEF TablesAdded
  <2>4. tableName = TopBlock.tables
    <3>1. PICK s \in Seq(Nat) : s = TopBlock.tables
      BY <2>2
    <3>2. DOMAIN tableName = DOMAIN s
      BY <2>2, <2>3, <3>1
    <3>3. \A i \in DOMAIN s : tableName[i] = s[i]
      BY <2>3, <3>1
    <3>4. tableName = s
      BY ONLY <2>2, <3>2, <3>3
    <3> QED BY <3>1, <3>4
  <2>5. \A i \in DOMAIN tableName : relNDV[i] = tableName[i]
    BY <2>2, <2>3
  <2> QED BY <2>1, <2>4, <2>5 DEF SessionInv
<1> QED BY <1>1, Invariant, PTL
=============================================================================

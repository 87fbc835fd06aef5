-------------------------- MODULE DSStatisticProofs --------------------------
(***************************************************************************)
(* The properties of DSStatistic, for every database, every Berge-acyclic  *)
(* plan and every CompressPrecision.                                       *)
(***************************************************************************)
EXTENDS DSStatistic, FoldProofs, SequenceTheorems

(***************************************************************************)
(* Arithmetic.                                                             *)
(***************************************************************************)
LEMMA DivFacts ==
    ASSUME NEW a \in Nat, NEW b \in Nat \ {0}
    PROVE  /\ a \div b \in Nat /\ a % b \in Nat /\ a % b < b
           /\ a = b * (a \div b) + (a % b)
<1>1. PICK q \in Nat, r \in Nat : q = a \div b /\ a = b * q + r /\ r < b
  OBVIOUS
<1>2. PICK m \in Nat : m = a % b /\ m < b
  OBVIOUS
<1>3. a = b * (a \div b) + (a % b)
  BY Z3
<1> QED BY <1>1, <1>2, <1>3

LEMMA TimesNat ==
    ASSUME NEW a \in Nat, NEW b \in Nat
    PROVE  a * b \in Nat /\ a * b = b * a /\ (a > 0 /\ b > 0 => a * b > 0)
OBVIOUS

LEMMA TimesMonotone ==
    ASSUME NEW a \in Nat, NEW b \in Nat, NEW c \in Nat, a <= b
    PROVE  a * c <= b * c /\ c * a <= c * b
OBVIOUS

LEMMA Distributes ==
    ASSUME NEW a \in Int, NEW b \in Int, NEW c \in Int
    PROVE  /\ (a + b) * c = a * c + b * c /\ c * (a + b) = c * a + c * b
           /\ (a - b) * c = a * c - b * c /\ c * (a - b) = c * a - c * b
           /\ a * b \in Int /\ a * c \in Int /\ b * c \in Int
OBVIOUS

\* The larger quotient covers, the smaller one does not exceed.
LEMMA CeilDivFacts ==
    ASSUME NEW a \in Nat, NEW b \in Nat \ {0}
    PROVE  /\ CeilDiv(a, b) \in Nat /\ a <= b * CeilDiv(a, b)
           /\ (a > 0 => CeilDiv(a, b) > 0)
           /\ \A n \in Nat : a <= n * b => CeilDiv(a, b) <= n
           /\ (a > 1 /\ b > 1 => CeilDiv(a, b) < a)
<1>1. PICK q, r \in Nat : q = (a + b - 1) \div b /\ r = (a + b - 1) % b
                          /\ r < b /\ a + b - 1 = b * q + r
  <2>1. a + b - 1 \in Nat
    OBVIOUS
  <2> QED BY <2>1, DivFacts
<1>2. q = CeilDiv(a, b)
  BY <1>1 DEF CeilDiv
<1>3. a <= b * q
  BY <1>1
<1>4. a > 0 => q > 0
  BY <1>1
<1>5. ASSUME NEW n \in Nat, a <= n * b PROVE q <= n
  <2>1. b * q < b * (n + 1)
    <3>1. b * (n + 1) = n * b + b
      OBVIOUS
    <3>2. b * q <= a + b - 1 /\ b * q \in Nat /\ n * b \in Nat
      BY <1>1
    <3> QED BY <1>5, <3>1, <3>2
  <2>2. ASSUME q >= n + 1 PROVE b * q >= b * (n + 1)
    BY <2>2, TimesMonotone
  <2> QED BY <2>1, <2>2
<1>6. ASSUME a > 1, b > 1 PROVE q < a
  <2>1. a <= (a - 1) * b
    <3>1. (a - 1) * 2 <= (a - 1) * b
      <4>1. a - 1 \in Nat /\ 2 \in Nat /\ b \in Nat /\ 2 <= b
        BY <1>6
      <4> QED BY <4>1, TimesMonotone
    <3>2. (a - 1) * b \in Nat
      BY <1>6
    <3> QED BY <1>6, <3>1, <3>2
  <2>2. q <= a - 1
    BY <1>5, <1>6, <2>1
  <2> QED BY <1>6, <2>2
<1> QED BY <1>2, <1>3, <1>4, <1>5, <1>6

-----------------------------------------------------------------------------
(***************************************************************************)
(* Positions: a degree has a bucket.  The powers of a precision above 1    *)
(* grow at least linearly, so that one of them reaches the degree.         *)
(***************************************************************************)
Fraction == [num : Nat, den : Nat \ {0}]

PowersBody(f) ==
    [k \in Nat |->
        IF k = 0 THEN [num |-> 1, den |-> 1]
        ELSE [num |-> f[k - 1].num * CompressPrecision.num,
              den |-> f[k - 1].den * CompressPrecision.den]]

LEMMA PowersFacts ==
    /\ \A k \in Nat : Powers[k] \in Fraction
    /\ Powers[0] = [num |-> 1, den |-> 1]
    /\ \A k \in Nat : Powers[k + 1] = [num |-> Powers[k].num * CompressPrecision.num,
                                       den |-> Powers[k].den * CompressPrecision.den]
<1>1. PICK p, q : p = CompressPrecision.num /\ q = CompressPrecision.den
                  /\ p \in Nat /\ q \in Nat \ {0}
  BY PrecisionAssumption
<1>2. PICK Stop, rank, prev, B, G :
          /\ Stop = {0} /\ rank = [x \in Nat |-> x] /\ prev = [x \in Nat |-> x - 1]
          /\ B = [x \in Nat |-> [num |-> 1, den |-> 1]]
          /\ G = [x \in Nat |-> [a \in Fraction |-> [num |-> a.num * p, den |-> a.den * q]]]
  OBVIOUS
<1>3. Recurses(Nat, Stop, rank, prev)
  <2>1. \A x \in Nat \ Stop : prev[x] \in Nat /\ rank[prev[x]] < rank[x]
    BY <1>2
  <2> QED BY <1>2, <2>1 DEF Recurses
<1>4. \A x \in Stop : B[x] \in Fraction
  BY <1>2 DEF Fraction
<1>5. \A x \in Nat \ Stop : \A a \in Fraction : G[x][a] \in Fraction
  <2> SUFFICES ASSUME NEW x \in Nat \ Stop, NEW a \in Fraction PROVE G[x][a] \in Fraction
    OBVIOUS
  <2>1. PICK n \in Nat, d \in Nat \ {0} : n = a.num /\ d = a.den
    BY DEF Fraction
  <2>2. n * p \in Nat /\ d * q \in Nat /\ d * q > 0
    BY <1>1, <2>1, TimesNat
  <2>3. G[x][a] = [num |-> n * p, den |-> d * q]
    BY <1>2, <2>1
  <2>4. d * q \in Nat \ {0}
    BY <2>2
  <2> QED BY <2>2, <2>3, <2>4 DEF Fraction
<1>6. PICK f : IsRec(f, Nat, Stop, prev, Fraction, B, G)
  BY <1>3, <1>4, <1>5, RecDefined
<1>7. \A x \in Nat : f[x] \in Fraction /\ f[x] = IF x \in Stop THEN B[x] ELSE G[x][f[prev[x]]]
  BY <1>6 DEF IsRec
<1>8. f = PowersBody(f)
  <2>1. \A x \in Nat : f[x] = IF x = 0 THEN [num |-> 1, den |-> 1]
                              ELSE [num |-> f[x - 1].num * p, den |-> f[x - 1].den * q]
    <3> SUFFICES ASSUME NEW x \in Nat
                 PROVE  f[x] = IF x = 0 THEN [num |-> 1, den |-> 1]
                               ELSE [num |-> f[x - 1].num * p, den |-> f[x - 1].den * q]
      OBVIOUS
    <3>1. CASE x = 0
      BY <1>2, <1>7, <3>1
    <3>2. CASE x # 0
      <4>1. x - 1 \in Nat /\ prev[x] = x - 1 /\ x \notin Stop
        BY <1>2, <3>2
      <4>2. f[x - 1] \in Fraction /\ f[x] = G[x][f[x - 1]]
        BY <1>7, <4>1
      <4> QED BY <1>2, <3>2, <4>2
    <3> QED BY <3>1, <3>2
  <2>2. f = [x \in Nat |-> f[x]]
    BY <1>6 DEF IsRec
  <2> QED BY <1>1, <2>1, <2>2 DEF PowersBody
<1>9. Powers = PowersBody(Powers)
  BY <1>8 DEF Powers, PowersBody
<1>10. PICK w : w = Powers
  OBVIOUS
<1>11. \A x \in Nat : w[x] = IF x = 0 THEN [num |-> 1, den |-> 1]
                             ELSE [num |-> w[x - 1].num * p, den |-> w[x - 1].den * q]
  BY <1>1, <1>9, <1>10 DEF PowersBody
<1>12. PICK Good : Good = {x \in Nat : w[x] \in Fraction}
  OBVIOUS
<1>13. Stop \in SUBSET Good
  <2>1. w[0] = [num |-> 1, den |-> 1]
    BY <1>11
  <2>2. w[0] \in Fraction
    BY <2>1 DEF Fraction
  <2> QED BY <1>2, <1>12, <2>2
<1>14. \A x \in Nat \ Stop : prev[x] \in Good => x \in Good
  <2> SUFFICES ASSUME NEW x \in Nat \ Stop, prev[x] \in Good PROVE x \in Good
    OBVIOUS
  <2>1. prev[x] = x - 1 /\ x # 0 /\ w[x - 1] \in Fraction
    BY <1>2, <1>12
  <2>2. w[x] = G[x][w[x - 1]]
    BY <1>2, <1>11, <2>1
  <2> QED BY <1>5, <1>12, <2>1, <2>2
<1>15. \A x \in Nat : x \in Good
  BY <1>3, <1>13, <1>14, RecInduction
<1>16. \A k \in Nat : w[k + 1] = [num |-> w[k].num * p, den |-> w[k].den * q]
  <2> SUFFICES ASSUME NEW k \in Nat
               PROVE  w[k + 1] = [num |-> w[k].num * p, den |-> w[k].den * q]
    OBVIOUS
  <2>1. k + 1 \in Nat /\ k + 1 # 0 /\ (k + 1) - 1 = k
    OBVIOUS
  <2> QED BY <1>11, <2>1
<1>17. w[0] = [num |-> 1, den |-> 1]
  BY <1>11
<1> QED BY <1>1, <1>10, <1>12, <1>15, <1>16, <1>17

\* (p / q)^k >= 1 + k / q, by one factor.
LEMMA PowerStep ==
    ASSUME NEW n \in Nat, NEW d \in Nat, NEW p \in Nat, NEW q \in Nat \ {0}, NEW k \in Nat,
           p > q, d * (q + k) <= n * q
    PROVE  (d * q) * (q + (k + 1)) <= (n * p) * q
<1>1. PICK a \in Nat : a = n * q /\ d * (q + k) <= a
  BY TimesNat
<1>2. (d * (q + k)) * (q + 1) <= a * (q + 1) /\ a * (q + 1) <= a * p
  <2>1. d * (q + k) \in Nat /\ q + 1 \in Nat /\ q + 1 <= p
    BY TimesNat
  <2> QED BY <1>1, <2>1, TimesMonotone
<1>3. a * p = (n * p) * q
  BY <1>1
<1>4. (d * (q + k)) * (q + 1) = (d * q) * (q + (k + 1)) + d * k
  OBVIOUS
<1>5. d * k \in Nat /\ (d * q) * (q + (k + 1)) \in Nat
  BY TimesNat
<1> QED BY <1>2, <1>3, <1>4, <1>5

LEMMA PowersGrow ==
    ASSUME CompressPrecision.num > CompressPrecision.den
    PROVE  \A k \in Nat : Powers[k].den * (CompressPrecision.den + k)
                          <= Powers[k].num * CompressPrecision.den
<1>1. PICK p, q : p = CompressPrecision.num /\ q = CompressPrecision.den
                  /\ p \in Nat /\ q \in Nat \ {0} /\ p > q
  BY PrecisionAssumption
<1>2. PICK w : w = Powers /\ \A k \in Nat : w[k] \in Fraction
  BY PowersFacts
<1> DEFINE Bad == {k \in Nat : ~(w[k].den * (q + k) <= w[k].num * q)}
<1>3. ASSUME Bad # {} PROVE FALSE
  <2>1. PICK k \in Bad : \A m \in Bad : k <= m
    <3>1. Bad \in SUBSET Nat
      OBVIOUS
    <3> HIDE DEF Bad
    <3> QED BY <1>3, <3>1, LeastNat
  <2>2. k # 0
    <3>1. w[0] = [num |-> 1, den |-> 1]
      BY <1>2, PowersFacts
    <3>2. w[0].den * (q + 0) <= w[0].num * q
      BY <1>1, <3>1
    <3> QED BY <3>2
  <2>3. PICK m \in Nat : k = m + 1 /\ m \notin Bad
    <3>1. k - 1 \in Nat /\ k = (k - 1) + 1 /\ ~(k <= k - 1)
      BY <2>2
    <3> HIDE DEF Bad
    <3> QED BY <2>1, <3>1
  <2>4. PICK n \in Nat, d \in Nat : n = w[m].num /\ d = w[m].den
    BY <1>2 DEF Fraction
  <2>5. d * (q + m) <= n * q
    BY <2>3, <2>4
  <2>6. (d * q) * (q + (m + 1)) <= (n * p) * q
    BY <1>1, <2>4, <2>5, PowerStep
  <2>7. w[m + 1] = [num |-> n * p, den |-> d * q]
    BY <1>1, <1>2, <2>4, PowersFacts
  <2>8. w[k].den * (q + k) <= w[k].num * q
    BY <2>3, <2>6, <2>7
  <2> QED BY <2>8
<1>4. \A k \in Nat : w[k].den * (q + k) <= w[k].num * q
  BY <1>3
<1> QED BY <1>1, <1>2, <1>4

LEMMA ReachesSome ==
    ASSUME NEW degree \in Nat, CompressPrecision.num > CompressPrecision.den
    PROVE  Reaches(degree * CompressPrecision.den, degree)
<1>1. PICK q \in Nat \ {0} : q = CompressPrecision.den
  BY PrecisionAssumption
<1>2. PICK k \in Nat : k = degree * q
  BY <1>1, TimesNat
<1>3. PICK n \in Nat, d \in Nat : n = Powers[k].num /\ d = Powers[k].den
  BY <1>2, PowersFacts DEF Fraction
<1>4. d * (q + k) <= n * q
  BY <1>1, <1>2, <1>3, PowersGrow
<1>5. d * (q + k) = d * q + (degree * d) * q
  BY <1>1, <1>2, <1>3
<1>6. d * q \in Nat /\ degree * d \in Nat
  BY <1>1, <1>3, TimesNat
<1>7. PICK e \in Nat : e = degree * d
  BY <1>6
<1>8. e * q <= n * q
  <2>1. e * q \in Nat /\ n * q \in Nat
    BY <1>1, <1>3, <1>7, TimesNat
  <2> QED BY <1>4, <1>5, <1>6, <1>7, <2>1
<1>9. e <= n
  <2>1. ASSUME n + 1 <= e PROVE FALSE
    <3>1. (n + 1) * q <= e * q
      BY <1>1, <1>3, <1>7, <2>1, TimesMonotone
    <3>2. (n + 1) * q = n * q + q
      OBVIOUS
    <3>3. n * q \in Nat /\ e * q \in Nat
      BY TimesNat
    <3> QED BY <1>8, <3>1, <3>2, <3>3
  <2> QED BY <1>3, <1>7, <2>1
<1> QED BY <1>1, <1>2, <1>3, <1>7, <1>9 DEF Reaches

LEMMA CeilLogFacts ==
    ASSUME NEW degree \in Nat, CompressPrecision.num > CompressPrecision.den
    PROVE  /\ CeilLog(degree) \in Nat /\ Reaches(CeilLog(degree), degree)
           /\ \A j \in Nat : Reaches(j, degree) => CeilLog(degree) <= j
<1>1. PICK top \in Nat : top = degree * CompressPrecision.den
  BY PrecisionAssumption, TimesNat
<1> DEFINE R == {k \in Nat : Reaches(k, degree)}
<1>2. top \in R
  BY <1>1, ReachesSome
<1>3. PICK k \in R : \A j \in R : k <= j
  <2>1. R \in SUBSET Nat /\ R # {}
    BY <1>2
  <2> HIDE DEF R
  <2> QED BY <2>1, LeastNat
<1> DEFINE Least(l) == Reaches(l, degree) /\ \A j \in 0..(l - 1) : ~Reaches(j, degree)
<1>4. k \in 0..top /\ Least(k)
  <2>1. k \in Nat /\ Reaches(k, degree) /\ k <= top
    BY <1>2, <1>3
  <2>2. \A j \in 0..(k - 1) : ~Reaches(j, degree)
    <3> SUFFICES ASSUME NEW j \in 0..(k - 1), Reaches(j, degree) PROVE FALSE
      OBVIOUS
    <3>1. j \in R /\ ~(k <= j)
      BY <2>1
    <3> QED BY <1>3, <3>1
  <2> QED BY <2>1, <2>2
<1>5. CeilLog(degree) = CHOOSE l \in 0..top : Least(l)
  BY <1>1 DEF CeilLog
<1>6. PICK l : l = CeilLog(degree) /\ l \in 0..top /\ Least(l)
  <2> HIDE DEF Least
  <2> QED BY <1>4, <1>5
<1>7. \A j \in Nat : Reaches(j, degree) => l <= j
  <2> SUFFICES ASSUME NEW j \in Nat, Reaches(j, degree), ~(l <= j) PROVE FALSE
    BY <1>6
  <2>1. j \in 0..(l - 1)
    BY <1>6
  <2> QED BY <1>6, <2>1
<1> QED BY <1>6, <1>7

LEMMA PositionType ==
    ASSUME NEW degree \in Nat
    PROVE  Position(degree) \in Nat \ {0}
<1>1. CASE degree <= 1 \/ CompressPrecision.num <= CompressPrecision.den
  BY <1>1 DEF Position
<1>2. CASE ~(degree <= 1 \/ CompressPrecision.num <= CompressPrecision.den)
  <2>1. CompressPrecision.num > CompressPrecision.den
    BY <1>2, PrecisionAssumption
  <2>2. CeilLog(degree) \in Nat
    BY <2>1, CeilLogFacts
  <2> QED BY <1>2, <2>2 DEF Position
<1> QED BY <1>1, <1>2

-----------------------------------------------------------------------------
(***************************************************************************)
(* Sums of numbers.                                                        *)
(***************************************************************************)
\* One member's value is another one.
LEMMA SumChanged ==
    ASSUME NEW S, NEW f, NEW g, Nats(f, S), Nats(g, S), NEW a \in S,
           \A x \in S \ {a} : f[x] = g[x]
    PROVE  SumOf(f, S) + g[a] = SumOf(g, S) + f[a]
<1>1. SumOf(f, S \ {a}) = SumOf(g, S \ {a})
  BY SumExtensional
<1>2. /\ SumOf(f, S) = f[a] + SumOf(f, S \ {a}) /\ f[a] \in Nat
      /\ SumOf(f, S \ {a}) \in Nat
  BY SumTakeOut
<1>3. SumOf(g, S) = g[a] + SumOf(g, S \ {a}) /\ g[a] \in Nat
  BY SumTakeOut
<1> QED BY <1>1, <1>2, <1>3

LEMMA SumMonotone ==
    ASSUME NEW S, NEW f, NEW g, Nats(f, S), Nats(g, S), \A x \in S : f[x] <= g[x]
    PROVE  SumOf(f, S) <= SumOf(g, S)
<1>1. PICK pick : pick = AnyOf(S) /\ Picks(pick, S)
  BY AnyOfPicks
<1>2. PICK Good : Good = {s \in SUBSET S : SumOf(f, s) <= SumOf(g, s)}
  OBVIOUS
<1>3. {} \in Good
  BY <1>2, SumEmpty
<1>4. ASSUME NEW s \in SUBSET S, s # {}, s \ {pick[s]} \in Good PROVE s \in Good
  <2>1. PICK x \in s : x = pick[s]
    BY <1>1, <1>4 DEF Picks
  <2>2. Nats(f, s) /\ Nats(g, s)
    BY NatsOfPart
  <2>3. /\ SumOf(f, s) = f[x] + SumOf(f, s \ {x}) /\ f[x] \in Nat
        /\ SumOf(f, s \ {x}) \in Nat
    BY <2>2, SumTakeOut
  <2>4. /\ SumOf(g, s) = g[x] + SumOf(g, s \ {x}) /\ g[x] \in Nat
        /\ SumOf(g, s \ {x}) \in Nat
    BY <2>2, SumTakeOut
  <2>5. SumOf(f, s \ {x}) <= SumOf(g, s \ {x}) /\ f[x] <= g[x]
    BY <1>2, <1>4, <2>1
  <2> QED BY <1>2, <2>3, <2>4, <2>5
<1>5. IsFiniteSet(S) /\ Picks(pick, S)
  BY <1>1 DEF Nats
<1>6. \A s \in SUBSET S : s \in Good
  BY ONLY <1>3, <1>4, <1>5, FoldInduction
<1> QED BY <1>2, <1>6

LEMMA SumLinear ==
    ASSUME NEW S, NEW f, NEW g, NEW h, Nats(f, S), Nats(g, S), Nats(h, S),
           NEW a \in Nat, NEW b \in Nat, \A x \in S : h[x] = a * f[x] + b * g[x]
    PROVE  SumOf(h, S) = a * SumOf(f, S) + b * SumOf(g, S)
<1>1. PICK pick : pick = AnyOf(S) /\ Picks(pick, S)
  BY AnyOfPicks
<1>2. PICK Good : Good = {s \in SUBSET S :
                             SumOf(h, s) = a * SumOf(f, s) + b * SumOf(g, s)}
  OBVIOUS
<1>3. {} \in Good
  <2>1. SumOf(f, {}) = 0 /\ SumOf(g, {}) = 0 /\ SumOf(h, {}) = 0
    BY SumEmpty
  <2> QED BY <1>2, <2>1
<1>4. ASSUME NEW s \in SUBSET S, s # {}, s \ {pick[s]} \in Good PROVE s \in Good
  <2>1. PICK x \in s : x = pick[s]
    BY <1>1, <1>4 DEF Picks
  <2>2. Nats(f, s) /\ Nats(g, s) /\ Nats(h, s)
    BY NatsOfPart
  <2>3. PICK u \in Nat, v \in Nat : /\ SumOf(f, s) = u + v
                                    /\ u = f[x] /\ v = SumOf(f, s \ {x})
    BY <2>2, SumTakeOut
  <2>4. PICK w \in Nat, y \in Nat : /\ SumOf(g, s) = w + y
                                    /\ w = g[x] /\ y = SumOf(g, s \ {x})
    BY <2>2, SumTakeOut
  <2>5. SumOf(h, s) = h[x] + SumOf(h, s \ {x})
    BY <2>2, SumTakeOut
  <2>6. SumOf(h, s \ {x}) = a * v + b * y /\ h[x] = a * u + b * w
    BY <1>2, <1>4, <2>1, <2>3, <2>4
  <2>7. SumOf(h, s) = a * (u + v) + b * (w + y)
    BY <2>5, <2>6
  <2> QED BY <1>2, <2>3, <2>4, <2>7
<1>5. IsFiniteSet(S) /\ Picks(pick, S)
  BY <1>1 DEF Nats
<1>6. \A s \in SUBSET S : s \in Good
  BY ONLY <1>3, <1>4, <1>5, FoldInduction
<1> QED BY <1>2, <1>6

\* Sums over an initial part of a sequence.
LEMMA SumNext ==
    ASSUME NEW n \in Nat, NEW f, \A i \in 1..(n + 1) : f[i] \in Nat
    PROVE  SumOf(f, 1..(n + 1)) = SumOf(f, 1..n) + f[n + 1]
<1>1. Nats(f, 1..(n + 1))
  BY FS_Interval DEF Nats
<1>2. (1..(n + 1)) \ {n + 1} = 1..n /\ n + 1 \in 1..(n + 1)
  OBVIOUS
<1>3. PICK x : x = n + 1
  OBVIOUS
<1>4. /\ SumOf(f, 1..(n + 1)) = f[x] + SumOf(f, (1..(n + 1)) \ {x})
      /\ f[x] \in Nat /\ SumOf(f, (1..(n + 1)) \ {x}) \in Nat
  BY <1>1, <1>2, <1>3, SumTakeOut
<1>5. SumOf(f, (1..(n + 1)) \ {x}) = SumOf(f, 1..n)
  BY <1>2, <1>3
<1>6. PICK u, v : u = f[n + 1] /\ v = SumOf(f, 1..n) /\ u \in Nat /\ v \in Nat
  BY <1>3, <1>4, <1>5
<1>7. SumOf(f, 1..(n + 1)) = u + v
  BY <1>3, <1>4, <1>5, <1>6
<1> QED BY <1>6, <1>7

LEMMA SumParts ==
    ASSUME NEW m \in Nat, NEW n \in Nat, NEW f, NEW g, NEW h,
           \A i \in 1..m : f[i] \in Nat /\ h[i] = f[i],
           \A i \in 1..n : g[i] \in Nat /\ h[m + i] = g[i]
    PROVE  SumOf(h, 1..(m + n)) = SumOf(f, 1..m) + SumOf(g, 1..n)
<1> DEFINE Bad == {k \in Nat : k <= n /\ SumOf(h, 1..(m + k)) # SumOf(f, 1..m) + SumOf(g, 1..k)}
<1>1. ASSUME Bad # {} PROVE FALSE
  <2>1. PICK k \in Bad : \A l \in Bad : k <= l
    <3>1. Bad \in SUBSET Nat
      OBVIOUS
    <3> HIDE DEF Bad
    <3> QED BY <1>1, <3>1, LeastNat
  <2>2. /\ k \in Nat /\ k <= n
        /\ SumOf(h, 1..(m + k)) # SumOf(f, 1..m) + SumOf(g, 1..k)
    OBVIOUS
  <2>3. k # 0
    <3>1. SumOf(h, 1..m) = SumOf(f, 1..m)
      BY SumExtensional
    <3>2. Nats(f, 1..m) /\ 1..m \in SUBSET (1..m)
      BY FS_Interval DEF Nats
    <3>3. SumOf(f, 1..m) \in Nat
      BY <3>2, NatsOfPart
    <3>4. 1..0 = {} /\ m + 0 = m
      OBVIOUS
    <3>5. SumOf(g, 1..0) = 0
      BY <3>4, SumEmpty
    <3>6. ASSUME k = 0 PROVE FALSE
      <4>1. SumOf(h, 1..(m + 0)) = SumOf(h, 1..m)
        BY <3>4
      <4>2. SumOf(h, 1..(m + 0)) # SumOf(f, 1..m) + SumOf(g, 1..0)
        BY <2>2, <3>6
      <4>3. PICK u \in Nat : u = SumOf(f, 1..m)
        BY <3>3
      <4>4. u # u + 0
        BY <3>1, <3>5, <4>1, <4>2, <4>3
      <4> QED BY <4>4
    <3> QED BY <3>6
  <2>4. PICK l \in Nat : k = l + 1
    <3>1. k - 1 \in Nat /\ k = (k - 1) + 1
      BY <2>2, <2>3
    <3> QED BY <3>1
  <2>5. SumOf(h, 1..(m + l)) = SumOf(f, 1..m) + SumOf(g, 1..l)
    <3>1. ~(k <= l) /\ l <= n
      BY <2>2, <2>4
    <3>2. l \notin Bad
      <4> HIDE DEF Bad
      <4> QED BY <2>1, <3>1
    <3> QED BY <3>1, <3>2
  <2>6. SumOf(g, 1..(l + 1)) = SumOf(g, 1..l) + g[l + 1]
    <3>1. \A i \in 1..(l + 1) : g[i] \in Nat
      BY <2>2, <2>4
    <3> QED BY <3>1, SumNext
  <2>7. SumOf(h, 1..((m + l) + 1)) = SumOf(h, 1..(m + l)) + h[(m + l) + 1]
    <3>1. ASSUME NEW i \in 1..((m + l) + 1) PROVE h[i] \in Nat
      <4>1. CASE i <= m
        BY <4>1
      <4>2. CASE i > m
        <5>1. i - m \in 1..n /\ m + (i - m) = i
          BY <2>2, <2>4, <4>2
        <5>2. h[m + (i - m)] = g[i - m] /\ g[i - m] \in Nat
          BY <5>1
        <5> QED BY <5>1, <5>2
      <4> QED BY <4>1, <4>2
    <3>2. m + l \in Nat
      OBVIOUS
    <3> QED BY <3>1, <3>2, SumNext
  <2>8. h[(m + l) + 1] = g[l + 1] /\ (m + l) + 1 = m + k
    <3>1. l + 1 \in 1..n /\ (m + l) + 1 = m + (l + 1) /\ m + (l + 1) = m + k
      BY <2>2, <2>4
    <3>2. h[m + (l + 1)] = g[l + 1]
      BY <3>1
    <3> QED BY <3>1, <3>2
  <2>9. SumOf(f, 1..m) \in Nat /\ SumOf(g, 1..l) \in Nat /\ g[l + 1] \in Nat
    <3>1. Nats(f, 1..m) /\ Nats(g, 1..l) /\ g[l + 1] \in Nat
      <4>1. \A i \in 1..l : i \in 1..n
        BY <2>2, <2>4
      <4>2. l + 1 \in 1..n
        BY <2>2, <2>4
      <4>3. IsFiniteSet(1..m) /\ IsFiniteSet(1..l)
        BY FS_Interval
      <4>4. \A i \in 1..l : g[i] \in Nat
        BY <4>1
      <4> QED BY <4>2, <4>3, <4>4 DEF Nats
    <3>2. 1..m \in SUBSET (1..m) /\ 1..l \in SUBSET (1..l)
      OBVIOUS
    <3> QED BY <3>1, <3>2, NatsOfPart
  <2>10. SumOf(h, 1..(m + k)) = (SumOf(f, 1..m) + SumOf(g, 1..l)) + g[l + 1]
    BY <2>5, <2>7, <2>8
  <2>11. SumOf(g, 1..k) = SumOf(g, 1..l) + g[l + 1]
    BY <2>4, <2>6
  <2> QED BY <2>2, <2>9, <2>10, <2>11
<1>2. n \notin Bad
  BY <1>1
<1> QED BY <1>2

-----------------------------------------------------------------------------
(***************************************************************************)
(* What a degree sequence adds up to.                                      *)
(***************************************************************************)
Amounts(s) == [i \in DOMAIN s |-> s[i].count * s[i].maxDegree]
Counts(s) == [i \in DOMAIN s |-> s[i].count]
Sums(s) == [i \in DOMAIN s |-> s[i].sum]

CardBody(s, iter) ==
    [d \in SUBSET DOMAIN s |->
        IF d = {} THEN 0
        ELSE s[Pick(d)].count * s[Pick(d)].maxDegree + iter[d \ {Pick(d)}]]

NDVBody(s, iter) ==
    [d \in SUBSET DOMAIN s |->
        IF d = {} THEN 0 ELSE s[Pick(d)].count + iter[d \ {Pick(d)}]]

AddedBody(s, iter) ==
    [d \in SUBSET DOMAIN s |->
        IF d = {} THEN 0 ELSE s[Pick(d)].sum + iter[d \ {Pick(d)}]]

LEMMA CardIsSum ==
    ASSUME NEW s
    PROVE  GetCard(s) = SumOf(Amounts(s), DOMAIN s)
<1>1. GetCard(s) = (CHOOSE iter : iter = CardBody(s, iter))[DOMAIN s]
  BY DEF GetCard, MapThenSumSet, MapThenFoldSet, Pick, CardBody
<1>2. \A d \in SUBSET DOMAIN s :
         d # {} => Amounts(s)[Pick(d)] = s[Pick(d)].count * s[Pick(d)].maxDegree
  BY PickIn DEF Amounts
<1>3. \A iter : CardBody(s, iter) = SumBody(Amounts(s), DOMAIN s, iter)
  BY <1>2 DEF CardBody, SumBody
<1>4. (CHOOSE iter : iter = CardBody(s, iter)) = SumIter(Amounts(s), DOMAIN s)
  BY <1>3 DEF SumIter
<1> QED BY <1>1, <1>4, SumUnfold

LEMMA NDVIsSum ==
    ASSUME NEW s
    PROVE  GetNDV(s) = SumOf(Counts(s), DOMAIN s)
<1>1. GetNDV(s) = (CHOOSE iter : iter = NDVBody(s, iter))[DOMAIN s]
  BY DEF GetNDV, MapThenSumSet, MapThenFoldSet, Pick, NDVBody
<1>2. \A d \in SUBSET DOMAIN s : d # {} => Counts(s)[Pick(d)] = s[Pick(d)].count
  BY PickIn DEF Counts
<1>3. \A iter : NDVBody(s, iter) = SumBody(Counts(s), DOMAIN s, iter)
  BY <1>2 DEF NDVBody, SumBody
<1>4. (CHOOSE iter : iter = NDVBody(s, iter)) = SumIter(Counts(s), DOMAIN s)
  BY <1>3 DEF SumIter
<1> QED BY <1>1, <1>4, SumUnfold

LEMMA AddedIsSum ==
    ASSUME NEW s
    PROVE  AddedUp(s) = SumOf(Sums(s), DOMAIN s)
<1>1. AddedUp(s) = (CHOOSE iter : iter = AddedBody(s, iter))[DOMAIN s]
  BY DEF AddedUp, MapThenSumSet, MapThenFoldSet, Pick, AddedBody
<1>2. \A d \in SUBSET DOMAIN s : d # {} => Sums(s)[Pick(d)] = s[Pick(d)].sum
  BY PickIn DEF Sums
<1>3. \A iter : AddedBody(s, iter) = SumBody(Sums(s), DOMAIN s, iter)
  BY <1>2 DEF AddedBody, SumBody
<1>4. (CHOOSE iter : iter = AddedBody(s, iter)) = SumIter(Sums(s), DOMAIN s)
  BY <1>3 DEF SumIter
<1> QED BY <1>1, <1>4, SumUnfold

LEMMA FunctionIsSeq ==
    ASSUME NEW S, NEW n \in Nat, NEW f \in [1..n -> S]
    PROVE  f \in Seq(S) /\ Len(f) = n /\ DOMAIN f = 1..n
OBVIOUS

\* The buckets of a degree sequence.
AnyBucket == [maxDegree : Nat, count : Nat]

Degrees(s) == s \in Seq(AnyBucket)

LEMMA DegreesFacts ==
    ASSUME NEW s, Degrees(s)
    PROVE  /\ Len(s) \in Nat /\ DOMAIN s = 1..Len(s)
           /\ \A i \in DOMAIN s : /\ s[i].count \in Nat /\ s[i].maxDegree \in Nat
                                  /\ s[i] = [maxDegree |-> s[i].maxDegree,
                                             count |-> s[i].count]
                                  /\ Amounts(s)[i] = s[i].count * s[i].maxDegree
                                  /\ Amounts(s)[i] \in Nat
                                  /\ Counts(s)[i] = s[i].count /\ Counts(s)[i] \in Nat
           /\ Nats(Amounts(s), DOMAIN s) /\ Nats(Counts(s), DOMAIN s)
           /\ GetCard(s) \in Nat /\ GetNDV(s) \in Nat
<1>1. Len(s) \in Nat /\ DOMAIN s = 1..Len(s)
  BY DEF Degrees
<1>2. \A i \in DOMAIN s : s[i] \in AnyBucket
  BY <1>1, ElementOfSeq DEF Degrees
<1>3. ASSUME NEW i \in DOMAIN s
      PROVE  /\ s[i].count \in Nat /\ s[i].maxDegree \in Nat
             /\ s[i] = [maxDegree |-> s[i].maxDegree, count |-> s[i].count]
             /\ Amounts(s)[i] = s[i].count * s[i].maxDegree
             /\ Amounts(s)[i] \in Nat
             /\ Counts(s)[i] = s[i].count /\ Counts(s)[i] \in Nat
  <2>1. s[i] \in [maxDegree : Nat, count : Nat]
    BY <1>2 DEF AnyBucket
  <2>2. s[i].count \in Nat /\ s[i].maxDegree \in Nat
    BY <2>1
  <2>3. s[i].count * s[i].maxDegree \in Nat
    BY <2>2, TimesNat
  <2> QED BY <2>1, <2>2, <2>3 DEF Amounts, Counts
<1>4. Nats(Amounts(s), DOMAIN s) /\ Nats(Counts(s), DOMAIN s)
  <2>1. IsFiniteSet(DOMAIN s)
    BY <1>1, FS_Interval
  <2> QED BY <1>3, <2>1 DEF Nats
<1>5. GetCard(s) \in Nat /\ GetNDV(s) \in Nat
  BY <1>4, CardIsSum, NDVIsSum, SumNat DEF Nats
<1> QED BY <1>1, <1>3, <1>4, <1>5

\* The first i buckets.
LEMMA UpToFacts ==
    ASSUME NEW s, Degrees(s), NEW i \in 0..Len(s)
    PROVE  /\ Degrees(SubSeq(s, 1, i)) /\ Len(SubSeq(s, 1, i)) = i
           /\ \A j \in 1..i : SubSeq(s, 1, i)[j] = s[j]
           /\ CardUpTo(s, i) = SumOf(Amounts(s), 1..i) /\ CardUpTo(s, i) \in Nat
           /\ NDVUpTo(s, i) = SumOf(Counts(s), 1..i) /\ NDVUpTo(s, i) \in Nat
<1>1. Len(s) \in Nat /\ DOMAIN s = 1..Len(s) /\ s \in Seq(AnyBucket)
  BY DegreesFacts DEF Degrees
<1>2. PICK u : u = SubSeq(s, 1, i)
  OBVIOUS
<1>3. /\ u \in Seq(AnyBucket) /\ Len(u) = i
      /\ \A j \in 1..i : u[j] = s[j]
  <2>1. i \in Int /\ 1 \in Int /\ \A j \in 1..i : j \in 1..Len(s)
    BY <1>1
  <2>2. \A j \in 1..i : s[j] \in AnyBucket
    BY <1>1, <2>1, ElementOfSeq
  <2>3. /\ u \in Seq(AnyBucket) /\ Len(u) = IF 1 <= i THEN i - 1 + 1 ELSE 0
        /\ \A j \in 1..(i - 1 + 1) : u[j] = s[1 + j - 1]
    BY <1>2, <2>1, <2>2, SubSeqProperties
  <2> QED BY <1>1, <2>3
<1>4. DOMAIN u = 1..i /\ Degrees(u)
  BY <1>3 DEF Degrees
<1>5. \A j \in 1..i : Amounts(u)[j] = Amounts(s)[j] /\ Counts(u)[j] = Counts(s)[j]
  <2>1. \A j \in 1..i : j \in DOMAIN s /\ j \in DOMAIN u
    BY <1>1, <1>4
  <2> QED BY <1>3, <2>1 DEF Amounts, Counts
<1>6. GetCard(u) = SumOf(Amounts(s), 1..i) /\ GetNDV(u) = SumOf(Counts(s), 1..i)
  BY <1>4, <1>5, CardIsSum, NDVIsSum, SumExtensional
<1>7. GetCard(u) \in Nat /\ GetNDV(u) \in Nat
  BY <1>4, DegreesFacts
<1> QED BY <1>2, <1>3, <1>4, <1>6, <1>7 DEF CardUpTo, NDVUpTo

-----------------------------------------------------------------------------
(***************************************************************************)
(* Adding a degree.                                                        *)
(***************************************************************************)
LEMMA MaxOfTwo ==
    ASSUME NEW a \in Int, NEW b \in Int
    PROVE  Max({a, b}) = IF a >= b THEN a ELSE b
<1>1. \E x \in {a, b} : \A y \in {a, b} : x >= y
  OBVIOUS
<1>2. Max({a, b}) \in {a, b} /\ \A y \in {a, b} : Max({a, b}) >= y
  BY <1>1 DEF Max
<1> QED BY <1>2

LEMMA MinOfTwo ==
    ASSUME NEW a \in Int, NEW b \in Int
    PROVE  Min({a, b}) = IF a <= b THEN a ELSE b
<1>1. \E x \in {a, b} : \A y \in {a, b} : x <= y
  OBVIOUS
<1>2. Min({a, b}) \in {a, b} /\ \A y \in {a, b} : Min({a, b}) <= y
  BY <1>1 DEF Min
<1> QED BY <1>2

LEMMA BucketFacts ==
    ASSUME NEW b \in Bucket
    PROVE  b.maxDegree \in Nat /\ b.count \in Nat /\ b.sum \in Nat
BY DEF Bucket

LEMMA AddedFacts ==
    ASSUME NEW s \in Seq(Bucket)
    PROVE  /\ Len(s) \in Nat /\ DOMAIN s = 1..Len(s)
           /\ \A i \in DOMAIN s : /\ s[i] \in Bucket /\ s[i].sum \in Nat
                                  /\ s[i].count \in Nat /\ s[i].maxDegree \in Nat
                                  /\ Sums(s)[i] = s[i].sum
           /\ Nats(Sums(s), DOMAIN s) /\ AddedUp(s) \in Nat
<1>1. Len(s) \in Nat /\ DOMAIN s = 1..Len(s)
  OBVIOUS
<1>2. ASSUME NEW i \in DOMAIN s
      PROVE  /\ s[i] \in Bucket /\ s[i].sum \in Nat
             /\ s[i].count \in Nat /\ s[i].maxDegree \in Nat
             /\ Sums(s)[i] = s[i].sum
  BY <1>1, ElementOfSeq, BucketFacts DEF Sums
<1>3. Nats(Sums(s), DOMAIN s)
  <2>1. IsFiniteSet(DOMAIN s)
    BY <1>1, FS_Interval
  <2>2. \A i \in DOMAIN s : Sums(s)[i] \in Nat
    BY <1>2
  <2> QED BY <2>1, <2>2 DEF Nats
<1> QED BY <1>1, <1>2, <1>3, SumNat, AddedIsSum DEF Nats

LEMMA EmptyBucketFacts ==
    /\ EmptyBucket \in Bucket /\ EmptyBucket.sum = 0
    /\ EmptyBucket.count = 0 /\ EmptyBucket.maxDegree = 0
BY DEF EmptyBucket, Bucket

Grown(s, pos) == s \o [i \in 1..Max({0, pos - Len(s)}) |-> EmptyBucket]

LEMMA GrownFacts ==
    ASSUME NEW s \in Seq(Bucket), NEW pos \in Nat \ {0}
    PROVE  /\ Grown(s, pos) \in Seq(Bucket) /\ pos \in DOMAIN Grown(s, pos)
           /\ \A i \in DOMAIN Grown(s, pos) :
                 \/ i \in DOMAIN s /\ Grown(s, pos)[i] = s[i]
                 \/ Grown(s, pos)[i] = EmptyBucket
           /\ AddedUp(Grown(s, pos)) = AddedUp(s)
           /\ \A i \in DOMAIN s : i \in DOMAIN Grown(s, pos) /\ Grown(s, pos)[i] = s[i]
<1>1. Len(s) \in Nat /\ DOMAIN s = 1..Len(s)
  BY AddedFacts
<1>2. PICK n \in Nat : n = Max({0, pos - Len(s)}) /\ pos <= Len(s) + n
  BY <1>1, MaxOfTwo
<1>3. PICK e : e = [i \in 1..n |-> EmptyBucket]
  OBVIOUS
<1>4. e \in Seq(Bucket) /\ Len(e) = n /\ DOMAIN e = 1..n
  <2>1. \A i \in 1..n : EmptyBucket \in Bucket
    BY EmptyBucketFacts
  <2>2. e \in [1..n -> Bucket]
    BY <1>3, <2>1
  <2> QED BY <2>2, FunctionIsSeq
<1>5. PICK g : g = Grown(s, pos)
  OBVIOUS
<1>6. g = s \o e
  BY <1>2, <1>3, <1>5 DEF Grown
<1>7. /\ g \in Seq(Bucket) /\ Len(g) = Len(s) + n
      /\ \A i \in 1..(Len(s) + n) : g[i] = IF i <= Len(s) THEN s[i] ELSE e[i - Len(s)]
  BY <1>4, <1>6, ConcatProperties
<1>8. DOMAIN g = 1..(Len(s) + n) /\ pos \in DOMAIN g
  BY <1>1, <1>2, <1>7
<1>9. ASSUME NEW i \in DOMAIN g
      PROVE  (i \in DOMAIN s /\ g[i] = s[i]) \/ g[i] = EmptyBucket
  <2>1. CASE i <= Len(s)
    BY <1>1, <1>7, <1>8, <2>1
  <2>2. CASE i > Len(s)
    <3>1. i - Len(s) \in 1..n
      BY <1>1, <1>8, <2>2
    <3> QED BY <1>1, <1>3, <1>7, <1>8, <2>2, <3>1
  <2> QED BY <1>1, <1>8, <2>1, <2>2
<1>10. AddedUp(g) = AddedUp(s)
  <2>1. \A i \in 1..Len(s) : Sums(s)[i] \in Nat /\ Sums(g)[i] = Sums(s)[i]
    <3>a. PICK l \in Nat : l = Len(s)
      BY <1>1
    <3>b. \A i \in 1..(l + n) : g[i] = IF i <= l THEN s[i] ELSE e[i - l]
      BY <1>7, <3>a
    <3>c. \A i \in 1..l : i \in 1..(l + n) /\ g[i] = s[i]
      BY <3>b
    <3>1. \A i \in 1..Len(s) : i \in DOMAIN g /\ g[i] = s[i]
      BY <1>8, <3>a, <3>c
    <3> QED BY <1>1, <3>1, AddedFacts DEF Sums
  <2>2. PICK z : z = [i \in 1..n |-> 0]
    OBVIOUS
  <2>3. \A i \in 1..n : z[i] \in Nat /\ Sums(g)[Len(s) + i] = z[i]
    <3> SUFFICES ASSUME NEW i \in 1..n PROVE Sums(g)[Len(s) + i] = 0
      BY <2>2
    <3>1. /\ Len(s) + i \in 1..(Len(s) + n) /\ ~(Len(s) + i <= Len(s))
          /\ (Len(s) + i) - Len(s) = i
      BY <1>1
    <3>2. g[Len(s) + i] = e[i]
      BY <1>7, <3>1
    <3> QED BY <1>3, <1>8, <3>1, <3>2, EmptyBucketFacts DEF Sums
  <2>4. SumOf(Sums(g), 1..(Len(s) + n)) = SumOf(Sums(s), 1..Len(s)) + SumOf(z, 1..n)
    <3>1. Len(s) \in Nat /\ n \in Nat
      BY <1>1
    <3> QED BY ONLY <2>1, <2>3, <3>1, SumParts
  <2>5. SumOf(z, 1..n) = 0
    <3>1. IsFiniteSet(1..n)
      BY FS_Interval
    <3> QED BY <2>2, <3>1, SumZero
  <2>6. AddedUp(g) = AddedUp(s) + 0
    BY <1>1, <1>8, <2>4, <2>5, AddedIsSum
  <2> QED BY <2>6, AddedFacts
<1>11. \A i \in DOMAIN s : i \in DOMAIN g /\ g[i] = s[i]
  <2>1. PICK l \in Nat : l = Len(s) /\ DOMAIN s = 1..l /\ DOMAIN g = 1..(l + n)
    BY <1>1, <1>8
  <2>2. \A i \in 1..(l + n) : g[i] = IF i <= l THEN s[i] ELSE e[i - l]
    BY <1>7, <2>1
  <2>3. \A i \in 1..l : i \in 1..(l + n) /\ g[i] = s[i]
    BY <2>2
  <2> QED BY <2>1, <2>3
<1> QED BY <1>5, <1>7, <1>8, <1>9, <1>10, <1>11

LEMMA AddDegreeFacts ==
    ASSUME NEW s, Collecting(s), NEW degree \in Nat, NEW count \in Nat
    PROVE  /\ Collecting(AddDegree(s, degree, count))
           /\ AddedUp(s) \in Nat
           /\ AddedUp(AddDegree(s, degree, count)) = AddedUp(s) + degree * count
           /\ PositiveCounts(s) /\ count > 0 => PositiveCounts(AddDegree(s, degree, count))
           /\ PositiveDegrees(s) /\ degree > 0 => PositiveDegrees(AddDegree(s, degree, count))
<1>1. s \in Seq(Bucket) /\ AddedUp(s) \in Nat
  BY AddedFacts DEF Collecting
<1>2. PICK pos \in Nat \ {0} : pos = Position(degree)
  BY PositionType
<1>3. PICK g : g = Grown(s, pos)
  OBVIOUS
<1>4. /\ g \in Seq(Bucket) /\ pos \in DOMAIN g /\ AddedUp(g) = AddedUp(s)
      /\ \A i \in DOMAIN g : (i \in DOMAIN s /\ g[i] = s[i]) \/ g[i] = EmptyBucket
  BY <1>1, <1>2, <1>3, GrownFacts
<1>5. PICK old : old = g[pos]
  OBVIOUS
<1>6. PICK D \in Nat, C \in Nat, T \in Nat :
          D = old.maxDegree /\ C = old.count /\ T = old.sum
  BY <1>1, <1>4, <1>5, AddedFacts
<1>7. PICK E : E = Max({D, degree})
  OBVIOUS
<1>8. E \in Nat /\ D <= E /\ degree <= E /\ (E > 0 => D > 0 \/ degree > 0)
  BY <1>7, MaxOfTwo
<1>9. PICK b : b = [maxDegree |-> E, count |-> C + count, sum |-> T + degree * count]
  OBVIOUS
<1>10. PICK r : r = AddDegree(s, degree, count)
  OBVIOUS
<1>11. r = [g EXCEPT ![pos] = b]
  <2>1. r = [g EXCEPT ![pos] = [maxDegree |-> Max({@.maxDegree, degree}),
                                count |-> @.count + count,
                                sum |-> @.sum + degree * count]]
    BY <1>2, <1>3, <1>10 DEF AddDegree, Grown
  <2> QED BY <1>4, <1>5, <1>6, <1>7, <1>9, <2>1
<1>12. degree * count \in Nat /\ b \in Bucket
  <2>1. degree * count \in Nat
    BY TimesNat
  <2> QED BY <1>8, <1>9, <2>1 DEF Bucket
<1>13. /\ r \in Seq(Bucket) /\ DOMAIN r = DOMAIN g /\ DOMAIN g = 1..Len(g)
       /\ r[pos] = b /\ \A i \in DOMAIN g : i # pos => r[i] = g[i]
  BY <1>4, <1>11, <1>12, ExceptSeq
<1>14. \A i \in DOMAIN g : g[i].sum <= g[i].count * g[i].maxDegree
  <2> SUFFICES ASSUME NEW i \in DOMAIN g PROVE g[i].sum <= g[i].count * g[i].maxDegree
    OBVIOUS
  <2>1. CASE i \in DOMAIN s /\ g[i] = s[i]
    BY <2>1 DEF Collecting
  <2>2. CASE g[i] = EmptyBucket
    BY <2>2, EmptyBucketFacts
  <2> QED BY <1>4, <2>1, <2>2
<1>15. T + degree * count <= (C + count) * E
  <2>1. T <= C * D
    BY <1>4, <1>5, <1>6, <1>14
  <2>2. C * D <= C * E /\ degree * count <= E * count
    BY <1>8, TimesMonotone
  <2>3. (C + count) * E = C * E + count * E /\ count * E = E * count
    BY <1>8, Distributes
  <2>4. /\ C * D \in Nat /\ C * E \in Nat /\ E * count \in Nat /\ degree * count \in Nat
        /\ T \in Nat
    BY <1>8, TimesNat
  <2>5. PICK cd \in Nat, ce \in Nat, ec \in Nat, dc \in Nat :
           cd = C * D /\ ce = C * E /\ ec = E * count /\ dc = degree * count
    BY <2>4
  <2>6. T + dc <= ce + ec
    BY <2>1, <2>2, <2>5
  <2> QED BY <2>3, <2>5, <2>6
<1>16. Collecting(r)
  <2>1. \A i \in DOMAIN r : r[i].sum <= r[i].count * r[i].maxDegree
    <3>1. r[pos].sum <= r[pos].count * r[pos].maxDegree
      BY <1>9, <1>13, <1>15
    <3> QED BY <1>13, <1>14, <3>1
  <2> QED BY <1>13, <2>1 DEF Collecting
<1>17. AddedUp(r) = AddedUp(s) + degree * count
  <2>1. Nats(Sums(g), DOMAIN g) /\ Nats(Sums(r), DOMAIN g)
    BY <1>4, <1>13, AddedFacts
  <2>2. \A i \in DOMAIN g \ {pos} : Sums(g)[i] = Sums(r)[i]
    BY <1>13 DEF Sums
  <2>3. SumOf(Sums(g), DOMAIN g) + Sums(r)[pos] = SumOf(Sums(r), DOMAIN g) + Sums(g)[pos]
    BY <1>4, <2>1, <2>2, SumChanged
  <2>4. Sums(r)[pos] = T + degree * count /\ Sums(g)[pos] = T
    BY <1>4, <1>5, <1>6, <1>9, <1>13 DEF Sums
  <2>5. SumOf(Sums(g), DOMAIN g) = AddedUp(s) /\ SumOf(Sums(r), DOMAIN g) = AddedUp(r)
    BY <1>4, <1>13, AddedIsSum
  <2>6. AddedUp(r) \in Nat
    BY <1>13, AddedFacts
  <2>7. AddedUp(s) + (T + degree * count) = AddedUp(r) + T
    BY <2>3, <2>4, <2>5
  <2> QED BY <1>1, <1>12, <2>6, <2>7
<1>18. ASSUME PositiveCounts(s), count > 0 PROVE PositiveCounts(r)
  <2>1. \A i \in DOMAIN g : g[i].maxDegree > 0 => g[i].sum > 0
    BY <1>4, <1>18, EmptyBucketFacts DEF PositiveCounts
  <2>2. E > 0 => T + degree * count > 0
    <3>1. ASSUME D > 0 PROVE T > 0
      BY <1>4, <1>5, <1>6, <2>1, <3>1
    <3>2. ASSUME degree > 0 PROVE degree * count > 0
      BY <1>18, <3>2, TimesNat
    <3> QED BY <1>8, <1>12, <3>1, <3>2
  <2> QED BY <1>9, <1>13, <2>1, <2>2 DEF PositiveCounts
<1>19. ASSUME PositiveDegrees(s), degree > 0 PROVE PositiveDegrees(r)
  <2>1. \A i \in DOMAIN g : g[i].count > 0 => g[i].sum > 0
    BY <1>4, <1>19, EmptyBucketFacts DEF PositiveDegrees
  <2>2. C + count > 0 => T + degree * count > 0
    <3>1. ASSUME C > 0 PROVE T > 0
      BY <1>4, <1>5, <1>6, <2>1, <3>1
    <3>2. ASSUME count > 0 PROVE degree * count > 0
      BY <1>19, <3>2, TimesNat
    <3> QED BY <1>8, <1>12, <3>1, <3>2
  <2> QED BY <1>9, <1>13, <2>1, <2>2 DEF PositiveDegrees
<1> QED BY <1>1, <1>10, <1>16, <1>17, <1>18, <1>19

-----------------------------------------------------------------------------
(***************************************************************************)
(* Closing a collection.                                                   *)
(***************************************************************************)
LEMMA FinishedDegrees ==
    /\ FinishedBucket \subseteq AnyBucket
    /\ \A s \in Seq(FinishedBucket) : Degrees(s)
<1>1. FinishedBucket \subseteq AnyBucket
  BY DEF FinishedBucket, AnyBucket
<1> QED BY <1>1, SeqMonotonic DEF Degrees

LEMMA CardOfNone ==
    /\ Degrees(NoDegrees) /\ GetCard(NoDegrees) = 0 /\ GetNDV(NoDegrees) = 0
    /\ NoDegrees \in Seq(FinishedBucket) /\ Len(NoDegrees) = 0 /\ DOMAIN NoDegrees = {}
<1>1. NoDegrees = <<>> /\ DOMAIN NoDegrees = {}
  BY DEF NoDegrees
<1>2. NoDegrees \in Seq(AnyBucket) /\ NoDegrees \in Seq(FinishedBucket) /\ Len(NoDegrees) = 0
  BY <1>1, EmptySeq
<1> QED BY <1>1, <1>2, CardIsSum, NDVIsSum, SumEmpty DEF Degrees

LEMMA CardOfConcat ==
    ASSUME NEW s, NEW t, Degrees(s), Degrees(t)
    PROVE  /\ Degrees(s \o t) /\ Len(s \o t) = Len(s) + Len(t)
           /\ GetCard(s \o t) = GetCard(s) + GetCard(t)
           /\ GetNDV(s \o t) = GetNDV(s) + GetNDV(t)
<1>1. PICK m \in Nat, n \in Nat : /\ m = Len(s) /\ n = Len(t)
                                  /\ DOMAIN s = 1..m /\ DOMAIN t = 1..n
  BY DegreesFacts
<1>2. PICK u : u = s \o t
  OBVIOUS
<1>3. /\ u \in Seq(AnyBucket) /\ Len(u) = m + n
      /\ \A i \in 1..(m + n) : u[i] = IF i <= m THEN s[i] ELSE t[i - m]
  BY <1>1, <1>2, ConcatProperties DEF Degrees
<1>4. DOMAIN u = 1..(m + n) /\ Degrees(u)
  BY <1>3 DEF Degrees
<1>5. \A i \in 1..m : u[i] = s[i] /\ i \in DOMAIN u
  BY <1>3, <1>4
<1>6. ASSUME NEW i \in 1..n PROVE u[m + i] = t[i] /\ m + i \in DOMAIN u
  <2>1. m + i \in 1..(m + n) /\ ~(m + i <= m) /\ (m + i) - m = i
    OBVIOUS
  <2> QED BY <1>3, <1>4, <2>1
<1>7. GetCard(u) = GetCard(s) + GetCard(t)
  <2>1. \A i \in 1..m : Amounts(s)[i] \in Nat /\ Amounts(u)[i] = Amounts(s)[i]
    BY <1>1, <1>5, DegreesFacts DEF Amounts
  <2>2. \A i \in 1..n : Amounts(t)[i] \in Nat /\ Amounts(u)[m + i] = Amounts(t)[i]
    BY <1>1, <1>6, DegreesFacts DEF Amounts
  <2>3. SumOf(Amounts(u), 1..(m + n)) = SumOf(Amounts(s), 1..m) + SumOf(Amounts(t), 1..n)
    BY ONLY <2>1, <2>2, m \in Nat, n \in Nat, SumParts
  <2> QED BY <1>1, <1>4, <2>3, CardIsSum
<1>8. GetNDV(u) = GetNDV(s) + GetNDV(t)
  <2>1. \A i \in 1..m : Counts(s)[i] \in Nat /\ Counts(u)[i] = Counts(s)[i]
    BY <1>1, <1>5, DegreesFacts DEF Counts
  <2>2. \A i \in 1..n : Counts(t)[i] \in Nat /\ Counts(u)[m + i] = Counts(t)[i]
    BY <1>1, <1>6, DegreesFacts DEF Counts
  <2>3. SumOf(Counts(u), 1..(m + n)) = SumOf(Counts(s), 1..m) + SumOf(Counts(t), 1..n)
    BY ONLY <2>1, <2>2, m \in Nat, n \in Nat, SumParts
  <2> QED BY <1>1, <1>4, <2>3, NDVIsSum
<1> QED BY <1>1, <1>2, <1>3, <1>4, <1>7, <1>8

LEMMA CardOfOne ==
    ASSUME NEW d \in Nat, NEW c \in Nat
    PROVE  /\ Degrees(<<[maxDegree |-> d, count |-> c]>>)
           /\ GetCard(<<[maxDegree |-> d, count |-> c]>>) = c * d
           /\ GetNDV(<<[maxDegree |-> d, count |-> c]>>) = c
<1>1. PICK b : b = [maxDegree |-> d, count |-> c]
  OBVIOUS
<1>2. b \in AnyBucket
  BY <1>1 DEF AnyBucket
<1>3. PICK s : s = <<b>>
  OBVIOUS
<1>4. s \in Seq(AnyBucket) /\ DOMAIN s = 1..1 /\ s[1] = b
  BY <1>2, <1>3
<1>5. DOMAIN s = {1} /\ Degrees(s)
  BY <1>4 DEF Degrees
<1>6. 1 \in DOMAIN s /\ DOMAIN s \ {1} = {}
  BY <1>5
<1>7. Nats(Amounts(s), DOMAIN s) /\ Nats(Counts(s), DOMAIN s)
  BY <1>5, DegreesFacts
<1>a. GetCard(s) = Amounts(s)[1] + 0 /\ Amounts(s)[1] \in Nat
  <2>1. /\ SumOf(Amounts(s), DOMAIN s) = Amounts(s)[1] + SumOf(Amounts(s), DOMAIN s \ {1})
        /\ Amounts(s)[1] \in Nat
    BY ONLY <1>6, <1>7, SumTakeOut
  <2> QED BY <1>6, <2>1, CardIsSum, SumEmpty
<1>8. GetNDV(s) = Counts(s)[1] + 0 /\ Counts(s)[1] \in Nat
  <2>1. /\ SumOf(Counts(s), DOMAIN s) = Counts(s)[1] + SumOf(Counts(s), DOMAIN s \ {1})
        /\ Counts(s)[1] \in Nat
    BY ONLY <1>6, <1>7, SumTakeOut
  <2> QED BY <1>6, <2>1, NDVIsSum, SumEmpty
<1>9. Amounts(s)[1] = c * d /\ Counts(s)[1] = c
  BY <1>1, <1>4, <1>6 DEF Amounts, Counts
<1> QED BY <1>1, <1>3, <1>5, <1>a, <1>8, <1>9

\* What a bucket with a sum becomes.
LEMMA TightenedFacts ==
    ASSUME NEW b \in Bucket, b.count > 0, b.maxDegree > 0, b.sum > 0,
           b.sum <= b.count * b.maxDegree
    PROVE  /\ Tightened(b) \in FinishedBucket
           /\ b.sum <= Tightened(b).count * Tightened(b).maxDegree
<1>1. PICK d \in Nat, c \in Nat, t \in Nat : d = b.maxDegree /\ c = b.count /\ t = b.sum
  BY BucketFacts
<1>2. d \in Nat \ {0} /\ c > 0 /\ t > 0 /\ t <= c * d
  BY <1>1
<1>3. PICK q \in Nat : q = CeilDiv(t, d) /\ q > 0 /\ t <= d * q
  BY <1>2, CeilDivFacts
<1>4. Tightened(b) = [maxDegree |-> d, count |-> IF c <= q THEN c ELSE q]
  BY <1>1, <1>3, MinOfTwo DEF Tightened
<1>5. d * q = q * d
  BY TimesNat
<1>6. Tightened(b) \in FinishedBucket
  BY <1>2, <1>3, <1>4 DEF FinishedBucket
<1>7. t <= (IF c <= q THEN c ELSE q) * d
  BY <1>2, <1>3, <1>5
<1> QED BY <1>1, <1>4, <1>6, <1>7

LEMMA LargestIndex ==
    ASSUME NEW n \in Nat, NEW K \in SUBSET (1..n), K # {}
    PROVE  Max(K) \in K /\ \A y \in K : Max(K) >= y
<1> DEFINE T == {n - x : x \in K}
<1>1. T \in SUBSET Nat /\ T # {}
  <2>1. \A x \in K : x \in 1..n
    OBVIOUS
  <2>2. \A x \in K : n - x \in Nat
    BY <2>1
  <2>3. \A y \in T : y \in Nat
    BY <2>2
  <2>4. PICK x \in K : n - x \in T
    OBVIOUS
  <2> QED BY <2>3, <2>4
<1>2. PICK y \in T : \A z \in T : y <= z
  <2> HIDE DEF T
  <2> QED BY <1>1, LeastNat
<1>3. PICK x \in K : y = n - x
  OBVIOUS
<1>4. \A z \in K : x >= z
  <2> SUFFICES ASSUME NEW z \in K PROVE x >= z
    OBVIOUS
  <2>1. y <= n - z
    BY <1>2
  <2> QED BY <1>3, <2>1
<1> QED BY <1>4 DEF Max

\* The chooser of FoldLeft.
MaxOf(S) == [K \in SUBSET S |-> Max(K)]

LEMMA MaxOfPicks ==
    ASSUME NEW n \in Nat
    PROVE  Picks(MaxOf(1..n), 1..n) /\ \A K \in SUBSET (1..n) : MaxOf(1..n)[K] = Max(K)
BY LargestIndex DEF Picks, MaxOf

FinishStep(kept, b) ==
    IF b.count # 0 /\ b.maxDegree # 0 THEN <<Tightened(b)>> \o kept ELSE kept

FinishBody(s, iter) ==
    [K \in SUBSET DOMAIN s |->
        IF K = {} THEN NoDegrees ELSE FinishStep(iter[K \ {Max(K)}], s[Max(K)])]

FinishIter(s) == CHOOSE iter : iter = FinishBody(s, iter)

LEMMA FinishUnfold ==
    ASSUME NEW s
    PROVE  FinishCollection(s) = FinishIter(s)[DOMAIN s]
BY DEF FinishCollection, FoldLeft, MapThenFoldSet, FinishStep, FinishBody, FinishIter

LEMMA FinishIterFacts ==
    ASSUME NEW s, Collecting(s), PositiveDegrees(s) \/ PositiveCounts(s)
    PROVE  /\ FinishCollection(s) \in Seq(FinishedBucket)
           /\ AddedUp(s) <= GetCard(FinishCollection(s))
           /\ \A K \in SUBSET DOMAIN s :
                 /\ FinishIter(s)[K] \in Seq(FinishedBucket)
                 /\ FinishIter(s)[K] =
                       IF K = {} THEN NoDegrees
                       ELSE FinishStep(FinishIter(s)[K \ {Max(K)}], s[Max(K)])
<1>1. s \in Seq(Bucket) /\ \A i \in DOMAIN s : s[i].sum <= s[i].count * s[i].maxDegree
  BY DEF Collecting
<1>2. PICK n \in Nat : DOMAIN s = 1..n
  BY <1>1, AddedFacts
<1>3. PICK D : D = Seq(FinishedBucket)
  OBVIOUS
<1>4. PICK pick : pick = MaxOf(1..n)
  OBVIOUS
<1>5. Picks(pick, 1..n) /\ IsFiniteSet(1..n) /\ \A K \in SUBSET (1..n) : pick[K] = Max(K)
  <2>1. IsFiniteSet(1..n)
    BY ONLY n \in Nat, FS_Interval
  <2> QED BY ONLY <1>4, <2>1, n \in Nat, MaxOfPicks
<1>6. \A k \in D : Degrees(k) /\ GetCard(k) \in Nat
  BY <1>3, FinishedDegrees, DegreesFacts
<1>7. ASSUME NEW i \in 1..n, NEW k \in D
      PROVE  /\ FinishStep(k, s[i]) \in D
             /\ s[i].sum + GetCard(k) <= GetCard(FinishStep(k, s[i]))
  <2>1. PICK b \in Bucket : b = s[i]
    BY <1>1, <1>2, AddedFacts
  <2>2. /\ b.maxDegree \in Nat /\ b.count \in Nat /\ b.sum \in Nat
        /\ b.sum <= b.count * b.maxDegree
    BY <1>1, <1>2, <2>1, BucketFacts
  <2>3. CASE b.count # 0 /\ b.maxDegree # 0
    <3>1. b.sum > 0
      BY <1>2, <2>1, <2>2, <2>3 DEF PositiveDegrees, PositiveCounts
    <3>2. PICK u \in FinishedBucket : /\ u = Tightened(b)
                                      /\ b.sum <= u.count * u.maxDegree
      BY <2>2, <2>3, <3>1, TightenedFacts
    <3>3. FinishStep(k, b) = <<u>> \o k
      BY <2>3, <3>2 DEF FinishStep
    <3>4. <<u>> \in D
      BY <1>3, <3>2
    <3>5. <<u>> \o k \in D
      BY <1>3, <3>4, ConcatProperties
    <3>6. u = [maxDegree |-> u.maxDegree, count |-> u.count]
          /\ u.maxDegree \in Nat /\ u.count \in Nat
      BY <3>2 DEF FinishedBucket
    <3>7. GetCard(<<u>>) = u.count * u.maxDegree
      BY <3>6, CardOfOne
    <3>8. GetCard(<<u>> \o k) = GetCard(<<u>>) + GetCard(k)
      BY <1>6, <3>4, CardOfConcat
    <3>9. GetCard(k) \in Nat /\ u.count * u.maxDegree \in Nat
      BY <1>6, <3>6, TimesNat
    <3> QED BY <2>1, <2>2, <3>2, <3>3, <3>5, <3>7, <3>8, <3>9
  <2>4. CASE b.count = 0 \/ b.maxDegree = 0
    <3>1. b.count * b.maxDegree = 0
      BY <2>2, <2>4
    <3>2. b.sum = 0
      BY <2>2, <3>1
    <3>3. FinishStep(k, b) = k
      BY <2>4 DEF FinishStep
    <3> QED BY <1>6, <2>1, <3>2, <3>3
  <2> QED BY <2>3, <2>4
<1>8. PICK G : G = [i \in 1..n |-> [k \in D |-> FinishStep(k, s[i])]]
  OBVIOUS
<1>9. \A i \in 1..n : \A k \in D : G[i][k] = FinishStep(k, s[i]) /\ G[i][k] \in D
  BY <1>7, <1>8
<1>10. NoDegrees \in D /\ GetCard(NoDegrees) = 0
  BY <1>3, CardOfNone
<1>11. PICK f : IsFold(f, 1..n, pick, D, NoDegrees, G)
  <2>1. \A i \in 1..n : \A k \in D : G[i][k] \in D
    BY <1>9
  <2> QED BY ONLY <1>5, <1>10, <2>1, FoldDefined
<1>12. f = FinishBody(s, f)
  <2>1. ASSUME NEW K \in SUBSET (1..n)
        PROVE  f[K] = IF K = {} THEN NoDegrees ELSE FinishStep(f[K \ {Max(K)}], s[Max(K)])
    <3>1. f[K] = IF K = {} THEN NoDegrees ELSE G[pick[K]][f[K \ {pick[K]}]]
      BY <1>11 DEF IsFold
    <3>2. ASSUME K # {} PROVE G[pick[K]][f[K \ {pick[K]}]] = FinishStep(f[K \ {Max(K)}], s[Max(K)])
      <4>1. pick[K] \in K /\ pick[K] = Max(K) /\ K \ {pick[K]} \in SUBSET (1..n)
        BY <1>5, <3>2 DEF Picks
      <4>2. f[K \ {pick[K]}] \in D
        BY <1>11, <4>1 DEF IsFold
      <4> QED BY <1>9, <4>1, <4>2
    <3> QED BY <3>1, <3>2
  <2>2. f = [K \in SUBSET (1..n) |-> f[K]]
    BY <1>11 DEF IsFold
  <2> QED BY <1>2, <2>1, <2>2 DEF FinishBody
<1>13. PICK h : h = FinishIter(s)
  OBVIOUS
<1>14. h = FinishBody(s, h)
  BY <1>12, <1>13 DEF FinishIter
<1>15. \A K \in SUBSET (1..n) :
          h[K] = IF K = {} THEN NoDegrees ELSE FinishStep(h[K \ {Max(K)}], s[Max(K)])
  BY <1>2, <1>14 DEF FinishBody
<1>16. PICK Good : Good = {K \in SUBSET (1..n) :
                             h[K] \in D /\ SumOf(Sums(s), K) <= GetCard(h[K])}
  OBVIOUS
<1>17. {} \in Good
  <2>1. h[{}] = NoDegrees /\ SumOf(Sums(s), {}) = 0
    BY <1>15, SumEmpty
  <2> QED BY <1>10, <1>16, <2>1
<1>a. PICK S : S = 1..n
  OBVIOUS
<1>18. ASSUME NEW K \in SUBSET S, K # {}, K \ {pick[K]} \in Good PROVE K \in Good
  <2> K \in SUBSET (1..n)
    BY <1>a
  <2>1. PICK i \in K : i = pick[K] /\ i = Max(K)
    BY <1>5, <1>18 DEF Picks
  <2>2. /\ h[K \ {i}] \in D /\ SumOf(Sums(s), K \ {i}) <= GetCard(h[K \ {i}])
        /\ GetCard(h[K \ {i}]) \in Nat
    BY <1>6, <1>16, <1>18, <2>1
  <2>3. h[K] = FinishStep(h[K \ {i}], s[i])
    BY <1>15, <1>18, <2>1
  <2>4. h[K] \in D /\ s[i].sum + GetCard(h[K \ {i}]) <= GetCard(h[K]) /\ GetCard(h[K]) \in Nat
    BY <1>6, <1>7, <2>2, <2>3
  <2>5. Nats(Sums(s), K)
    BY <1>1, <1>2, AddedFacts, NatsOfPart
  <2>6. /\ SumOf(Sums(s), K) = Sums(s)[i] + SumOf(Sums(s), K \ {i})
        /\ Sums(s)[i] \in Nat /\ SumOf(Sums(s), K \ {i}) \in Nat
    BY <2>5, SumTakeOut
  <2>7. Sums(s)[i] = s[i].sum
    BY <1>1, <1>2, AddedFacts
  <2>8. SumOf(Sums(s), K) <= GetCard(h[K])
    BY <2>2, <2>4, <2>6, <2>7
  <2> QED BY <1>16, <2>4, <2>8
<1>19. Picks(pick, S) /\ IsFiniteSet(S)
  BY <1>5, <1>a
<1>20. \A K \in SUBSET S : K \in Good
  BY ONLY <1>17, <1>18, <1>19, FoldInduction
<1>21. 1..n \in Good
  BY <1>20, <1>a
<1>22. \A K \in SUBSET DOMAIN s :
          /\ FinishIter(s)[K] \in Seq(FinishedBucket)
          /\ FinishIter(s)[K] = IF K = {} THEN NoDegrees
                                ELSE FinishStep(FinishIter(s)[K \ {Max(K)}], s[Max(K)])
  BY <1>2, <1>3, <1>13, <1>15, <1>16, <1>20, <1>a
<1>23. FinishCollection(s) \in Seq(FinishedBucket) /\ AddedUp(s) <= GetCard(FinishCollection(s))
  BY <1>2, <1>3, <1>13, <1>16, <1>21, FinishUnfold, AddedIsSum
<1> QED BY <1>22, <1>23

LEMMA FinishFacts ==
    ASSUME NEW s, Collecting(s), PositiveDegrees(s) \/ PositiveCounts(s)
    PROVE  /\ FinishCollection(s) \in Seq(FinishedBucket)
           /\ AddedUp(s) <= GetCard(FinishCollection(s))
BY FinishIterFacts

-----------------------------------------------------------------------------
(***************************************************************************)
(* Cutting a sequence at a card.                                           *)
(***************************************************************************)
LEMMA SmallestIndex ==
    ASSUME NEW n \in Nat, NEW K \in SUBSET (1..n), K # {}
    PROVE  Min(K) \in K /\ \A y \in K : Min(K) <= y
<1>1. K \in SUBSET Nat
  OBVIOUS
<1>2. \E x \in K : \A y \in K : x <= y
  BY <1>1, LeastNat
<1> QED BY <1>2 DEF Min

\* One more bucket.
LEMMA UpToNext ==
    ASSUME NEW s, Degrees(s), NEW i \in 1..Len(s)
    PROVE  /\ CardUpTo(s, i) = CardUpTo(s, i - 1) + s[i].count * s[i].maxDegree
           /\ NDVUpTo(s, i) = NDVUpTo(s, i - 1) + s[i].count
           /\ CardUpTo(s, i) \in Nat /\ CardUpTo(s, i - 1) \in Nat
           /\ NDVUpTo(s, i) \in Nat /\ NDVUpTo(s, i - 1) \in Nat
<1>1. Len(s) \in Nat /\ DOMAIN s = 1..Len(s)
  BY DegreesFacts
<1>2. PICK n \in Nat : i = n + 1 /\ n = i - 1 /\ n \in 0..Len(s) /\ i \in 0..Len(s)
  <2>1. i - 1 \in Nat /\ i = (i - 1) + 1 /\ i - 1 \in 0..Len(s) /\ i \in 0..Len(s)
    BY <1>1
  <2> QED BY <2>1
<1>3. /\ CardUpTo(s, i) = SumOf(Amounts(s), 1..i) /\ CardUpTo(s, i) \in Nat
      /\ NDVUpTo(s, i) = SumOf(Counts(s), 1..i) /\ NDVUpTo(s, i) \in Nat
  BY <1>2, UpToFacts
<1>4. /\ CardUpTo(s, n) = SumOf(Amounts(s), 1..n) /\ CardUpTo(s, n) \in Nat
      /\ NDVUpTo(s, n) = SumOf(Counts(s), 1..n) /\ NDVUpTo(s, n) \in Nat
  BY <1>2, UpToFacts
<1>5. \A j \in 1..(n + 1) : Amounts(s)[j] \in Nat /\ Counts(s)[j] \in Nat
  <2>1. \A j \in 1..(n + 1) : j \in DOMAIN s
    BY <1>1, <1>2
  <2> QED BY <2>1, DegreesFacts
<1>6. SumOf(Amounts(s), 1..(n + 1)) = SumOf(Amounts(s), 1..n) + Amounts(s)[n + 1]
  BY <1>5, SumNext
<1>7. SumOf(Counts(s), 1..(n + 1)) = SumOf(Counts(s), 1..n) + Counts(s)[n + 1]
  BY <1>5, SumNext
<1>8. Amounts(s)[i] = s[i].count * s[i].maxDegree /\ Counts(s)[i] = s[i].count
  BY <1>1, DegreesFacts
<1> QED BY <1>2, <1>3, <1>4, <1>6, <1>7, <1>8

LEMMA UpToEnds ==
    ASSUME NEW s, Degrees(s)
    PROVE  /\ CardUpTo(s, 0) = 0 /\ CardUpTo(s, Len(s)) = GetCard(s)
           /\ NDVUpTo(s, 0) = 0 /\ NDVUpTo(s, Len(s)) = GetNDV(s)
<1>1. Len(s) \in Nat /\ DOMAIN s = 1..Len(s) /\ 0 \in 0..Len(s) /\ Len(s) \in 0..Len(s)
  BY DegreesFacts
<1>2. 1..0 = {}
  OBVIOUS
<1>3. CardUpTo(s, 0) = SumOf(Amounts(s), 1..0) /\ NDVUpTo(s, 0) = SumOf(Counts(s), 1..0)
  BY <1>1, UpToFacts
<1>4. /\ CardUpTo(s, Len(s)) = SumOf(Amounts(s), 1..Len(s))
      /\ NDVUpTo(s, Len(s)) = SumOf(Counts(s), 1..Len(s))
  BY <1>1, UpToFacts
<1> QED BY <1>1, <1>2, <1>3, <1>4, SumEmpty, CardIsSum, NDVIsSum

\* Partial sums grow.
LEMMA UpToGrows ==
    ASSUME NEW s, Degrees(s), NEW i \in 0..Len(s), NEW j \in 0..Len(s), i <= j
    PROVE  CardUpTo(s, i) <= CardUpTo(s, j) /\ NDVUpTo(s, i) <= NDVUpTo(s, j)
<1>1. PICK n \in Nat : n = Len(s) /\ DOMAIN s = 1..n
  BY DegreesFacts
<1> DEFINE Bad == {k \in 0..n : i <= k /\ ~(/\ CardUpTo(s, i) <= CardUpTo(s, k)
                                            /\ NDVUpTo(s, i) <= NDVUpTo(s, k))}
<1>2. ASSUME Bad # {} PROVE FALSE
  <2>1. PICK k \in Bad : \A l \in Bad : k <= l
    <3>1. Bad \in SUBSET Nat
      OBVIOUS
    <3> HIDE DEF Bad
    <3> QED BY <1>2, <3>1, LeastNat
  <2>2. /\ k \in 0..n /\ i <= k
        /\ ~(CardUpTo(s, i) <= CardUpTo(s, k) /\ NDVUpTo(s, i) <= NDVUpTo(s, k))
    OBVIOUS
  <2>3. /\ CardUpTo(s, i) \in Nat /\ NDVUpTo(s, i) \in Nat
    BY UpToFacts
  <2>4. k # i
    BY <2>2, <2>3
  <2>5. PICK l \in Nat : l = k - 1 /\ l \in 0..n /\ i <= l /\ ~(k <= l) /\ k \in 1..Len(s)
    <3>1. k - 1 \in Nat /\ k - 1 \in 0..n /\ i <= k - 1 /\ ~(k <= k - 1) /\ k \in 1..Len(s)
      BY <1>1, <2>2, <2>4
    <3> QED BY <3>1
  <2>6. CardUpTo(s, i) <= CardUpTo(s, l) /\ NDVUpTo(s, i) <= NDVUpTo(s, l)
    <3>1. l \notin Bad
      <4> HIDE DEF Bad
      <4> QED BY <2>1, <2>5
    <3> QED BY <2>5, <3>1
  <2>7. /\ CardUpTo(s, k) = CardUpTo(s, l) + s[k].count * s[k].maxDegree
        /\ NDVUpTo(s, k) = NDVUpTo(s, l) + s[k].count
        /\ CardUpTo(s, l) \in Nat /\ NDVUpTo(s, l) \in Nat
    BY <2>5, UpToNext
  <2>8. s[k].count \in Nat /\ s[k].count * s[k].maxDegree \in Nat
    <3>1. s[k].count \in Nat /\ s[k].maxDegree \in Nat
      BY <1>1, <2>5, DegreesFacts
    <3> QED BY <3>1, TimesNat
  <2> QED BY <2>2, <2>3, <2>6, <2>7, <2>8
<1>3. j \notin Bad /\ j \in 0..n
  BY <1>1, <1>2
<1> QED BY <1>3

LEMMA LimitFacts ==
    ASSUME NEW s, Degrees(s), NEW card \in Nat
    PROVE  /\ Degrees(LimitDsToCard(s, card))
           /\ GetCard(LimitDsToCard(s, card)) = IF GetCard(s) <= card THEN GetCard(s) ELSE card
           /\ s \in Seq(FinishedBucket) => LimitDsToCard(s, card) \in Seq(FinishedBucket)
<1>1. PICK n \in Nat : n = Len(s) /\ DOMAIN s = 1..n /\ s \in Seq(AnyBucket)
  BY DegreesFacts DEF Degrees
<1>2. PICK over : over = {i \in DOMAIN s : CardUpTo(s, i) > card}
  OBVIOUS
<1>3. PICK r : r = LimitDsToCard(s, card)
  OBVIOUS
<1>4. CASE over = {}
  <2>1. r = s
    BY <1>2, <1>3, <1>4 DEF LimitDsToCard
  <2>2. GetCard(s) <= card
    <3>1. CASE n = 0
      BY <1>1, <3>1, UpToEnds
    <3>2. CASE n # 0
      <4>1. n \in DOMAIN s /\ n \in 0..Len(s)
        BY <1>1, <3>2
      <4>2. ~(CardUpTo(s, n) > card) /\ CardUpTo(s, n) \in Nat
        BY <1>2, <1>4, <4>1, UpToFacts
      <4> QED BY <1>1, <4>2, UpToEnds
    <3> QED BY <3>1, <3>2
  <2> QED BY <1>3, <2>1, <2>2
<1>5. CASE over # {}
  <2>1. PICK i \in 1..n : /\ i = Min(over) /\ CardUpTo(s, i) > card
                          /\ \A j \in over : i <= j
    <3>1. over \in SUBSET (1..n)
      BY <1>1, <1>2
    <3> QED BY <1>2, <1>5, <3>1, SmallestIndex
  <2>2. i \in 1..Len(s) /\ i - 1 \in 0..Len(s) /\ i - 1 \in 0..n /\ i \in 0..Len(s)
    BY <1>1
  <2>3. PICK before \in Nat : before = CardUpTo(s, i - 1) /\ before <= card
    <3>1. CardUpTo(s, i - 1) \in Nat
      BY <2>2, UpToFacts
    <3>2. CASE i = 1
      BY <3>1, <3>2, UpToEnds
    <3>3. CASE i # 1
      <4>1. i - 1 \in DOMAIN s /\ ~(i <= i - 1)
        BY <1>1, <3>3
      <4>2. i - 1 \notin over
        BY <2>1, <4>1
      <4>3. ~(CardUpTo(s, i - 1) > card)
        BY <1>2, <4>1, <4>2
      <4> QED BY <3>1, <4>3
    <3> QED BY <3>2, <3>3
  <2>4. PICK d \in Nat, c \in Nat : /\ d = s[i].maxDegree /\ c = s[i].count
                                    /\ s[i] = [maxDegree |-> d, count |-> c]
    BY <1>1, DegreesFacts
  <2>5. PICK left \in Nat : left = card - before
    BY <2>3
  <2>6. left < c * d
    <3>1. CardUpTo(s, i) = before + c * d /\ CardUpTo(s, i) \in Nat
      BY <2>2, <2>3, <2>4, UpToNext
    <3>2. c * d \in Nat
      BY TimesNat
    <3> QED BY <2>1, <2>3, <2>5, <3>1, <3>2
  <2>7. d \in Nat \ {0}
    BY <2>4, <2>6
  <2>8. PICK full \in Nat, rest \in Nat : /\ full = left \div d /\ rest = left % d
                                          /\ rest < d /\ left = d * full + rest
    BY <2>7, DivFacts
  <2>9. PICK a : a = SubSeq(s, 1, i - 1)
    OBVIOUS
  <2>10. PICK f : f = IF full = 0 THEN <<>> ELSE <<[s[i] EXCEPT !.count = full]>>
    OBVIOUS
  <2>11. PICK e : e = IF rest = 0 THEN <<>> ELSE <<[maxDegree |-> rest, count |-> 1]>>
    OBVIOUS
  <2>12. r = a \o f \o e
    BY <1>2, <1>3, <1>5, <2>1, <2>3, <2>4, <2>5, <2>8, <2>9, <2>10, <2>11 DEF LimitDsToCard
  <2>13. Degrees(a) /\ GetCard(a) = before
    BY <2>2, <2>3, <2>9, UpToFacts DEF CardUpTo
  <2>14. Degrees(f) /\ GetCard(f) = full * d
    <3>1. CASE full = 0
      <4>1. f = NoDegrees /\ full * d = 0
        BY <2>10, <3>1 DEF NoDegrees
      <4> QED BY <4>1, CardOfNone
    <3>2. CASE full # 0
      <4>1. f = <<[maxDegree |-> d, count |-> full]>>
        BY <2>4, <2>10, <3>2
      <4> QED BY <4>1, CardOfOne
    <3> QED BY <3>1, <3>2
  <2>15. Degrees(e) /\ GetCard(e) = rest
    <3>1. CASE rest = 0
      <4>1. e = NoDegrees
        BY <2>11, <3>1 DEF NoDegrees
      <4> QED BY <3>1, <4>1, CardOfNone
    <3>2. CASE rest # 0
      <4>1. e = <<[maxDegree |-> rest, count |-> 1]>> /\ 1 * rest = rest
        BY <2>11, <3>2
      <4> QED BY <4>1, CardOfOne
    <3> QED BY <3>1, <3>2
  <2>16. /\ Degrees(a \o f) /\ GetCard(a \o f) = before + full * d
    BY <2>13, <2>14, CardOfConcat
  <2>17. Degrees(r) /\ GetCard(r) = (before + full * d) + rest
    BY <2>12, <2>15, <2>16, CardOfConcat
  <2>18. GetCard(r) = card
    <3>1. PICK x \in Nat : x = full * d /\ x = d * full
      BY TimesNat
    <3>2. left = x + rest /\ GetCard(r) = (before + x) + rest
      BY <2>8, <2>17, <3>1
    <3> QED BY <2>3, <2>5, <3>2
  <2>19. GetCard(s) > card
    <3>1. i <= Len(s) /\ Len(s) \in 0..Len(s)
      BY <1>1
    <3>2. CardUpTo(s, i) <= CardUpTo(s, Len(s))
      BY <2>2, <3>1, UpToGrows
    <3>3. CardUpTo(s, i) \in Nat /\ GetCard(s) \in Nat /\ CardUpTo(s, Len(s)) = GetCard(s)
      BY <2>2, UpToFacts, UpToEnds, DegreesFacts
    <3> QED BY <2>1, <3>2, <3>3
  <2>20. ASSUME s \in Seq(FinishedBucket) PROVE r \in Seq(FinishedBucket)
    <3>1. a \in Seq(FinishedBucket)
      <4>1. \A j \in 1..(i - 1) : s[j] \in FinishedBucket
        <5>1. \A j \in 1..(i - 1) : j \in 1..Len(s)
          BY <1>1
        <5> QED BY <2>20, <5>1, ElementOfSeq
      <4>2. 1 \in Int /\ i - 1 \in Int
        OBVIOUS
      <4> QED BY <2>9, <4>1, <4>2, SubSeqProperties
    <3>2. f \in Seq(FinishedBucket)
      <4>1. CASE full = 0
        BY <2>10, <4>1, EmptySeq
      <4>2. CASE full # 0
        <5>1. PICK b : b = [maxDegree |-> d, count |-> full]
          OBVIOUS
        <5>2. b \in FinishedBucket
          BY <2>7, <4>2, <5>1 DEF FinishedBucket
        <5>3. f = <<b>>
          BY <2>4, <2>10, <4>2, <5>1
        <5> QED BY <5>2, <5>3
      <4> QED BY <4>1, <4>2
    <3>3. e \in Seq(FinishedBucket)
      <4>1. CASE rest = 0
        BY <2>11, <4>1, EmptySeq
      <4>2. CASE rest # 0
        <5>1. PICK b : b = [maxDegree |-> rest, count |-> 1]
          OBVIOUS
        <5>2. b \in FinishedBucket
          BY <4>2, <5>1 DEF FinishedBucket
        <5>3. e = <<b>>
          BY <2>11, <4>2, <5>1
        <5> QED BY <5>2, <5>3
      <4> QED BY <4>1, <4>2
    <3> QED BY <2>12, <3>1, <3>2, <3>3, ConcatProperties
  <2>21. GetCard(s) \in Nat
    BY DegreesFacts
  <2> QED BY <1>3, <2>17, <2>18, <2>19, <2>20, <2>21
<1> QED BY <1>4, <1>5

-----------------------------------------------------------------------------
(***************************************************************************)
(* Averages.                                                               *)
(***************************************************************************)
Moved(s, card, ndv, k) ==
    [i \in DOMAIN s |-> [maxDegree |-> s[i].maxDegree * k * ndv + card * (RateDen - k),
                         count |-> s[i].count]]

LEMMA MovedFacts ==
    ASSUME NEW s, Degrees(s), NEW card \in Nat, NEW ndv \in Nat, NEW k \in 0..RateDen
    PROVE  /\ Degrees(Moved(s, card, ndv, k))
           /\ GetCard(Moved(s, card, ndv, k))
                = (k * ndv) * GetCard(s) + (card * (RateDen - k)) * GetNDV(s)
<1>1. PICK n \in Nat : n = Len(s) /\ DOMAIN s = 1..n
  BY DegreesFacts
<1>2. PICK a \in Nat, b \in Nat : a = k * ndv /\ b = card * (RateDen - k)
  <2>1. k \in Nat /\ RateDen - k \in Nat
    BY RateAssumption
  <2> QED BY <2>1, TimesNat
<1>3. PICK m : m = Moved(s, card, ndv, k)
  OBVIOUS
<1>4. ASSUME NEW i \in 1..n
      PROVE  /\ m[i] = [maxDegree |-> s[i].maxDegree * a + b, count |-> s[i].count]
             /\ m[i] \in AnyBucket /\ m[i].maxDegree = s[i].maxDegree * a + b
             /\ m[i].count = s[i].count /\ s[i].maxDegree * a + b \in Nat
             /\ s[i].maxDegree \in Nat /\ s[i].count \in Nat
  <2>1. PICK d \in Nat, c \in Nat : d = s[i].maxDegree /\ c = s[i].count
    BY <1>1, DegreesFacts
  <2>2. m[i] = [maxDegree |-> d * k * ndv + b, count |-> c]
    BY <1>1, <1>2, <1>3, <2>1 DEF Moved
  <2>3. d * k * ndv = d * a /\ d * a \in Nat
    <3>1. k \in Nat
      BY RateAssumption
    <3>2. (d * k) * ndv = d * (k * ndv)
      BY <3>1
    <3> QED BY <1>2, <3>2, TimesNat
  <2>4. d * a + b \in Nat
    BY <2>3
  <2>5. m[i] = [maxDegree |-> d * a + b, count |-> c]
    BY <2>2, <2>3
  <2>6. m[i] \in AnyBucket
    BY <2>4, <2>5 DEF AnyBucket
  <2> QED BY <2>1, <2>4, <2>5, <2>6
<1>5. m \in [1..n -> AnyBucket]
  BY <1>1, <1>3, <1>4 DEF Moved
<1>6. Degrees(m) /\ DOMAIN m = 1..n
  BY <1>5, FunctionIsSeq DEF Degrees
<1>7. ASSUME NEW i \in 1..n PROVE Amounts(m)[i] = a * Amounts(s)[i] + b * Counts(s)[i]
  <2>1. PICK d \in Nat, c \in Nat : d = s[i].maxDegree /\ c = s[i].count
    BY <1>4
  <2>2. Amounts(m)[i] = c * (d * a + b)
    BY <1>4, <1>6, <2>1 DEF Amounts
  <2>3. Amounts(s)[i] = c * d /\ Counts(s)[i] = c
    BY <1>1, <2>1, DegreesFacts
  <2>4. c * (d * a + b) = a * (c * d) + b * c
    OBVIOUS
  <2> QED BY <2>2, <2>3, <2>4
<1>8. Nats(Amounts(s), 1..n) /\ Nats(Counts(s), 1..n) /\ Nats(Amounts(m), 1..n)
  BY <1>1, <1>6, DegreesFacts
<1>9. PICK S : S = 1..n
  OBVIOUS
<1>10. /\ \A i \in S : Amounts(m)[i] = a * Amounts(s)[i] + b * Counts(s)[i]
       /\ Nats(Amounts(s), S) /\ Nats(Counts(s), S) /\ Nats(Amounts(m), S)
  BY <1>7, <1>8, <1>9
<1>11. SumOf(Amounts(m), S) = a * SumOf(Amounts(s), S) + b * SumOf(Counts(s), S)
  BY ONLY <1>10, a \in Nat, b \in Nat, SumLinear
<1> QED BY <1>1, <1>2, <1>3, <1>6, <1>9, <1>11, CardIsSum, NDVIsSum

(***************************************************************************)
(* AdjustToAverage keeps the sum.                                          *)
(***************************************************************************)
LEMMA AverageSum ==
    ASSUME NEW s, Degrees(s), NEW ndv \in Nat, NEW k \in 0..RateDen
    PROVE  /\ Degrees(AdjustToAverage(s, GetCard(s), ndv, k))
           /\ GetCard(AdjustToAverage(s, GetCard(s), ndv, k)) = GetCard(s) * Unit(ndv)
<1>1. PICK card \in Nat, r \in Nat : card = GetCard(s) /\ r = GetNDV(s)
  BY DegreesFacts
<1>2. PICK q \in Nat : q = RateDen - k /\ RateDen = k + q /\ k \in Nat
  BY RateAssumption
<1>3. PICK avg \in Nat : avg = card * q
  BY TimesNat
<1>4. PICK m : m = Moved(s, card, ndv, k)
  OBVIOUS
<1>5. PICK zeros \in Int : zeros = ndv - r
  OBVIOUS
<1>6. PICK tail : tail = IF zeros > 0 /\ avg > 0
                         THEN <<[maxDegree |-> avg, count |-> zeros]>> ELSE <<>>
  OBVIOUS
<1>7. AdjustToAverage(s, card, ndv, k) = LimitDsToCard(m \o tail, card * Unit(ndv))
  BY <1>1, <1>2, <1>3, <1>4, <1>5, <1>6 DEF AdjustToAverage, Moved
<1>8. Degrees(m) /\ GetCard(m) = (k * ndv) * card + avg * r
  BY <1>1, <1>2, <1>3, <1>4, MovedFacts
<1>9. PICK a \in Nat, b \in Nat, c \in Nat : /\ a = (k * ndv) * card /\ b = avg * r
                                             /\ c = avg * ndv
  BY <1>2, TimesNat
<1>10. PICK u \in Nat : u = card * Unit(ndv) /\ u = a + c
  <2>1. (k * ndv) * card + (card * q) * ndv = card * ((k + q) * ndv)
    BY <1>2
  <2>2. card * ((k + q) * ndv) = a + c /\ a + c \in Nat
    BY <1>3, <1>9, <2>1
  <2> QED BY <1>2, <2>2 DEF Unit
<1>11. Degrees(m \o tail) /\ GetCard(m \o tail) >= u
  <2>1. CASE zeros > 0 /\ avg > 0
    <3>1. zeros \in Nat /\ tail = <<[maxDegree |-> avg, count |-> zeros]>>
      BY <1>6, <2>1
    <3>2. Degrees(tail) /\ GetCard(tail) = zeros * avg
      BY <3>1, CardOfOne
    <3>3. Degrees(m \o tail) /\ GetCard(m \o tail) = (a + b) + zeros * avg
      BY <1>8, <1>9, <3>2, CardOfConcat
    <3>4. zeros * avg = avg * ndv - avg * r
      BY <1>5
    <3> QED BY <1>9, <1>10, <3>3, <3>4
  <2>2. CASE ~(zeros > 0 /\ avg > 0)
    <3>1. tail = NoDegrees
      BY <1>6, <2>2 DEF NoDegrees
    <3>2. Degrees(m \o tail) /\ GetCard(m \o tail) = (a + b) + 0
      BY <1>8, <1>9, <3>1, CardOfConcat, CardOfNone
    <3>3. c <= b
      <4>1. CASE avg = 0
        BY <1>9, <4>1
      <4>2. CASE zeros <= 0
        <5>1. ndv <= r
          BY <1>5, <4>2
        <5> QED BY <1>9, <5>1, TimesMonotone
      <4> QED BY <2>2, <4>1, <4>2
    <3> QED BY <1>10, <3>2, <3>3
  <2> QED BY <2>1, <2>2
<1>12. /\ Degrees(LimitDsToCard(m \o tail, u))
       /\ GetCard(LimitDsToCard(m \o tail, u)) = u
  <2>1. GetCard(m \o tail) \in Nat
    BY <1>11, DegreesFacts
  <2>2. GetCard(m \o tail) <= u => GetCard(m \o tail) = u
    BY <1>11, <2>1
  <2> QED BY <1>11, <2>2, LimitFacts
<1> QED BY <1>1, <1>7, <1>10, <1>12

-----------------------------------------------------------------------------
(***************************************************************************)
(* Collection.  Tables have finitely many rows, and a product of counts is *)
(* a multiple of each of them.                                             *)
(***************************************************************************)
LEMMA FunctionsFinite ==
    ASSUME NEW A, IsFiniteSet(A), NEW B, IsFiniteSet(B)
    PROVE  IsFiniteSet([A -> B])
<1>1. IsFiniteSet(A \X B)
  BY FS_Product
<1>2. IsFiniteSet(SUBSET (A \X B))
  BY <1>1, FS_SUBSET
<1>3. PICK S, T, g : /\ S = [A -> B] /\ T = SUBSET (A \X B)
                     /\ g = [h \in S |-> {<<a, h[a]>> : a \in A}]
  OBVIOUS
<1>4. ASSUME NEW h \in S PROVE g[h] \in T
  BY <1>3
<1>5. ASSUME NEW h \in S, NEW k \in S, g[h] = g[k] PROVE h = k
  <2>1. \A a \in A : h[a] = k[a]
    <3> SUFFICES ASSUME NEW a \in A PROVE h[a] = k[a]
      OBVIOUS
    <3>1. <<a, h[a]>> \in {<<x, k[x]>> : x \in A}
      BY <1>3, <1>5
    <3> QED BY <3>1
  <2> QED BY <1>3, <2>1
<1>6. g \in Injection(S, T)
  <2>1. g \in [S -> T]
    BY <1>3, <1>4
  <2> QED BY <1>3, <1>5, <2>1 DEF Injection, IsInjective
<1>7. IsFiniteSet(S)
  BY <1>2, <1>3, <1>6, FS_Injection
<1> QED BY <1>3, <1>7

LEMMA ProductIsFold ==
    ASSUME NEW m
    PROVE  Product(m) = ProductIter(m, DOMAIN m)[DOMAIN m]
BY DEF Product, MapThenFoldSet, Pick, ProductIter, ProductBody

LEMMA ProductMultiple ==
    ASSUME NEW T, IsFiniteSet(T), NEW m \in [T -> Nat]
    PROVE  Product(m) \in Nat /\ \A t \in T : \E q \in Nat : Product(m) = m[t] * q
<1>1. PICK P : P = ProductIter(m, T)
  OBVIOUS
<1>2. P = ProductBody(m, T, P) /\ \A s \in SUBSET T : P[s] \in Nat
  BY <1>1, ProductIterFacts
<1>3. \A s \in SUBSET T : s # {} => P[s] = m[Pick(s)] * P[s \ {Pick(s)}]
  BY <1>2 DEF ProductBody
<1>4. PICK pick : pick = AnyOf(T)
  OBVIOUS
<1>5. Picks(pick, T) /\ \A s \in SUBSET T : pick[s] = Pick(s)
  BY <1>4, AnyOfPicks
<1>6. PICK Good : Good = {s \in SUBSET T : \A t \in s : \E q \in Nat : P[s] = m[t] * q}
  OBVIOUS
<1>7. {} \in Good
  BY <1>6
<1>8. ASSUME NEW s \in SUBSET T, s # {}, s \ {pick[s]} \in Good PROVE s \in Good
  <2>1. PICK x \in s : x = pick[s] /\ x = Pick(s)
    BY <1>5, <1>8 DEF Picks
  <2>2. PICK r \in Nat : r = P[s \ {x}]
    BY <1>2
  <2>3. P[s] = m[x] * r
    BY <1>3, <1>8, <2>1, <2>2
  <2>4. m[x] \in Nat
    OBVIOUS
  <2>5. ASSUME NEW t \in s PROVE \E q \in Nat : P[s] = m[t] * q
    <3>1. CASE t = x
      BY <2>2, <2>3, <3>1
    <3>2. CASE t # x
      <4>1. PICK q \in Nat : r = m[t] * q
        BY <1>6, <1>8, <2>1, <2>2, <3>2
      <4>2. m[t] \in Nat /\ m[x] * q \in Nat
        BY <2>4, TimesNat
      <4>3. m[x] * (m[t] * q) = m[t] * (m[x] * q)
        BY <2>4, <4>2
      <4>4. P[s] = m[t] * (m[x] * q)
        BY <2>3, <4>1, <4>3
      <4> QED BY <4>2, <4>4
    <3> QED BY <3>1, <3>2
  <2> QED BY <1>6, <2>5
<1>9. \A s \in SUBSET T : s \in Good
  BY ONLY <1>5, <1>7, <1>8, IsFiniteSet(T), FoldInduction
<1>10. T \in Good /\ P[T] \in Nat
  BY <1>2, <1>9
<1>11. DOMAIN m = T
  OBVIOUS
<1> QED BY <1>1, <1>6, <1>10, <1>11, ProductIsFold

(***************************************************************************)
(* A summary of the tables T while it is being collected: all sequences    *)
(* add up to card.                                                         *)
(***************************************************************************)
Adding(s, card) == Collecting(s) /\ PositiveDegrees(s) /\ AddedUp(s) = card

Growing(T) ==
    {st \in [card : Nat, centralDs : Seq(Bucket), ds : [T -> Seq(Bucket)]] :
        /\ Adding(st.centralDs, st.card)
        /\ \A t \in T : Adding(st.ds[t], st.card)}

LEMMA AddingFacts ==
    ASSUME NEW s, NEW card \in Nat, Adding(s, card),
           NEW degree \in Nat \ {0}, NEW count \in Nat, NEW n \in Nat, n = degree * count
    PROVE  Adding(AddDegree(s, degree, count), card + n)
<1>1. Collecting(s) /\ PositiveDegrees(s) /\ AddedUp(s) = card /\ degree > 0 /\ degree \in Nat
  BY DEF Adding
<1>2. PICK r : r = AddDegree(s, degree, count)
  OBVIOUS
<1>3. Collecting(r) /\ PositiveDegrees(r) /\ AddedUp(r) = AddedUp(s) + degree * count
  BY <1>1, <1>2, AddDegreeFacts
<1> QED BY <1>1, <1>2, <1>3 DEF Adding

LEMMA NothingAdded ==
    /\ Adding(NoDegrees, 0) /\ Collecting(NoDegrees)
    /\ PositiveDegrees(NoDegrees) /\ PositiveCounts(NoDegrees)
<1>1. NoDegrees \in Seq(Bucket) /\ DOMAIN NoDegrees = {}
  BY EmptySeq DEF NoDegrees
<1>2. AddedUp(NoDegrees) = 0
  BY <1>1, AddedIsSum, SumEmpty
<1> QED BY <1>1, <1>2 DEF Adding, Collecting, PositiveDegrees, PositiveCounts

LEMMA NewStatGrows ==
    ASSUME NEW T
    PROVE  NewStat(T) \in Growing(T)
<1>1. NoDegrees \in Seq(Bucket)
  BY NothingAdded DEF Collecting
<1>2. NewStat(T) \in [card : Nat, centralDs : Seq(Bucket), ds : [T -> Seq(Bucket)]]
  BY <1>1 DEF NewStat
<1>3. /\ NewStat(T).card = 0 /\ NewStat(T).centralDs = NoDegrees
      /\ \A t \in T : NewStat(T).ds[t] = NoDegrees
  BY DEF NewStat
<1> QED BY <1>2, <1>3, NothingAdded DEF Growing

LEMMA AddDegreesGrows ==
    ASSUME NEW T, IsFiniteSet(T), NEW st \in Growing(T), NEW m \in [T -> Nat], NEW n \in Nat
    PROVE  AddDegrees(st, m, n) \in Growing(T)
<1>1. CASE Product(m) = 0
  BY <1>1 DEF AddDegrees
<1>2. CASE Product(m) # 0
  <2>1. PICK P \in Nat \ {0} : P = Product(m)
    BY <1>2, ProductMultiple
  <2>2. /\ st \in [card : Nat, centralDs : Seq(Bucket), ds : [T -> Seq(Bucket)]]
        /\ Adding(st.centralDs, st.card) /\ \A t \in T : Adding(st.ds[t], st.card)
    BY DEF Growing
  <2>3. st.card \in Nat /\ DOMAIN st.ds = T
    BY <2>2
  <2>4. PICK x \in Nat : x = P * n
    BY TimesNat
  <2>5. PICK c : c = AddDegree(st.centralDs, P, n)
    OBVIOUS
  <2>6. Adding(c, st.card + x) /\ c \in Seq(Bucket)
    <3>1. Adding(c, st.card + x)
      BY <2>2, <2>3, <2>4, <2>5, AddingFacts
    <3> QED BY <3>1 DEF Adding, Collecting
  <2>7. PICK d : d = [t \in T |-> AddDegree(st.ds[t], P \div m[t], m[t] * n)]
    OBVIOUS
  <2>8. ASSUME NEW t \in T PROVE Adding(d[t], st.card + x) /\ d[t] \in Seq(Bucket)
    <3>1. PICK q \in Nat : P = m[t] * q
      BY <2>1, ProductMultiple
    <3>2. m[t] \in Nat
      OBVIOUS
    <3>3. m[t] # 0 /\ q # 0
      <4>1. ASSUME m[t] = 0 \/ q = 0 PROVE m[t] * q = 0
        BY <3>2, <4>1
      <4> QED BY <2>1, <3>1, <4>1
    <3>4. P \div m[t] = q
      <4>1. PICK a \in Nat \ {0} : a = m[t]
        BY <3>2, <3>3
      <4>2. PICK e \in Nat, r \in Nat : e = P \div a /\ P = a * e + r /\ r < a
        BY <2>1, <4>1, DivFacts
      <4>3. a * q = a * e + r
        BY <3>1, <4>1, <4>2
      <4>4. ~(q > e)
        <5> SUFFICES ASSUME q >= e + 1 PROVE FALSE
          OBVIOUS
        <5>1. a * (e + 1) <= a * q
          BY TimesMonotone
        <5>2. a * (e + 1) = a * e + a /\ a * e \in Nat
          OBVIOUS
        <5> QED BY <4>2, <4>3, <5>1, <5>2
      <4>5. ~(q < e)
        <5> SUFFICES ASSUME q + 1 <= e PROVE FALSE
          OBVIOUS
        <5>1. a * (q + 1) <= a * e
          BY TimesMonotone
        <5>2. a * (q + 1) = a * q + a /\ a * q \in Nat /\ a * e \in Nat
          OBVIOUS
        <5> QED BY <4>3, <5>1, <5>2
      <4> QED BY <4>1, <4>2, <4>4, <4>5
    <3>5. PICK k \in Nat : k = m[t] * n
      BY <3>2, TimesNat
    <3>6. x = q * k
      <4>1. (m[t] * q) * n = q * (m[t] * n)
        BY <3>2
      <4> QED BY <2>4, <3>1, <3>5, <4>1
    <3>7. d[t] = AddDegree(st.ds[t], q, k)
      BY <2>7, <3>4, <3>5
    <3>8. Adding(d[t], st.card + x)
      BY <2>2, <2>3, <3>3, <3>6, <3>7, AddingFacts
    <3> QED BY <3>8 DEF Adding, Collecting
  <2>9. AddDegrees(st, m, n) = [card |-> st.card + x, centralDs |-> c, ds |-> d]
    BY <1>2, <2>1, <2>3, <2>4, <2>5, <2>7 DEF AddDegrees, Tables
  <2>10. d \in [T -> Seq(Bucket)]
    BY <2>7, <2>8
  <2>11. PICK r : r = AddDegrees(st, m, n)
    OBVIOUS
  <2>12. /\ r \in [card : Nat, centralDs : Seq(Bucket), ds : [T -> Seq(Bucket)]]
         /\ r.card = st.card + x /\ r.centralDs = c /\ r.ds = d
    BY <2>3, <2>6, <2>9, <2>10, <2>11
  <2> QED BY <2>6, <2>8, <2>11, <2>12 DEF Growing
<1> QED BY <1>1, <1>2

(***************************************************************************)
(* FinishStat cuts every sequence at card; as none adds up to less, all    *)
(* add up to card.                                                         *)
(***************************************************************************)
Closes(s) == Collecting(s) /\ (PositiveDegrees(s) \/ PositiveCounts(s))

LEMMA FinishStatFacts ==
    ASSUME NEW st, IsStat(st), st.card \in Nat, Closes(st.centralDs),
           \A t \in Tables(st) : Closes(st.ds[t]) /\ AddedUp(st.ds[t]) >= st.card
    PROVE  StatOK(FinishStat(st)) /\ Tables(FinishStat(st)) = Tables(st)
           /\ FinishStat(st).card = st.card
<1>1. PICK c, z, d, T : /\ c \in Nat /\ c = st.card /\ z = st.centralDs /\ d = st.ds
                        /\ T = DOMAIN d /\ T = Tables(st)
  BY DEF Tables
<1>2. st = [card |-> c, centralDs |-> z, ds |-> d]
  BY <1>1 DEF IsStat
<1>3. PICK e : e = [t \in T |-> FinishCollection(d[t])]
  OBVIOUS
<1>4. PICK y : y = FinishCollection(z)
  OBVIOUS
<1>5. PICK cl : cl = [st EXCEPT !.ds = [t \in Tables(st) |-> FinishCollection(st.ds[t])],
                                !.centralDs = FinishCollection(st.centralDs)]
  OBVIOUS
<1>6. cl = [card |-> c, centralDs |-> y, ds |-> e]
  BY <1>1, <1>2, <1>3, <1>4, <1>5
<1>7. PICK f : f = [t \in T |-> LimitDsToCard(e[t], c)]
  OBVIOUS
<1>8. LimitAllDsToCard(cl) = [card |-> c, centralDs |-> y, ds |-> f]
  BY <1>3, <1>6, <1>7 DEF LimitAllDsToCard, Tables
<1>9. PICK r : r = FinishStat(st)
  OBVIOUS
<1>10. r = [LimitAllDsToCard(cl) EXCEPT !.centralDs = LimitDsToCard(@, c)]
  BY <1>1, <1>5, <1>9 DEF FinishStat
<1>11. r = [card |-> c, centralDs |-> LimitDsToCard(y, c), ds |-> f]
  BY <1>8, <1>10
<1>12. ASSUME NEW t \in T PROVE Finished(f[t], c)
  <2>1. e[t] \in Seq(FinishedBucket) /\ AddedUp(d[t]) <= GetCard(e[t])
    BY <1>1, <1>3, FinishFacts DEF Closes
  <2>2. AddedUp(d[t]) \in Nat /\ AddedUp(d[t]) >= c
    BY <1>1, AddedFacts DEF Closes, Collecting
  <2>3. Degrees(e[t]) /\ GetCard(e[t]) \in Nat
    BY <2>1, FinishedDegrees, DegreesFacts
  <2>4. GetCard(e[t]) >= c /\ (GetCard(e[t]) <= c => GetCard(e[t]) = c)
    BY <1>1, <2>1, <2>2, <2>3
  <2>5. /\ f[t] \in Seq(FinishedBucket)
        /\ GetCard(f[t]) = IF GetCard(e[t]) <= c THEN GetCard(e[t]) ELSE c
    BY <1>1, <1>7, <2>1, <2>3, LimitFacts
  <2> QED BY <2>4, <2>5 DEF Finished
<1>13. LimitDsToCard(y, c) \in Seq(FinishedBucket) /\ GetCard(LimitDsToCard(y, c)) <= c
  <2>1. y \in Seq(FinishedBucket)
    BY <1>1, <1>4, FinishFacts DEF Closes
  <2>2. Degrees(y) /\ GetCard(y) \in Nat
    BY <2>1, FinishedDegrees, DegreesFacts
  <2>3. /\ LimitDsToCard(y, c) \in Seq(FinishedBucket)
        /\ GetCard(LimitDsToCard(y, c)) = IF GetCard(y) <= c THEN GetCard(y) ELSE c
    BY <1>1, <2>1, <2>2, LimitFacts
  <2> QED BY <1>1, <2>2, <2>3
<1>14. /\ r.card = c /\ r.ds = f /\ DOMAIN f = T
       /\ r.centralDs = LimitDsToCard(y, c) /\ Tables(r) = T
       /\ r = [card |-> r.card, centralDs |-> r.centralDs, ds |-> r.ds]
  BY <1>7, <1>11 DEF Tables
<1>15. StatOK(r)
  BY <1>1, <1>12, <1>13, <1>14 DEF StatOK, IsStat
<1> QED BY <1>1, <1>9, <1>14, <1>15

(***************************************************************************)
(* Sums over rows.                                                         *)
(***************************************************************************)
DBOK == plan \in Plans /\ db \in [Cells(plan) -> plan.mult]

RowsBody(g, t, R, iter) ==
    [s \in SUBSET R |-> IF s = {} THEN 0 ELSE g[<<t, Pick(s)>>] + iter[s \ {Pick(s)}]]

RowTotal(g, t, R) == MapThenSumSet(LAMBDA r : g[<<t, r>>], R)

LEMMA RowsSum ==
    ASSUME NEW g, NEW t, NEW R, IsFiniteSet(R), \A r \in R : g[<<t, r>>] \in Nat
    PROVE  RowTotal(g, t, R) \in Nat
<1>1. PICK n : n = RowTotal(g, t, R)
  OBVIOUS
<1>2. n = (CHOOSE iter : iter = RowsBody(g, t, R, iter))[R]
  BY <1>1 DEF RowTotal, MapThenSumSet, MapThenFoldSet, Pick, RowsBody
<1>3. PICK f : f = [r \in R |-> g[<<t, r>>]]
  OBVIOUS
<1>4. \A s \in SUBSET R : s # {} => f[Pick(s)] = g[<<t, Pick(s)>>]
  BY <1>3, PickIn
<1>5. \A iter : RowsBody(g, t, R, iter) = SumBody(f, R, iter)
  BY <1>4 DEF RowsBody, SumBody
<1>6. (CHOOSE iter : iter = RowsBody(g, t, R, iter)) = SumIter(f, R)
  BY <1>5 DEF SumIter
<1>7. SumOf(f, R) \in Nat
  BY <1>3, SumNat
<1> QED BY <1>1, <1>2, <1>6, <1>7, SumUnfold

LEMMA PlanFacts ==
    ASSUME NEW p \in Plans
    PROVE  /\ DOMAIN p.cols \subseteq Nat \ {Center} /\ IsFiniteSet(DOMAIN p.cols)
           /\ \A t \in DOMAIN p.cols : IsFiniteSet(Rows(p, t))
           /\ p.mult \subseteq Nat /\ p.filters \subseteq DOMAIN p.cols
           /\ Len(p.pieces) \in Nat /\ DOMAIN p.pieces = 1..Len(p.pieces)
           /\ Len(p.steps) \in Nat /\ DOMAIN p.steps = 1..Len(p.steps)
           /\ \A i \in DOMAIN p.pieces : Star(p, p.pieces[i])
           /\ \A n \in DOMAIN p.steps : Mergeable(p, Meaning(p)[n - 1], p.steps[n])
<1>1. /\ Schema(p) /\ p.pieces \in Seq(Range(p.pieces)) /\ p.steps \in Seq(Range(p.steps))
      /\ \A i \in DOMAIN p.pieces : Star(p, p.pieces[i])
      /\ \A n \in DOMAIN p.steps : Mergeable(p, Meaning(p)[n - 1], p.steps[n])
  BY PlanAssumption
<1>2. \A t \in DOMAIN p.cols : IsFiniteSet(Rows(p, t))
  BY <1>1, FunctionsFinite, ValueAssumption DEF Schema, Rows
<1>3. /\ Len(p.pieces) \in Nat /\ DOMAIN p.pieces = 1..Len(p.pieces)
      /\ Len(p.steps) \in Nat /\ DOMAIN p.steps = 1..Len(p.steps)
  BY <1>1, LenProperties
<1> QED BY <1>1, <1>2, <1>3 DEF Schema

LEMMA CountOfNat ==
    ASSUME DBOK, NEW t \in DOMAIN plan.cols, NEW attr, NEW v
    PROVE  CountOf(t, attr, v) \in Nat
<1>1. PICK R : R = {r \in Rows(plan, t) : r[attr] = v}
  OBVIOUS
<1>2. IsFiniteSet(R)
  BY <1>1, PlanFacts, FS_Subset DEF DBOK
<1>3. ASSUME NEW r \in R PROVE db[<<t, r>>] \in Nat
  <2>1. <<t, r>> \in Cells(plan)
    BY <1>1 DEF Cells
  <2>2. plan.mult \subseteq Nat
    BY PlanFacts DEF DBOK
  <2> QED BY <2>1, <2>2 DEF DBOK
<1>4. RowTotal(db, t, R) \in Nat
  BY <1>2, <1>3, RowsSum
<1>5. CountOf(t, attr, v) = RowTotal(db, t, R)
  BY <1>1 DEF CountOf, RowTotal
<1> QED BY <1>4, <1>5

LEMMA TableCardNat ==
    ASSUME plan \in Plans, passing \in [Cells(plan) -> Nat], NEW t \in DOMAIN plan.cols
    PROVE  GetTableCard(t) \in Nat
<1>1. PICK R : R = Rows(plan, t)
  OBVIOUS
<1>2. IsFiniteSet(R)
  BY <1>1, PlanFacts
<1>3. ASSUME NEW r \in R PROVE passing[<<t, r>>] \in Nat
  <2>1. <<t, r>> \in Cells(plan)
    BY <1>1 DEF Cells
  <2> QED BY <2>1
<1>4. RowTotal(passing, t, R) \in Nat
  BY <1>2, <1>3, RowsSum
<1>5. GetTableCard(t) = RowTotal(passing, t, R)
  BY <1>1 DEF GetTableCard, RowTotal
<1> QED BY <1>4, <1>5

(***************************************************************************)
(* The summary of a star.                                                  *)
(***************************************************************************)
Vectors(piece) == {CountVector(piece, v) : v \in Value}
Sharing(piece, m) == Cardinality({v \in Value : CountVector(piece, v) = m})

PieceBody(piece, iter) ==
    [s \in SUBSET Vectors(piece) |->
        IF s = {} THEN NewStat(piece.tables)
        ELSE AddDegrees(iter[s \ {Pick(s)}], Pick(s), Sharing(piece, Pick(s)))]

PieceIter(piece) == CHOOSE iter : iter = PieceBody(piece, iter)

LEMMA CollectUnfold ==
    ASSUME NEW piece
    PROVE  CollectPiece(piece) = FinishStat(PieceIter(piece)[Vectors(piece)])
BY DEF CollectPiece, FoldSet, MapThenFoldSet, Pick, Sharing, Vectors, PieceBody, PieceIter

LEMMA VectorFacts ==
    ASSUME DBOK, NEW piece, Star(plan, piece)
    PROVE  /\ IsFiniteSet(piece.tables) /\ IsFiniteSet(Vectors(piece))
           /\ \A m \in Vectors(piece) : m \in [piece.tables -> Nat] /\ Sharing(piece, m) \in Nat
<1>1. piece.tables \subseteq DOMAIN plan.cols /\ IsFiniteSet(DOMAIN plan.cols)
  BY PlanFacts DEF DBOK, Star
<1>2. \A v \in Value : CountVector(piece, v) \in [piece.tables -> Nat]
  BY <1>1, CountOfNat DEF CountVector
<1>3. PICK V, h : V = Vectors(piece) /\ h = [v \in Value |-> CountVector(piece, v)]
  OBVIOUS
<1>4. h \in Surjection(Value, V)
  BY <1>3 DEF Surjection, Vectors
<1>5. IsFiniteSet(V)
  BY <1>4, FS_Surjection, ValueAssumption
<1>6. \A m : Sharing(piece, m) \in Nat
  <2> SUFFICES ASSUME NEW m PROVE Sharing(piece, m) \in Nat
    OBVIOUS
  <2>1. {v \in Value : CountVector(piece, v) = m} \in SUBSET Value
    OBVIOUS
  <2> QED BY <2>1, FS_Subset, FS_CardinalityType, ValueAssumption DEF Sharing
<1>7. \A m \in Vectors(piece) : m \in [piece.tables -> Nat]
  BY <1>2 DEF Vectors
<1>8. IsFiniteSet(piece.tables)
  BY <1>1, FS_Subset
<1> QED BY <1>3, <1>5, <1>6, <1>7, <1>8

LEMMA PieceIterFacts ==
    ASSUME DBOK, NEW piece, Star(plan, piece)
    PROVE  \A s \in SUBSET Vectors(piece) :
              /\ PieceIter(piece)[s] \in Growing(piece.tables)
              /\ PieceIter(piece)[s] =
                    IF s = {} THEN NewStat(piece.tables)
                    ELSE AddDegrees(PieceIter(piece)[s \ {Pick(s)}], Pick(s),
                                    Sharing(piece, Pick(s)))
<1>1. PICK T, V, n, D : /\ T = piece.tables /\ V = Vectors(piece) /\ D = Growing(T)
                        /\ n = [m \in V |-> Sharing(piece, m)]
  OBVIOUS
<1>2. /\ IsFiniteSet(T) /\ IsFiniteSet(V)
      /\ \A m \in V : m \in [T -> Nat] /\ n[m] \in Nat /\ n[m] = Sharing(piece, m)
  BY <1>1, VectorFacts
<1>3. PICK G : G = [m \in V |-> [st \in D |-> AddDegrees(st, m, n[m])]]
  OBVIOUS
<1>4. \A m \in V : \A st \in D : G[m][st] \in D /\ G[m][st] = AddDegrees(st, m, n[m])
  BY <1>1, <1>2, <1>3, AddDegreesGrows
<1>5. PICK pick : pick = AnyOf(V) /\ Picks(pick, V) /\ \A s \in SUBSET V : pick[s] = Pick(s)
  BY AnyOfPicks
<1>6. PICK base \in D : base = NewStat(T)
  BY <1>1, NewStatGrows
<1>7. PICK i0 : IsFold(i0, V, pick, D, base, G)
  BY <1>2, <1>4, <1>5, FoldDefined
<1>8. i0 = PieceBody(piece, i0)
  <2>1. i0 \in [SUBSET V -> D]
    BY <1>7 DEF IsFold
  <2>2. ASSUME NEW s \in SUBSET V
        PROVE  i0[s] = IF s = {} THEN NewStat(piece.tables)
                       ELSE AddDegrees(i0[s \ {Pick(s)}], Pick(s), Sharing(piece, Pick(s)))
    <3>1. i0[s] = IF s = {} THEN base ELSE G[pick[s]][i0[s \ {pick[s]}]]
      BY <1>7 DEF IsFold
    <3>2. CASE s = {}
      BY <1>1, <1>6, <3>1, <3>2
    <3>3. CASE s # {}
      <4>1. PICK m \in V : m = pick[s] /\ m = Pick(s)
        BY <1>5, <3>3 DEF Picks
      <4>2. s \ {m} \in SUBSET V
        OBVIOUS
      <4>3. PICK st \in D : st = i0[s \ {m}]
        BY <2>1, <4>2
      <4>4. G[m][st] = AddDegrees(st, m, Sharing(piece, m))
        BY <1>2, <1>4
      <4> QED BY <3>1, <3>3, <4>1, <4>3, <4>4
    <3> QED BY <3>2, <3>3
  <2>3. i0 = [s \in SUBSET V |-> i0[s]]
    BY <2>1
  <2> QED BY <1>1, <2>2, <2>3 DEF PieceBody
<1>9. PICK I : I = PieceIter(piece) /\ I = PieceBody(piece, I)
  BY <1>8 DEF PieceIter
<1>10. PICK Good : Good = {s \in SUBSET V : I[s] \in D}
  OBVIOUS
<1>11. {} \in Good
  BY <1>1, <1>6, <1>9, <1>10 DEF PieceBody
<1>12. ASSUME NEW s \in SUBSET V, s # {}, s \ {pick[s]} \in Good PROVE s \in Good
  <2>1. PICK m \in V : m = pick[s] /\ m = Pick(s)
    BY <1>5, <1>12 DEF Picks
  <2>2. I[s] = AddDegrees(I[s \ {m}], m, n[m])
    BY <1>1, <1>2, <1>9, <1>12, <2>1 DEF PieceBody
  <2>3. PICK st \in D : st = I[s \ {m}]
    BY <1>10, <1>12, <2>1
  <2> QED BY <1>4, <1>10, <2>2, <2>3
<1>13. \A s \in SUBSET V : s \in Good
  BY ONLY <1>5, <1>11, <1>12, <1>2, FoldInduction
<1>14. \A s \in SUBSET V :
          I[s] = IF s = {} THEN NewStat(piece.tables)
                 ELSE AddDegrees(I[s \ {Pick(s)}], Pick(s), Sharing(piece, Pick(s)))
  BY <1>1, <1>9 DEF PieceBody
<1> QED BY <1>1, <1>9, <1>10, <1>13, <1>14

LEMMA PieceGrows ==
    ASSUME DBOK, NEW piece, Star(plan, piece)
    PROVE  PieceIter(piece)[Vectors(piece)] \in Growing(piece.tables)
BY PieceIterFacts

LEMMA CollectPieceFacts ==
    ASSUME DBOK, NEW piece, Star(plan, piece)
    PROVE  StatOK(CollectPiece(piece)) /\ Tables(CollectPiece(piece)) = piece.tables
<1>1. PICK st, T : st = PieceIter(piece)[Vectors(piece)] /\ T = piece.tables
  OBVIOUS
<1>2. /\ st \in [card : Nat, centralDs : Seq(Bucket), ds : [T -> Seq(Bucket)]]
      /\ Adding(st.centralDs, st.card) /\ \A t \in T : Adding(st.ds[t], st.card)
  BY <1>1, PieceGrows DEF Growing
<1>3. IsStat(st) /\ st.card \in Nat /\ Tables(st) = T
  BY <1>2 DEF IsStat, Tables
<1>4. Closes(st.centralDs)
  BY <1>2 DEF Adding, Closes
<1>5. \A t \in T : Closes(st.ds[t]) /\ AddedUp(st.ds[t]) = st.card
  BY <1>2 DEF Adding, Closes
<1>6. \A t \in Tables(st) : Closes(st.ds[t]) /\ AddedUp(st.ds[t]) >= st.card
  BY <1>3, <1>5
<1>7. StatOK(FinishStat(st)) /\ Tables(FinishStat(st)) = Tables(st)
  BY <1>3, <1>4, <1>6, FinishStatFacts
<1> QED BY <1>1, <1>3, <1>7, CollectUnfold

-----------------------------------------------------------------------------
(***************************************************************************)
(* The reference of a plan.                                                *)
(***************************************************************************)
Meanings(p) == [DOMAIN p.pieces -> [tables : SUBSET DOMAIN p.cols, filters : SUBSET p.filters]]

MeaningBody(p, f) ==
    [n \in 0..Len(p.steps) |->
        IF n = 0 THEN [i \in DOMAIN p.pieces |->
                          [tables |-> p.pieces[i].tables, filters |-> {}]]
        ELSE AfterStep(f[n - 1], p.steps[n])]

LEMMA MeaningUnfold ==
    ASSUME NEW p
    PROVE  Meaning(p) = CHOOSE f : f = MeaningBody(p, f)
BY DEF Meaning, MeaningBody

LEMMA AfterStepType ==
    ASSUME NEW p \in Plans, NEW n \in DOMAIN p.steps, NEW m \in Meanings(p)
    PROVE  AfterStep(m, p.steps[n]) \in Meanings(p)
<1>1. PICK st : st = p.steps[n]
  OBVIOUS
<1>2. PICK M : Mergeable(p, M, st)
  BY <1>1, PlanFacts
<1>3. PICK R : R = [tables : SUBSET DOMAIN p.cols, filters : SUBSET p.filters]
  OBVIOUS
<1>4. st.to \in DOMAIN p.pieces /\ m \in [DOMAIN p.pieces -> R]
  BY <1>2, <1>3 DEF Mergeable, Meanings
<1>5. m[st.to] \in R
  BY <1>4
<1>6. CASE st.from = Filter
  <2>1. st.on \in p.filters
    <3>1. CASE st.from \in DOMAIN p.pieces
      <4>1. 0 \notin DOMAIN p.pieces
        BY PlanFacts
      <4> QED BY <1>6, <3>1, <4>1 DEF Filter
    <3> QED BY <1>2, <3>1 DEF Mergeable
  <2>2. [tables |-> m[st.to].tables, filters |-> m[st.to].filters \cup {st.on}] \in R
    BY <1>3, <1>5, <2>1
  <2> QED BY <1>1, <1>3, <1>4, <1>6, <2>2 DEF AfterStep, Meanings
<1>7. CASE st.from # Filter
  <2>1. st.from \in DOMAIN p.pieces
    BY <1>2, <1>7 DEF Mergeable
  <2>2. m[st.from] \in R
    BY <1>4, <2>1
  <2>3. [tables |-> m[st.to].tables \cup m[st.from].tables,
         filters |-> m[st.to].filters \cup m[st.from].filters] \in R
    BY <1>3, <1>5, <2>2
  <2> QED BY <1>1, <1>3, <1>4, <1>7, <2>3 DEF AfterStep, Meanings
<1> QED BY <1>6, <1>7

LEMMA MeaningFacts ==
    ASSUME NEW p \in Plans
    PROVE  /\ \A n \in 0..Len(p.steps) : Meaning(p)[n] \in Meanings(p)
           /\ Meaning(p)[0] = [i \in DOMAIN p.pieces |->
                                  [tables |-> p.pieces[i].tables, filters |-> {}]]
           /\ \A n \in 1..Len(p.steps) :
                 Meaning(p)[n] = AfterStep(Meaning(p)[n - 1], p.steps[n])
<1>1. PICK N \in Nat : N = Len(p.steps) /\ DOMAIN p.steps = 1..N
  BY PlanFacts
<1>2. PICK X, Stop, rank, prev, D, base, B, G :
          /\ X = 0..N /\ Stop = {0} /\ rank = [n \in X |-> n] /\ prev = [n \in X |-> n - 1]
          /\ D = Meanings(p)
          /\ base = [i \in DOMAIN p.pieces |-> [tables |-> p.pieces[i].tables, filters |-> {}]]
          /\ B = [n \in X |-> base]
          /\ G = [n \in X |-> [m \in D |-> AfterStep(m, p.steps[n])]]
  OBVIOUS
<1>3. Recurses(X, Stop, rank, prev)
  BY <1>2 DEF Recurses
<1>4. base \in D /\ \A x \in Stop : B[x] \in D
  <2>1. \A i \in DOMAIN p.pieces : p.pieces[i].tables \in SUBSET DOMAIN p.cols
    BY PlanFacts DEF Star
  <2>2. base \in D
    BY <1>2, <2>1 DEF Meanings
  <2>3. 0 \in X
    BY <1>2
  <2> QED BY <1>2, <2>2, <2>3
<1>5. ASSUME NEW n \in X \ Stop, NEW m \in D
      PROVE  G[n][m] \in D /\ G[n][m] = AfterStep(m, p.steps[n])
  <2>1. n \in DOMAIN p.steps /\ n \in X
    BY <1>1, <1>2
  <2> QED BY <1>2, <2>1, AfterStepType
<1>6. PICK g : IsRec(g, X, Stop, prev, D, B, G)
  <2>1. \A x \in X \ Stop : \A a \in D : G[x][a] \in D
    BY <1>5
  <2> QED BY ONLY <1>3, <1>4, <2>1, RecDefined
<1>7. g = MeaningBody(p, g)
  <2>1. g \in [X -> D]
    BY <1>6 DEF IsRec
  <2>2. ASSUME NEW n \in X
        PROVE  g[n] = IF n = 0 THEN base ELSE AfterStep(g[n - 1], p.steps[n])
    <3>1. g[n] = IF n \in Stop THEN B[n] ELSE G[n][g[prev[n]]]
      BY <1>6 DEF IsRec
    <3>2. CASE n = 0
      BY <1>2, <3>1, <3>2
    <3>3. CASE n # 0
      <4>1. n \in X \ Stop /\ prev[n] = n - 1 /\ n - 1 \in X
        BY <1>2, <3>3
      <4>2. g[n - 1] \in D
        BY <2>1, <4>1
      <4> QED BY <1>5, <3>1, <3>3, <4>1, <4>2
    <3> QED BY <3>2, <3>3
  <2>3. g = [n \in X |-> g[n]]
    BY <2>1
  <2> QED BY <1>1, <1>2, <2>2, <2>3 DEF MeaningBody
<1>8. PICK f : f = Meaning(p) /\ f = MeaningBody(p, f)
  BY <1>7, MeaningUnfold
<1>9. f[0] = base /\ \A n \in 1..N : f[n] = AfterStep(f[n - 1], p.steps[n])
  <2>1. \A n \in 0..N : f[n] = IF n = 0 THEN base ELSE AfterStep(f[n - 1], p.steps[n])
    BY <1>1, <1>2, <1>8 DEF MeaningBody
  <2>2. 0 \in 0..N /\ \A n \in 1..N : n \in 0..N /\ n # 0
    OBVIOUS
  <2> QED BY <2>1, <2>2
<1>10. PICK Good : Good = {n \in X : f[n] \in D}
  OBVIOUS
<1>11. Stop \in SUBSET Good
  BY <1>2, <1>4, <1>9, <1>10
<1>12. \A n \in X \ Stop : prev[n] \in Good => n \in Good
  <2> SUFFICES ASSUME NEW n \in X \ Stop, prev[n] \in Good PROVE n \in Good
    OBVIOUS
  <2>1. n \in 1..N /\ prev[n] = n - 1 /\ n \in DOMAIN p.steps
    BY <1>1, <1>2
  <2>2. f[n - 1] \in D
    BY <1>10, <2>1
  <2> QED BY <1>2, <1>9, <1>10, <2>1, <2>2, AfterStepType
<1>13. \A n \in X : n \in Good
  BY ONLY <1>3, <1>11, <1>12, RecInduction
<1> QED BY <1>1, <1>2, <1>8, <1>9, <1>10, <1>13

-----------------------------------------------------------------------------
(***************************************************************************)
(* The loop of Merge on one side.                                          *)
(***************************************************************************)
LEMMA RowBucketFacts ==
    ASSUME NEW s \in Seq(RowBucket)
    PROVE  /\ Degrees(s) /\ Len(s) \in Nat /\ DOMAIN s = 1..Len(s)
           /\ \A i \in 1..Len(s) : s[i].maxDegree \in Nat \ {0} /\ s[i].count \in Nat
<1>1. RowBucket \subseteq AnyBucket
  BY DEF RowBucket, AnyBucket
<1>2. Degrees(s)
  BY <1>1, SeqMonotonic DEF Degrees
<1>3. Len(s) \in Nat /\ DOMAIN s = 1..Len(s)
  OBVIOUS
<1>4. \A i \in 1..Len(s) : s[i] \in RowBucket
  BY ElementOfSeq
<1>5. \A i \in 1..Len(s) : s[i].maxDegree \in Nat \ {0} /\ s[i].count \in Nat
  BY <1>4 DEF RowBucket
<1> QED BY <1>2, <1>3, <1>5

LEMMA FinishedFacts ==
    ASSUME NEW s \in Seq(FinishedBucket)
    PROVE  /\ s \in Seq(RowBucket) /\ Degrees(s) /\ Len(s) \in Nat /\ DOMAIN s = 1..Len(s)
           /\ GetCard(s) \in Nat
           /\ \A i \in 1..Len(s) : s[i].maxDegree \in Nat \ {0} /\ s[i].count \in Nat \ {0}
<1>1. FinishedBucket \subseteq RowBucket
  BY DEF FinishedBucket, RowBucket
<1>2. s \in Seq(RowBucket)
  BY <1>1, SeqMonotonic
<1>3. \A i \in 1..Len(s) : s[i] \in FinishedBucket
  BY ElementOfSeq
<1>4. \A i \in 1..Len(s) : s[i].maxDegree \in Nat \ {0} /\ s[i].count \in Nat \ {0}
  BY <1>3 DEF FinishedBucket
<1> QED BY <1>2, <1>4, RowBucketFacts, DegreesFacts

LEMMA LoopBounds ==
    ASSUME NEW s \in Seq(RowBucket), NEW c, NEW p, NEW d, LoopOK(c, p, d, s)
    PROVE  /\ Used(c, p, d, s) \in Nat /\ Used(c, p, d, s) <= GetCard(s)
           /\ RowsLeft(c, p, s) \in Nat /\ GetCard(s) \in Nat
<1>1. /\ Degrees(s) /\ Len(s) \in Nat
      /\ p \in 0..Len(s) /\ c \in Nat /\ d \in Nat /\ (p = 0 => c = 0)
      /\ p > 0 => d = s[p].maxDegree /\ c <= s[p].count
  BY RowBucketFacts DEF LoopOK
<1>2. GetCard(s) \in Nat /\ GetNDV(s) \in Nat
  BY <1>1, DegreesFacts
<1>3. /\ CardUpTo(s, p) \in Nat /\ NDVUpTo(s, p) \in Nat
      /\ CardUpTo(s, p) <= GetCard(s) /\ NDVUpTo(s, p) <= GetNDV(s)
  <2>1. Len(s) \in 0..Len(s) /\ p <= Len(s)
    BY <1>1
  <2>2. CardUpTo(s, p) \in Nat /\ NDVUpTo(s, p) \in Nat
    BY <1>1, UpToFacts
  <2>3. CardUpTo(s, p) <= CardUpTo(s, Len(s)) /\ NDVUpTo(s, p) <= NDVUpTo(s, Len(s))
    BY <1>1, <2>1, UpToGrows
  <2> QED BY <1>1, <2>2, <2>3, UpToEnds
<1>4. RowsLeft(c, p, s) \in Nat
  BY <1>1, <1>2, <1>3 DEF RowsLeft
<1>5. c * d \in Nat /\ c * d <= CardUpTo(s, p)
  <2>1. CASE p = 0
    BY <1>1, <1>3, <2>1
  <2>2. CASE p > 0
    <3>1. p \in 1..Len(s)
      BY <1>1, <2>2
    <3>2. PICK k \in Nat : k = s[p].count /\ c <= k /\ d = s[p].maxDegree
      BY <1>1, <2>2, <3>1, RowBucketFacts
    <3>3. CardUpTo(s, p) = CardUpTo(s, p - 1) + k * d /\ CardUpTo(s, p - 1) \in Nat
      BY <1>1, <3>1, <3>2, UpToNext
    <3>4. c * d \in Nat /\ k * d \in Nat /\ c * d = d * c /\ k * d = d * k /\ d * c <= d * k
      BY <1>1, <3>2, TimesNat, TimesMonotone
    <3> QED BY <3>3, <3>4
  <2> QED BY <1>1, <2>1, <2>2
<1> QED BY <1>2, <1>3, <1>4, <1>5 DEF Used

LEMMA LoopAdvances ==
    ASSUME NEW s \in Seq(RowBucket), NEW c, NEW p, NEW d, LoopOK(c, p, d, s),
           Loaded(c, p, s), NEW n \in Nat, n <= Remaining(c, p, s)
    PROVE  /\ Remaining(c, p, s) \in Nat
           /\ DegreeNow(c, d, p, s) \in Nat \ {0} /\ PointerNow(c, p) > 0
           /\ LoopOK(Remaining(c, p, s) - n, PointerNow(c, p), DegreeNow(c, d, p, s), s)
           /\ Used(Remaining(c, p, s) - n, PointerNow(c, p), DegreeNow(c, d, p, s), s)
                = Used(c, p, d, s) + DegreeNow(c, d, p, s) * n
           /\ RowsLeft(Remaining(c, p, s) - n, PointerNow(c, p), s) + n + If(~(c > 0))
                = RowsLeft(c, p, s)
           /\ c > 0 => Remaining(c, p, s) = c
<1>1. /\ Degrees(s) /\ Len(s) \in Nat
      /\ p \in 0..Len(s) /\ c \in Nat /\ d \in Nat /\ (p = 0 => c = 0)
      /\ p > 0 => d = s[p].maxDegree /\ c <= s[p].count
  BY RowBucketFacts DEF LoopOK
<1>2. GetCard(s) \in Nat /\ GetNDV(s) \in Nat
  BY <1>1, DegreesFacts
<1>3. CardUpTo(s, p) \in Nat /\ NDVUpTo(s, p) \in Nat
  BY <1>1, UpToFacts
<1>4. CASE c > 0
  <2>1. /\ Remaining(c, p, s) = c /\ PointerNow(c, p) = p /\ DegreeNow(c, d, p, s) = d
        /\ If(~(c > 0)) = 0
    BY <1>4 DEF Remaining, PointerNow, DegreeNow, If
  <2>2. p \in 1..Len(s) /\ p > 0
    BY <1>1, <1>4
  <2>3. d \in Nat \ {0} /\ s[p].count \in Nat
    BY <1>1, <2>2, RowBucketFacts
  <2>4. n <= c /\ c - n \in Nat /\ c - n <= s[p].count
    BY <1>1, <2>1, <2>2, <2>3
  <2>5. LoopOK(c - n, p, d, s)
    BY <1>1, <2>2, <2>4 DEF LoopOK
  <2>6. (c - n) * d = c * d - d * n /\ c * d \in Nat /\ d * n \in Nat
    BY <1>1, <2>4, TimesNat
  <2>7. Used(c - n, p, d, s) = Used(c, p, d, s) + d * n
    BY <1>3, <2>6 DEF Used
  <2>8. RowsLeft(c - n, p, s) + n + 0 = RowsLeft(c, p, s)
    BY <1>1, <1>2, <1>3, <2>4 DEF RowsLeft
  <2> QED BY <1>1, <2>1, <2>2, <2>3, <2>5, <2>7, <2>8
<1>5. CASE ~(c > 0)
  <2>1. c = 0 /\ p + 1 \in 1..Len(s) /\ (p + 1) - 1 = p /\ p + 1 > 0 /\ p + 1 \in 0..Len(s)
    BY <1>1, <1>5 DEF Loaded
  <2>2. PICK q : q = p + 1
    OBVIOUS
  <2>3. PICK k \in Nat, m \in Nat \ {0} : k = s[q].count /\ m = s[q].maxDegree
    BY <2>1, <2>2, RowBucketFacts
  <2>4. /\ Remaining(c, p, s) = k /\ PointerNow(c, p) = q /\ DegreeNow(c, d, p, s) = m
        /\ If(~(c > 0)) = 1
    BY <1>5, <2>2, <2>3 DEF Remaining, PointerNow, DegreeNow, If
  <2>5. n <= k /\ k - n \in Nat /\ k - n <= k
    BY <2>4
  <2>6. LoopOK(k - n, q, m, s)
    <3>1. q \in 0..Len(s) /\ q # 0 /\ q > 0 /\ m \in Nat
      BY <1>1, <2>1, <2>2
    <3> QED BY <2>3, <2>5, <3>1 DEF LoopOK
  <2>7. CardUpTo(s, q) = CardUpTo(s, p) + k * m /\ NDVUpTo(s, q) = NDVUpTo(s, p) + k
    BY <1>1, <2>1, <2>2, <2>3, UpToNext
  <2>8. (k - n) * m = k * m - m * n /\ k * m \in Nat /\ m * n \in Nat /\ c * d = 0
    BY <1>1, <2>1, <2>5, TimesNat
  <2>9. Used(k - n, q, m, s) = Used(c, p, d, s) + m * n
    BY <1>3, <2>7, <2>8 DEF Used
  <2>10. RowsLeft(k - n, q, s) + n + 1 = RowsLeft(c, p, s)
    <3>1. PICK N \in Nat, u \in Nat, l \in Nat, P \in Nat :
              N = GetNDV(s) /\ u = NDVUpTo(s, p) /\ l = Len(s) /\ P = p /\ q = P + 1
      BY <1>1, <1>2, <1>3, <2>2
    <3>2. RowsLeft(k - n, q, s) = (k - n) + N - (u + k) + l - (P + 1)
      BY <2>7, <3>1 DEF RowsLeft
    <3>3. RowsLeft(c, p, s) = 0 + N - u + l - P
      BY <2>1, <3>1 DEF RowsLeft
    <3> QED BY <2>5, <3>2, <3>3
  <2> QED BY <1>5, <2>1, <2>2, <2>4, <2>6, <2>9, <2>10
<1> QED BY <1>4, <1>5

-----------------------------------------------------------------------------
(***************************************************************************)
(* MergeEdgeDegreeSequences: what holds of an edge table whose old degrees *)
(* are s when used tuples have been counted, of which rows are still to be *)
(* distributed, and the new degrees are nd.                                *)
(***************************************************************************)
EdgeSound(e, s, used, rows, degree, nd, card) ==
    /\ EdgeOK(e, s)
    /\ ToCome(e, s) = GetCard(s) - used + rows
    /\ Collecting(nd) /\ PositiveCounts(nd)
    /\ AddedUp(nd) + e.curDegree + rows * degree = card

LEMMA EdgeFields ==
    ASSUME NEW e \in Edge
    PROVE  /\ e.pos \in Nat /\ e.pos > 0 /\ e.curDegree \in Nat
           /\ e.remainRow \in Nat /\ e.remainCount \in Nat
BY DEF Edge

LEMMA EdgeRecord ==
    ASSUME NEW e \in Edge
    PROVE  e = [pos |-> e.pos, curDegree |-> e.curDegree,
                remainRow |-> e.remainRow, remainCount |-> e.remainCount]
BY DEF Edge

LEMMA EdgeParts ==
    ASSUME NEW e \in Edge
    PROVE  \E p, c, r, n : e = [pos |-> p, curDegree |-> c, remainRow |-> r, remainCount |-> n]
<1>1. PICK p, c, r, n :
          p = e.pos /\ c = e.curDegree /\ r = e.remainRow /\ n = e.remainCount
  OBVIOUS
<1> QED BY <1>1, EdgeRecord

\* The place before a bucket nothing was taken from.
LEMMA NextBucket ==
    ASSUME NEW s \in Seq(FinishedBucket), NEW i \in 0..Len(s), NEW e \in Edge,
           e.pos = i + 1, e.remainRow = 0, e.remainCount = 0
    PROVE  EdgeOK(e, s) /\ ToCome(e, s) = GetCard(s) - CardUpTo(s, i)
<1>1. Degrees(s) /\ Len(s) \in Nat /\ GetCard(s) \in Nat
  BY FinishedFacts
<1>2. CASE i = Len(s)
  <2>1. e.pos > Len(s) /\ ~(e.pos <= Len(s)) /\ e.pos <= Len(s) + 1
    BY <1>1, <1>2
  <2>2. EdgeOK(e, s) /\ ToCome(e, s) = 0
    BY <2>1 DEF EdgeOK, ToCome
  <2>3. CardUpTo(s, i) = GetCard(s)
    BY <1>1, <1>2, UpToEnds
  <2> QED BY <1>1, <2>2, <2>3
<1>3. CASE i # Len(s)
  <2>1. PICK j : /\ j = e.pos /\ j \in 1..Len(s) /\ j - 1 = i /\ ~(j > Len(s))
                 /\ j <= Len(s) /\ j <= Len(s) + 1
    BY <1>1, <1>3
  <2>2. PICK k \in Nat \ {0}, m \in Nat \ {0} : k = s[j].count /\ m = s[j].maxDegree
    BY <2>1, FinishedFacts
  <2>3. If(e.remainRow > 0) = 0
    BY DEF If
  <2>4. EdgeOK(e, s)
    BY <2>1, <2>2, <2>3 DEF EdgeOK
  <2>5. ToCome(e, s) = GetCard(s) - CardUpTo(s, j) + k * m
    BY <2>1, <2>2 DEF ToCome, InBucket
  <2>6. /\ CardUpTo(s, j) = CardUpTo(s, i) + k * m
        /\ CardUpTo(s, i) \in Nat /\ CardUpTo(s, j) \in Nat
    BY <1>1, <2>1, <2>2, UpToNext
  <2>7. k * m \in Nat
    BY TimesNat
  <2> QED BY <1>1, <2>4, <2>5, <2>6, <2>7
<1> QED BY <1>2, <1>3

LEMMA EdgeStarts ==
    ASSUME NEW s \in Seq(FinishedBucket)
    PROVE  EdgeOK(NewEdge, s) /\ ToCome(NewEdge, s) = GetCard(s)
<1>1. NewEdge \in Edge /\ NewEdge.pos = 0 + 1 /\ NewEdge.remainRow = 0 /\ NewEdge.remainCount = 0
  BY DEF NewEdge, Edge
<1>2. Degrees(s) /\ Len(s) \in Nat /\ GetCard(s) \in Nat /\ 0 \in 0..Len(s)
  BY FinishedFacts
<1>3. EdgeOK(NewEdge, s) /\ ToCome(NewEdge, s) = GetCard(s) - CardUpTo(s, 0)
  BY <1>1, <1>2, NextBucket
<1> QED BY <1>2, <1>3, UpToEnds

\* The bucket at the place where an edge table is.
LEMMA BucketNow ==
    ASSUME NEW s \in Seq(FinishedBucket), NEW e, EdgeOK(e, s), e.pos <= Len(s)
    PROVE  /\ e \in Edge /\ e.pos \in 1..Len(s) /\ e.pos \in 0..Len(s)
           /\ s[e.pos].maxDegree \in Nat \ {0} /\ s[e.pos].count \in Nat \ {0}
           /\ e.remainRow < s[e.pos].maxDegree
           /\ e.remainCount + If(e.remainRow > 0) <= s[e.pos].count
           /\ ToCome(e, s) = GetCard(s) - CardUpTo(s, e.pos) + InBucket(e, s[e.pos])
           /\ CardUpTo(s, e.pos) \in Nat /\ GetCard(s) \in Nat
<1>1. e \in Edge /\ e.pos \in Nat /\ e.pos > 0
  BY EdgeFields DEF EdgeOK
<1>2. Degrees(s) /\ Len(s) \in Nat /\ GetCard(s) \in Nat
  BY FinishedFacts
<1>3. e.pos \in 1..Len(s) /\ e.pos \in 0..Len(s) /\ ~(e.pos > Len(s))
  BY <1>1, <1>2
<1>4. CardUpTo(s, e.pos) \in Nat
  BY <1>2, <1>3, UpToFacts
<1>5. s[e.pos].maxDegree \in Nat \ {0} /\ s[e.pos].count \in Nat \ {0}
  BY <1>3, FinishedFacts
<1> QED BY <1>1, <1>2, <1>3, <1>4, <1>5 DEF EdgeOK, ToCome

\* A place within the same bucket.
LEMMA SameBucket ==
    ASSUME NEW s \in Seq(FinishedBucket), NEW f \in Edge, f.pos \in 1..Len(s),
           f.remainRow < s[f.pos].maxDegree,
           f.remainCount + If(f.remainRow > 0) <= s[f.pos].count
    PROVE  EdgeOK(f, s)
           /\ ToCome(f, s) = GetCard(s) - CardUpTo(s, f.pos) + InBucket(f, s[f.pos])
<1>1. Len(s) \in Nat
  OBVIOUS
<1>2. f.pos <= Len(s) /\ ~(f.pos > Len(s)) /\ f.pos <= Len(s) + 1
  BY <1>1
<1> QED BY <1>2 DEF EdgeOK, ToCome

\* Tuples are given out one for one.
LEMMA SoundMove ==
    ASSUME NEW s \in Seq(FinishedBucket), NEW e, NEW used \in Nat, NEW rows \in Nat,
           NEW degree \in Nat, NEW nd, NEW card,
           EdgeSound(e, s, used, rows, degree, nd, card),
           NEW f, NEW left \in Nat, NEW nf, EdgeOK(f, s),
           ToCome(f, s) = ToCome(e, s) - (rows - left),
           Collecting(nf), PositiveCounts(nf),
           AddedUp(nf) + f.curDegree + left * degree
               = AddedUp(nd) + e.curDegree + rows * degree
    PROVE  EdgeSound(f, s, used, left, degree, nf, card)
<1>1. GetCard(s) \in Nat /\ ToCome(e, s) = GetCard(s) - used + rows
  BY FinishedFacts DEF EdgeSound
<1>2. ToCome(f, s) = GetCard(s) - used + left
  BY <1>1
<1> QED BY <1>2 DEF EdgeSound

\* CompleteRow.
LEMMA CompleteSound ==
    ASSUME NEW s \in Seq(FinishedBucket), NEW e, NEW used \in Nat, NEW rows \in Nat,
           NEW degree \in Nat, NEW nd, NEW card,
           EdgeSound(e, s, used, rows, degree, nd, card),
           e.pos <= Len(s), e.remainRow > 0, rows > e.remainRow,
           NEW f \in Edge, f.remainRow = 0, f.curDegree = 0, f.remainCount = e.remainCount,
           f.pos = IF e.remainCount = 0 THEN e.pos + 1 ELSE e.pos
    PROVE  /\ rows - e.remainRow \in Nat
           /\ EdgeSound(f, s, used, rows - e.remainRow, degree,
                        AddDegree(nd, e.curDegree + e.remainRow * degree, 1), card)
           /\ f.remainRow = 0 /\ (f.pos = e.pos \/ f.pos = e.pos + 1)
<1>1. EdgeOK(e, s) /\ Collecting(nd) /\ PositiveCounts(nd) /\ e \in Edge
  BY DEF EdgeSound, EdgeOK
<1>2. PICK pos \in Nat, cur \in Nat, rr \in Nat, rc \in Nat :
          pos = e.pos /\ cur = e.curDegree /\ rr = e.remainRow /\ rc = e.remainCount
  BY <1>1, EdgeFields
<1>3. PICK k \in Nat \ {0}, m \in Nat \ {0}, U \in Nat, G \in Nat :
          /\ k = s[pos].count /\ m = s[pos].maxDegree
          /\ U = CardUpTo(s, pos) /\ G = GetCard(s)
          /\ ToCome(e, s) = G - U + InBucket(e, s[pos])
          /\ rc + If(rr > 0) <= k /\ rr < m
          /\ pos \in 1..Len(s) /\ pos \in 0..Len(s)
  BY <1>1, <1>2, BucketNow
<1>4. rc + 1 <= k /\ rr > 0
  BY <1>2, <1>3 DEF If
<1>5. ToCome(e, s) = G - U + (rc * m + rr)
  BY <1>2, <1>3, <1>4 DEF InBucket
<1>6. /\ f \in Edge /\ f.remainRow = 0 /\ f.curDegree = 0 /\ f.remainCount = rc
      /\ f.pos = IF rc = 0 THEN pos + 1 ELSE pos
  BY <1>2
<1>7. EdgeOK(f, s) /\ ToCome(f, s) = G - U + rc * m
  <2>1. CASE rc = 0
    BY <1>3, <1>6, <2>1, NextBucket
  <2>2. CASE rc # 0
    <3>1. If(f.remainRow > 0) = 0 /\ f.pos = pos
      BY <1>6, <2>2 DEF If
    <3>2. f.remainCount + If(f.remainRow > 0) <= s[f.pos].count /\ f.remainRow < s[f.pos].maxDegree
      <4>1. /\ k = s[f.pos].count /\ m = s[f.pos].maxDegree
            /\ f.remainCount = rc /\ f.remainRow = 0
        BY ONLY <1>3, <1>6, <3>1
      <4> QED BY ONLY <1>4, <3>1, <4>1, rc \in Nat, k \in Nat \ {0}, m \in Nat \ {0}
    <3>3. EdgeOK(f, s) /\ ToCome(f, s) = G - U + InBucket(f, s[pos])
      BY <1>3, <1>6, <3>1, <3>2, SameBucket
    <3>4. InBucket(f, s[pos]) = rc * m + 0
      BY <1>3, <1>6, <2>2 DEF InBucket
    <3>5. rc * m \in Nat
      BY TimesNat
    <3> QED BY <3>3, <3>4, <3>5
  <2> QED BY <2>1, <2>2
<1>8. PICK left \in Nat : left = rows - e.remainRow
  BY <1>2
<1>9. PICK a \in Nat, b \in Nat, c \in Nat :
          a = rc * m /\ b = rr * degree /\ c = left * degree
  BY TimesNat
<1>10. ToCome(f, s) = ToCome(e, s) - (rows - left)
  <2>1. ToCome(f, s) = G - U + a /\ ToCome(e, s) = G - U + (a + rr) /\ left = rows - rr
    BY <1>2, <1>5, <1>7, <1>8, <1>9
  <2> QED BY <2>1
<1>11. PICK x \in Nat : x = cur + rr * degree /\ x = cur + b
  BY <1>9
<1>12. PICK nf : nf = AddDegree(nd, x, 1)
  OBVIOUS
<1>13. /\ Collecting(nf) /\ PositiveCounts(nf) /\ AddedUp(nd) \in Nat
       /\ AddedUp(nf) = AddedUp(nd) + x * 1
  BY <1>1, <1>12, AddDegreeFacts
<1>14. rows * degree = b + c
  <2>1. (rr + left) * degree = rr * degree + left * degree /\ rows = rr + left
    BY <1>2, <1>8
  <2> QED BY <1>9, <2>1
<1>15. AddedUp(nf) + f.curDegree + left * degree = AddedUp(nd) + e.curDegree + rows * degree
  <2>1. PICK A \in Nat : A = AddedUp(nd) /\ AddedUp(nf) = A + x
    BY <1>13
  <2>2. (A + x) + 0 + c = A + cur + (b + c)
    BY <1>11
  <2> QED BY <1>2, <1>6, <1>9, <1>14, <2>1, <2>2
<1>16. EdgeSound(f, s, used, left, degree, nf, card)
  BY <1>7, <1>10, <1>13, <1>15, SoundMove
<1> QED BY <1>2, <1>6, <1>8, <1>11, <1>12, <1>16

\* ExtendRow; nf are the new degrees, with the row if it is complete.
LEMMA ExtendSound ==
    ASSUME NEW s \in Seq(FinishedBucket), NEW e, NEW used \in Nat, NEW rows \in Nat,
           NEW degree \in Nat, NEW nd, NEW card,
           EdgeSound(e, s, used, rows, degree, nd, card),
           e.pos <= Len(s), e.remainRow > 0, rows <= e.remainRow,
           NEW row, row = e.remainRow - rows,
           NEW d, d = e.curDegree + rows * degree,
           NEW nf, nf = IF row = 0 THEN AddDegree(nd, d, 1) ELSE nd,
           NEW f \in Edge, f.remainRow = row, f.curDegree = (IF row = 0 THEN 0 ELSE d),
           f.remainCount = e.remainCount,
           f.pos = IF row = 0 /\ e.remainCount = 0 THEN e.pos + 1 ELSE e.pos
    PROVE  EdgeSound(f, s, used, 0, degree, nf, card)
<1>1. EdgeOK(e, s) /\ Collecting(nd) /\ PositiveCounts(nd) /\ e \in Edge
  BY DEF EdgeSound, EdgeOK
<1>2. PICK pos \in Nat, cur \in Nat, rr \in Nat, rc \in Nat :
          pos = e.pos /\ cur = e.curDegree /\ rr = e.remainRow /\ rc = e.remainCount
  BY <1>1, EdgeFields
<1>3. PICK k \in Nat \ {0}, m \in Nat \ {0}, U \in Nat, G \in Nat :
          /\ k = s[pos].count /\ m = s[pos].maxDegree
          /\ U = CardUpTo(s, pos) /\ G = GetCard(s)
          /\ ToCome(e, s) = G - U + InBucket(e, s[pos])
          /\ rc + If(rr > 0) <= k /\ rr < m
          /\ pos \in 1..Len(s) /\ pos \in 0..Len(s)
  BY <1>1, <1>2, BucketNow
<1>4. rc + 1 <= k /\ rr > 0
  BY <1>2, <1>3 DEF If
<1>5. ToCome(e, s) = G - U + (rc * m + rr)
  BY <1>2, <1>3, <1>4 DEF InBucket
<1>6. PICK a \in Nat, b \in Nat : a = rc * m /\ b = rows * degree
  BY TimesNat
<1>7. row \in Nat /\ row = rr - rows /\ d \in Nat /\ d = cur + b
  <2>1. row = rr - rows /\ rows <= rr
    BY <1>2
  <2>2. d = cur + b
    BY <1>2, <1>6
  <2> QED BY ONLY <2>1, <2>2, rr \in Nat, rows \in Nat, cur \in Nat, b \in Nat
<1>8. /\ f \in Edge /\ f.remainRow = row /\ f.curDegree = (IF row = 0 THEN 0 ELSE d)
      /\ f.remainCount = rc /\ f.pos = IF row = 0 /\ rc = 0 THEN pos + 1 ELSE pos
  BY <1>2
<1>9. EdgeOK(f, s) /\ ToCome(f, s) = G - U + (rc * m + row)
  <2>1. CASE row = 0 /\ rc = 0
    <3>1. EdgeOK(f, s) /\ ToCome(f, s) = G - U
      BY <1>3, <1>8, <2>1, NextBucket
    <3> QED BY <2>1, <3>1
  <2>2. CASE ~(row = 0 /\ rc = 0)
    <3>1. If(f.remainRow > 0) <= 1 /\ If(f.remainRow > 0) \in Nat /\ f.pos = pos
      BY <1>8, <2>2 DEF If
    <3>2. f.remainCount + If(f.remainRow > 0) <= s[f.pos].count /\ f.remainRow < s[f.pos].maxDegree
      <4>1. row < m
        BY ONLY <1>3, <1>7, rr \in Nat, rows \in Nat, m \in Nat \ {0}
      <4>2. PICK i : i = If(f.remainRow > 0) /\ i \in Nat /\ i <= 1
        BY <3>1
      <4>3. rc + i <= k
        BY ONLY <1>4, <4>2, rc \in Nat, k \in Nat \ {0}
      <4> QED BY ONLY <1>3, <1>8, <3>1, <4>1, <4>2, <4>3
    <3>3. EdgeOK(f, s) /\ ToCome(f, s) = G - U + InBucket(f, s[pos])
      BY <1>3, <1>8, <3>1, <3>2, SameBucket
    <3>4. InBucket(f, s[pos]) = rc * m + row
      BY <1>3, <1>8, <2>2 DEF InBucket
    <3> QED BY <3>3, <3>4
  <2> QED BY <2>1, <2>2
<1>10. ToCome(f, s) = ToCome(e, s) - (rows - 0)
  <2>1. ToCome(f, s) = G - U + (a + row) /\ ToCome(e, s) = G - U + (a + rr)
    BY <1>5, <1>6, <1>9
  <2> QED BY <1>7, <2>1
<1>11. /\ Collecting(nf) /\ PositiveCounts(nf) /\ AddedUp(nd) \in Nat
       /\ AddedUp(nf) = AddedUp(nd) + (IF row = 0 THEN d * 1 ELSE 0)
  <2>1. AddedUp(nd) \in Nat
    BY <1>1, <1>7, AddDegreeFacts
  <2>2. CASE row = 0
    <3>1. PICK nx : nx = AddDegree(nd, d, 1) /\ nx = nf
      BY <2>2
    <3>2. /\ Collecting(nx) /\ PositiveCounts(nx)
          /\ AddedUp(nx) = AddedUp(nd) + d * 1
      BY ONLY <1>1, <1>7, <3>1, 1 \in Nat, 1 > 0, AddDegreeFacts
    <3> QED BY <2>1, <2>2, <3>1, <3>2
  <2>3. CASE row # 0
    BY <1>1, <2>1, <2>3
  <2> QED BY <2>2, <2>3
<1>12. AddedUp(nf) + f.curDegree + 0 * degree = AddedUp(nd) + e.curDegree + rows * degree
  <2>1. PICK A \in Nat : A = AddedUp(nd) /\ AddedUp(nf) = A + (IF row = 0 THEN d ELSE 0)
    BY <1>7, <1>11
  <2>2. 0 * degree = 0 /\ (A + (IF row = 0 THEN d ELSE 0)) + (IF row = 0 THEN 0 ELSE d) + 0
                              = A + cur + b
    BY <1>7
  <2> QED BY <1>2, <1>6, <1>8, <2>1, <2>2
<1> QED BY <1>9, <1>10, <1>11, <1>12, SoundMove

\* TakeBucket: all u rows of degree m that are left in a bucket.
LEMMA TakeSound ==
    ASSUME NEW s \in Seq(FinishedBucket), NEW e, NEW used \in Nat, NEW rows \in Nat,
           NEW degree \in Nat, NEW nd, NEW card,
           EdgeSound(e, s, used, rows, degree, nd, card),
           e.pos <= Len(s), e.remainRow = 0, NEW m \in Nat \ {0}, m = s[e.pos].maxDegree,
           NEW u \in Nat \ {0},
           u = (IF e.remainCount > 0 THEN e.remainCount ELSE s[e.pos].count),
           rows >= u * m,
           NEW f \in Edge, f.remainRow = 0, f.curDegree = e.curDegree, f.remainCount = 0,
           f.pos = e.pos + 1
    PROVE  /\ rows - u * m \in Nat
           /\ EdgeSound(f, s, used, rows - u * m, degree, AddDegree(nd, m * degree, u), card)
<1>1. EdgeOK(e, s) /\ Collecting(nd) /\ PositiveCounts(nd) /\ e \in Edge
  BY DEF EdgeSound, EdgeOK
<1>2. PICK pos \in Nat, cur \in Nat, rc \in Nat :
          pos = e.pos /\ cur = e.curDegree /\ rc = e.remainCount
  BY <1>1, EdgeFields
<1>3. PICK k \in Nat \ {0}, U \in Nat, G \in Nat :
          /\ k = s[pos].count /\ m = s[pos].maxDegree /\ m \in Nat \ {0}
          /\ U = CardUpTo(s, pos) /\ G = GetCard(s)
          /\ ToCome(e, s) = G - U + InBucket(e, s[pos])
          /\ pos \in 1..Len(s) /\ pos \in 0..Len(s)
  BY <1>1, <1>2, BucketNow
<1>4. u \in Nat \ {0} /\ u = IF rc > 0 THEN rc ELSE k
  BY <1>2, <1>3
<1>5. PICK a \in Nat : a = u * m
  BY <1>3, <1>4, TimesNat
<1>6. ToCome(e, s) = G - U + a
  <2>1. InBucket(e, s[pos]) = a
    <3>1. CASE rc > 0
      <4>1. InBucket(e, s[pos]) = rc * m + 0
        BY ONLY <1>2, <1>3, <3>1, e.remainRow = 0, rc \in Nat DEF InBucket
      <4>2. rc * m = a
        BY <1>4, <1>5, <3>1
      <4> QED BY ONLY <4>1, <4>2, a \in Nat
    <3>2. CASE ~(rc > 0)
      <4>1. rc = 0
        BY ONLY <3>2, rc \in Nat
      <4>2. InBucket(e, s[pos]) = k * m
        BY ONLY <1>2, <1>3, <4>1, e.remainRow = 0 DEF InBucket
      <4>3. u = k
        BY ONLY <1>4, <3>2
      <4> QED BY ONLY <1>5, <4>2, <4>3
    <3> QED BY <3>1, <3>2
  <2> QED BY <1>3, <2>1
<1>7. EdgeOK(f, s) /\ ToCome(f, s) = G - U
  BY <1>2, <1>3, NextBucket
<1>8. PICK left \in Nat : left = rows - a /\ left = rows - u * m
  BY <1>5
<1>9. ToCome(f, s) = ToCome(e, s) - (rows - left)
  BY ONLY <1>6, <1>7, <1>8, G \in Nat, U \in Nat, a \in Nat, rows \in Nat
<1>10. PICK x \in Nat, b \in Nat, c \in Nat :
           x = m * degree /\ b = a * degree /\ c = left * degree
  BY <1>3, TimesNat
<1>11. PICK nf : nf = AddDegree(nd, x, u)
  OBVIOUS
<1>12. /\ Collecting(nf) /\ PositiveCounts(nf) /\ AddedUp(nd) \in Nat
       /\ AddedUp(nf) = AddedUp(nd) + x * u
  <2>1. u \in Nat /\ u > 0
    BY ONLY u \in Nat \ {0}
  <2> QED BY ONLY <1>1, <1>11, <2>1, x \in Nat, AddDegreeFacts
<1>13. x * u = b
  <2>1. (m * degree) * u = (u * m) * degree
    BY ONLY m \in Nat \ {0}, u \in Nat \ {0}, degree \in Nat
  <2> QED BY ONLY <1>5, <1>10, <2>1
<1>14. rows * degree = b + c
  <2>1. (a + left) * degree = a * degree + left * degree /\ rows = a + left
    BY <1>8
  <2> QED BY <1>10, <2>1
<1>15. AddedUp(nf) + f.curDegree + left * degree = AddedUp(nd) + e.curDegree + rows * degree
  <2>1. PICK A \in Nat : A = AddedUp(nd) /\ AddedUp(nf) = A + b
    BY <1>12, <1>13
  <2>2. (A + b) + cur + c = A + cur + (b + c)
    OBVIOUS
  <2> QED BY <1>2, <1>10, <1>14, <2>1, <2>2
<1>16. EdgeSound(f, s, used, left, degree, nf, card)
  BY <1>7, <1>9, <1>12, <1>15, SoundMove
<1> QED BY <1>3, <1>4, <1>8, <1>10, <1>11, <1>16

LEMMA SplitFacts ==
    ASSUME NEW u \in Nat, NEW m \in Nat \ {0}, NEW rows \in Nat, rows <= u * m,
           NEW q, q = rows \div m, NEW x, x = rows % m
    PROVE  /\ q \in Nat /\ x \in Nat /\ x < m /\ rows = q * m + x
           /\ x = 0 => q <= u
           /\ x > 0 => q + 1 <= u
<1>1. q \in Nat /\ x \in Nat /\ x < m /\ rows = m * q + x
  BY DivFacts
<1>2. m * q = q * m /\ q * m \in Nat /\ u * m = m * u /\ m * u \in Nat
  BY <1>1, TimesNat
<1>3. ~(q >= u + 1)
  <2> SUFFICES ASSUME q >= u + 1 PROVE FALSE
    OBVIOUS
  <2>1. m * (u + 1) <= m * q
    BY <1>1, TimesMonotone
  <2>2. m * (u + 1) = m * u + m
    OBVIOUS
  <2> QED BY <1>1, <1>2, <2>1, <2>2
<1>4. ~(q = u /\ x > 0)
  BY <1>1, <1>2
<1> QED BY <1>1, <1>2, <1>3, <1>4

\* Where a bucket of u rows of degree m is left, q of them complete and x
\* tuples of another one taken.
SplitsInto(e, rows, degree, nd, m, u, q, x, b, nf, fp, fc, fr, fn) ==
    /\ IF e.remainCount > 0 THEN rows <= u * m ELSE rows < u * m
    /\ x < m /\ rows = q * m + x
    /\ x = 0 => q <= u
    /\ x > 0 => q + 1 <= u
    /\ b = IF x > 0 THEN 1 ELSE 0
    /\ nf = IF q > 0 THEN AddDegree(nd, m * degree, q) ELSE nd
    /\ fn = u - q - b /\ fr = b * (m - x) /\ fc = e.curDegree + x * degree
    /\ fp = IF e.remainCount > 0 /\ fn = 0 /\ fr = 0 THEN e.pos + 1 ELSE e.pos

\* PartOfBucket: q rows are complete, and x tuples go to one that is begun.
LEMMA PartSound ==
    ASSUME NEW s \in Seq(FinishedBucket), NEW e, NEW used \in Nat, NEW rows \in Nat,
           NEW degree \in Nat, NEW nd, NEW card,
           EdgeSound(e, s, used, rows, degree, nd, card),
           e.pos <= Len(s), e.remainRow = 0, NEW m \in Nat \ {0}, m = s[e.pos].maxDegree,
           NEW u \in Nat \ {0},
           u = (IF e.remainCount > 0 THEN e.remainCount ELSE s[e.pos].count),
           NEW q \in Nat, NEW x \in Nat, NEW b, NEW nf,
           NEW f, NEW fp, NEW fc, NEW fr, NEW fn,
           f = [pos |-> fp, curDegree |-> fc, remainRow |-> fr, remainCount |-> fn],
           SplitsInto(e, rows, degree, nd, m, u, q, x, b, nf, fp, fc, fr, fn)
    PROVE  EdgeSound(f, s, used, 0, degree, nf, card)
<1> USE DEF SplitsInto
<1>1. EdgeOK(e, s) /\ Collecting(nd) /\ PositiveCounts(nd) /\ e \in Edge
  BY DEF EdgeSound, EdgeOK
<1>2. PICK pos \in Nat, cur \in Nat, rc \in Nat :
          pos = e.pos /\ cur = e.curDegree /\ rc = e.remainCount
  BY <1>1, EdgeFields
<1>3. PICK k \in Nat \ {0}, U \in Nat, G \in Nat :
          /\ k = s[pos].count /\ m = s[pos].maxDegree /\ m \in Nat \ {0}
          /\ U = CardUpTo(s, pos) /\ G = GetCard(s)
          /\ ToCome(e, s) = G - U + InBucket(e, s[pos])
          /\ rc + If(e.remainRow > 0) <= k
          /\ pos \in 1..Len(s) /\ pos \in 0..Len(s)
  BY <1>1, <1>2, BucketNow
<1>4. u \in Nat \ {0} /\ u = (IF rc > 0 THEN rc ELSE k) /\ u <= k
  <2>1. rc <= k
    BY ONLY <1>3, e.remainRow = 0, rc \in Nat DEF If
  <2>2. u = IF rc > 0 THEN rc ELSE k
    BY ONLY <1>2, <1>3, u = (IF e.remainCount > 0 THEN e.remainCount ELSE s[e.pos].count)
  <2> QED BY ONLY <2>1, <2>2, rc \in Nat, k \in Nat \ {0}
<1>5. PICK a \in Nat : a = u * m
  BY ONLY <1>3, <1>4, TimesNat
<1>6. ToCome(e, s) = G - U + a
  <2>1. InBucket(e, s[pos]) = a
    <3>1. CASE rc > 0
      <4>1. InBucket(e, s[pos]) = rc * m + 0
        BY ONLY <1>2, <1>3, <3>1, e.remainRow = 0, rc \in Nat DEF InBucket
      <4>2. rc * m = a
        BY ONLY <1>4, <1>5, <3>1
      <4> QED BY ONLY <4>1, <4>2, a \in Nat
    <3>2. CASE ~(rc > 0)
      <4>1. rc = 0
        BY ONLY <3>2, rc \in Nat
      <4>2. InBucket(e, s[pos]) = k * m
        BY ONLY <1>2, <1>3, <4>1, e.remainRow = 0 DEF InBucket
      <4>3. u = k
        BY ONLY <1>4, <3>2
      <4> QED BY ONLY <1>5, <4>2, <4>3
    <3> QED BY <3>1, <3>2
  <2> QED BY ONLY <1>3, <2>1
<1>7. rows <= a /\ (rc = 0 => rows < a)
  <2>1. IF rc > 0 THEN rows <= a ELSE rows < a
    BY ONLY <1>2, <1>5, IF e.remainCount > 0 THEN rows <= u * m ELSE rows < u * m
  <2> QED BY ONLY <2>1, rows \in Nat, a \in Nat, rc \in Nat
<1>8. x < m /\ (x = 0 => q <= u) /\ (x > 0 => q + 1 <= u)
  OBVIOUS
<1>9. PICK y \in Nat, z \in Nat : y = q * m /\ z = x * degree
  BY ONLY <1>3, <1>8, degree \in Nat, TimesNat
<1>10. rows = y + x /\ fc = cur + z /\ fc \in Nat
  <2>1. rows = y + x
    BY ONLY rows = q * m + x, <1>9
  <2>2. fc = cur + z
    BY ONLY <1>2, <1>9, fc = e.curDegree + x * degree
  <2> QED BY ONLY <2>1, <2>2, cur \in Nat, z \in Nat
<1>11. /\ f.pos = fp /\ f.curDegree = fc /\ f.remainRow = fr /\ f.remainCount = fn
       /\ fp = IF rc > 0 /\ fn = 0 /\ fr = 0 THEN pos + 1 ELSE pos
  BY ONLY <1>2,
          f = [pos |-> fp, curDegree |-> fc, remainRow |-> fr, remainCount |-> fn],
          fp = (IF e.remainCount > 0 /\ fn = 0 /\ fr = 0 THEN e.pos + 1 ELSE e.pos)
<1>12. ASSUME fn \in Nat, fr \in Nat PROVE f \in Edge
  <2>1. fp \in Nat \ {0}
    BY ONLY <1>3, <1>11, pos \in Nat
  <2> QED BY ONLY <1>10, <1>12, <2>1,
             f = [pos |-> fp, curDegree |-> fc, remainRow |-> fr, remainCount |-> fn] DEF Edge
<1>13. EdgeOK(f, s) /\ ToCome(f, s) = G - U + (a - rows)
  <2>1. CASE x > 0
    <3>1. b = 1
      BY <2>1
    <3>2. PICK n \in Nat, r \in Nat : n = u - q - 1 /\ r = m - x /\ r > 0 /\ r < m /\ n + 1 <= k
      <4>1. u - q - 1 \in Nat /\ m - x \in Nat /\ m - x > 0 /\ m - x < m /\ (u - q - 1) + 1 <= k
        BY ONLY <1>4, <1>8, <2>1, k \in Nat \ {0}
      <4> QED BY ONLY <4>1
    <3>3. fn = n /\ fr = r
      BY ONLY <3>1, <3>2, fn = u - q - b, fr = b * (m - x)
    <3>4. f \in Edge
      BY <1>12, <3>3
    <3>5. f.pos = pos
      BY ONLY <1>11, <3>2, <3>3
    <3>6. If(f.remainRow > 0) = 1
      BY ONLY <1>11, <3>2, <3>3 DEF If
    <3>7. f.remainCount + If(f.remainRow > 0) <= s[f.pos].count /\ f.remainRow < s[f.pos].maxDegree
      BY ONLY <1>3, <1>11, <3>2, <3>3, <3>5, <3>6
    <3>8. EdgeOK(f, s) /\ ToCome(f, s) = G - U + InBucket(f, s[pos])
      <4>1. f.pos \in 1..Len(s)
        BY ONLY <1>3, <3>5
      <4>2. /\ EdgeOK(f, s)
            /\ ToCome(f, s) = GetCard(s) - CardUpTo(s, f.pos) + InBucket(f, s[f.pos])
        BY ONLY <3>4, <3>7, <4>1, s \in Seq(FinishedBucket), SameBucket
      <4> QED BY ONLY <1>3, <3>5, <4>2
    <3>9. InBucket(f, s[pos]) = n * m + r
      <4>1. f.remainRow = r /\ f.remainCount = n /\ r # 0 /\ s[pos].maxDegree = m
        BY ONLY <1>3, <1>11, <3>2, <3>3
      <4> QED BY ONLY <4>1 DEF InBucket
    <3>10. n * m + r = a - rows
      <4>1. PICK w \in Nat, v \in Nat : w = n * m /\ v = m /\ v = r + x
        <5>1. n * m \in Nat
          BY ONLY n \in Nat, m \in Nat \ {0}, TimesNat
        <5>2. m = r + x
          BY ONLY <3>2, m \in Nat \ {0}, x \in Nat
        <5> QED BY ONLY <5>1, <5>2, m \in Nat \ {0}
      <4>2. u = n + q + 1
        BY ONLY <1>4, <1>8, <3>2
      <4>3. (n + q + 1) * m = n * m + q * m + m
        BY ONLY m \in Nat \ {0}, q \in Nat, n \in Nat
      <4>4. a = w + y + v
        BY ONLY <1>5, <1>9, <4>1, <4>2, <4>3
      <4>5. w + r = (w + y + v) - (y + x)
        BY ONLY <4>1, w \in Nat, y \in Nat, r \in Nat, x \in Nat
      <4> QED BY ONLY <1>10, <4>1, <4>4, <4>5
    <3> QED BY ONLY <3>8, <3>9, <3>10
  <2>2. CASE x = 0
    <3>1. b = 0
      BY ONLY <2>2, b = (IF x > 0 THEN 1 ELSE 0)
    <3>2. PICK n \in Nat : n = u - q /\ n <= k
      <4>1. u - q \in Nat /\ u - q <= k
        BY ONLY <1>4, <1>8, <2>2, k \in Nat \ {0}
      <4> QED BY ONLY <4>1
    <3>3. fn = n /\ fr = 0
      BY ONLY <1>3, <1>4, <1>8, <3>1, <3>2, fn = u - q - b, fr = b * (m - x)
    <3>4. f \in Edge
      BY ONLY <1>12, <3>3, n \in Nat, 0 \in Nat
    <3>5. n * m = a - rows
      <4>1. u = n + q
        BY ONLY <1>4, <1>8, <3>2
      <4>2. (n + q) * m = n * m + q * m
        BY ONLY <1>3, <1>8, n \in Nat
      <4>3. PICK w \in Nat : w = n * m
        BY ONLY <1>3, n \in Nat, TimesNat
      <4>4. a = w + y
        BY ONLY <1>5, <1>9, <4>1, <4>2, <4>3
      <4> QED BY ONLY <1>10, <2>2, <4>3, <4>4, y \in Nat
    <3>6. CASE n = 0
      <4>1. n * m = 0
        BY ONLY <1>3, <3>6
      <4>2. rows = a /\ rc > 0
        BY ONLY <1>7, <3>5, <4>1, rows \in Nat, a \in Nat, rc \in Nat
      <4>3. f.pos = pos + 1 /\ f.remainRow = 0 /\ f.remainCount = 0
        BY ONLY <1>11, <3>3, <3>6, <4>2
      <4>4. EdgeOK(f, s) /\ ToCome(f, s) = GetCard(s) - CardUpTo(s, pos)
        BY ONLY <1>3, <3>4, <4>3, s \in Seq(FinishedBucket), NextBucket
      <4> QED BY ONLY <1>3, <4>2, <4>4, a \in Nat
    <3>7. CASE n # 0
      <4>1. f.pos = pos /\ If(f.remainRow > 0) = 0
        BY ONLY <1>11, <3>3, <3>7 DEF If
      <4>2. f.remainCount + If(f.remainRow > 0) <= s[f.pos].count /\ f.remainRow < s[f.pos].maxDegree
        BY ONLY <1>3, <1>11, <3>2, <3>3, <4>1
      <4>3. f.pos \in 1..Len(s)
        BY ONLY <1>3, <4>1
      <4>4. /\ EdgeOK(f, s)
            /\ ToCome(f, s) = GetCard(s) - CardUpTo(s, f.pos) + InBucket(f, s[f.pos])
        BY ONLY <3>4, <4>2, <4>3, s \in Seq(FinishedBucket), SameBucket
      <4>5. InBucket(f, s[pos]) = n * m + 0
        BY ONLY <1>3, <1>11, <3>3, <3>7 DEF InBucket
      <4>6. InBucket(f, s[pos]) = a - rows
        BY ONLY <3>5, <4>5, rows \in Nat, a \in Nat
      <4> QED BY ONLY <1>3, <4>1, <4>4, <4>6
    <3> QED BY <3>6, <3>7
  <2> QED BY ONLY <1>8, <2>1, <2>2
<1>14. ToCome(f, s) = ToCome(e, s) - (rows - 0)
  BY ONLY <1>3, <1>6, <1>13, a \in Nat, rows \in Nat
<1>15. PICK v \in Nat, w \in Nat : v = m * degree /\ w = y * degree
  BY ONLY <1>3, y \in Nat, degree \in Nat, TimesNat
<1>16. /\ Collecting(nf) /\ PositiveCounts(nf) /\ AddedUp(nd) \in Nat
       /\ AddedUp(nf) = AddedUp(nd) + w
  <2>1. AddedUp(nd) \in Nat
    BY ONLY <1>1, AddedFacts DEF Collecting
  <2>2. CASE q > 0
    <3>1. PICK nx : nx = AddDegree(nd, v, q) /\ nx = nf
      BY ONLY <1>15, <2>2, nf = (IF q > 0 THEN AddDegree(nd, m * degree, q) ELSE nd)
    <3>2. Collecting(nx) /\ PositiveCounts(nx) /\ AddedUp(nx) = AddedUp(nd) + v * q
      <4>1. /\ Collecting(AddDegree(nd, v, q))
            /\ AddedUp(AddDegree(nd, v, q)) = AddedUp(nd) + v * q
            /\ PositiveCounts(nd) /\ q > 0 => PositiveCounts(AddDegree(nd, v, q))
        BY ONLY <1>1, v \in Nat, q \in Nat, AddDegreeFacts
      <4> QED BY ONLY <1>1, <2>2, <3>1, <4>1
    <3>3. v * q = w
      <4>1. (m * degree) * q = (q * m) * degree
        BY ONLY <1>3, <1>8, degree \in Nat
      <4> QED BY ONLY <1>9, <1>15, <4>1
    <3> QED BY ONLY <2>1, <3>1, <3>2, <3>3
  <2>3. CASE ~(q > 0)
    <3>1. q = 0
      BY ONLY <1>8, <2>3
    <3>2. y = 0 /\ w = 0
      <4>1. 0 * m = 0 /\ 0 * degree = 0
        BY ONLY m \in Nat \ {0}, degree \in Nat
      <4> QED BY ONLY <1>9, <1>15, <3>1, <4>1
    <3>3. nf = nd
      BY ONLY <2>3, nf = (IF q > 0 THEN AddDegree(nd, m * degree, q) ELSE nd)
    <3> QED BY ONLY <1>1, <2>1, <3>2, <3>3
  <2> QED BY <2>2, <2>3
<1>17. AddedUp(nf) + f.curDegree + 0 * degree = AddedUp(nd) + e.curDegree + rows * degree
  <2>1. PICK A \in Nat : A = AddedUp(nd) /\ AddedUp(nf) = A + w
    BY ONLY <1>16
  <2>2. (y + x) * degree = y * degree + x * degree
    BY ONLY <1>8, y \in Nat, degree \in Nat
  <2>3. rows * degree = w + z
    BY ONLY <1>9, <1>10, <1>15, <2>2
  <2>4. 0 * degree = 0 /\ (A + w) + (cur + z) + 0 = A + cur + (w + z)
    BY ONLY A \in Nat, w \in Nat, cur \in Nat, z \in Nat, degree \in Nat
  <2> QED BY ONLY <1>2, <1>10, <1>11, <2>1, <2>3, <2>4
<1>18. 0 \in Nat
  OBVIOUS
<1> QED BY ONLY <1>13, <1>14, <1>16, <1>17, <1>18, SoundMove, s \in Seq(FinishedBucket),
           used \in Nat, rows \in Nat, degree \in Nat,
           EdgeSound(e, s, used, rows, degree, nd, card)

-----------------------------------------------------------------------------
(***************************************************************************)
(* The invariant within Merge.                                             *)
(***************************************************************************)
LEMMA EdgeInvIs ==
    ASSUME NEW t
    PROVE  EdgeInv(t) <=> EdgeSound(edge[t], OldOf(t), UsedFor(t), Pending(t), DegreeFor(t),
                                    new.ds[t], new.card)
BY DEF EdgeInv, EdgeSound

LEMMA MergeFacts ==
    ASSUME MergeInv, InMerge
    PROVE  /\ MergeTable \in Tables(stat) /\ MergeTable \in Tables(other)
           /\ stat.ds[MergeTable] \in Seq(RowBucket) /\ other.ds[MergeTable] \in Seq(RowBucket)
           /\ LoopOK(loop.c1, loop.p1, loop.d1, stat.ds[MergeTable])
           /\ LoopOK(loop.c2, loop.p2, loop.d2, other.ds[MergeTable])
           /\ loop.d1 \in Nat /\ loop.d2 \in Nat
           /\ DOMAIN edge = Tables(new) \ {MergeTable} /\ MergeTable \in Tables(new)
           /\ DOMAIN edge = EdgeTables(stat) \cup EdgeTables(other)
           /\ EdgeTables(stat) \cap EdgeTables(other) = {}
           /\ IsStat(new) /\ new.card \in Nat
           /\ Collecting(new.ds[MergeTable]) /\ AddedUp(new.ds[MergeTable]) = new.card
           /\ \A t \in DOMAIN edge : EdgeInv(t)
<1>1. OperandOK(stat) /\ OperandOK(other)
  BY DEF MergeInv
<1>2. /\ MergeTable \in Tables(stat) /\ MergeTable \in Tables(other)
      /\ stat.ds[MergeTable] \in Seq(RowBucket) /\ other.ds[MergeTable] \in Seq(RowBucket)
  BY <1>1 DEF OperandOK
<1>3. /\ LoopOK(loop.c1, loop.p1, loop.d1, stat.ds[MergeTable])
      /\ LoopOK(loop.c2, loop.p2, loop.d2, other.ds[MergeTable])
  BY DEF MergeInv
<1>4. loop.d1 \in Nat /\ loop.d2 \in Nat
  BY <1>3 DEF LoopOK
<1>5. /\ DOMAIN edge = Tables(new) \ {MergeTable} /\ IsStat(new) /\ new.card \in Nat
      /\ Tables(new) = Tables(stat) \cup Tables(other)
      /\ Tables(stat) \cap Tables(other) = {MergeTable}
      /\ Collecting(new.ds[MergeTable]) /\ AddedUp(new.ds[MergeTable]) = new.card
      /\ \A t \in DOMAIN edge : EdgeInv(t)
  BY DEF MergeInv
<1>6. /\ DOMAIN edge = EdgeTables(stat) \cup EdgeTables(other)
      /\ EdgeTables(stat) \cap EdgeTables(other) = {} /\ MergeTable \in Tables(new)
  BY <1>2, <1>5 DEF EdgeTables
<1> QED BY <1>2, <1>3, <1>4, <1>5, <1>6

\* An edge table of Merge.
LEMMA EdgeFacts ==
    ASSUME MergeInv, InMerge, NEW t \in DOMAIN edge
    PROVE  /\ OldOf(t) \in Seq(FinishedBucket)
           /\ UsedFor(t) \in Nat /\ UsedFor(t) <= GetCard(OldOf(t)) /\ DegreeFor(t) \in Nat
           /\ EdgeSound(edge[t], OldOf(t), UsedFor(t), Pending(t), DegreeFor(t),
                        new.ds[t], new.card)
<1>1. /\ stat.ds[MergeTable] \in Seq(RowBucket) /\ other.ds[MergeTable] \in Seq(RowBucket)
      /\ LoopOK(loop.c1, loop.p1, loop.d1, stat.ds[MergeTable])
      /\ LoopOK(loop.c2, loop.p2, loop.d2, other.ds[MergeTable])
      /\ loop.d1 \in Nat /\ loop.d2 \in Nat
      /\ DOMAIN edge = EdgeTables(stat) \cup EdgeTables(other) /\ EdgeInv(t)
  BY MergeFacts
<1>2. OperandOK(stat) /\ OperandOK(other)
  BY DEF MergeInv
<1>3. CASE t \in Tables(stat)
  <2>1. t \in EdgeTables(stat)
    BY <1>1, <1>3 DEF EdgeTables
  <2>2. /\ Finished(stat.ds[t], stat.card) /\ GetCard(stat.ds[MergeTable]) <= stat.card
        /\ stat.card \in Nat
    BY <1>2, <2>1 DEF OperandOK
  <2>3. PICK w \in Nat, g \in Nat : /\ w = Used(loop.c1, loop.p1, loop.d1, stat.ds[MergeTable])
                                    /\ g = GetCard(stat.ds[MergeTable]) /\ w <= g
    BY <1>1, LoopBounds
  <2>4. w <= stat.card
    BY <2>2, <2>3
  <2>5. OldOf(t) = stat.ds[t] /\ UsedFor(t) = w /\ DegreeFor(t) = loop.d2
    BY <1>3, <2>3 DEF OldOf, UsedFor, DegreeFor
  <2>6. stat.ds[t] \in Seq(FinishedBucket) /\ GetCard(stat.ds[t]) = stat.card
    BY <2>2 DEF Finished
  <2> QED BY <1>1, <2>4, <2>5, <2>6, EdgeInvIs
<1>4. CASE t \notin Tables(stat)
  <2>1. t \in EdgeTables(other)
    BY <1>1, <1>4 DEF EdgeTables
  <2>2. /\ Finished(other.ds[t], other.card) /\ GetCard(other.ds[MergeTable]) <= other.card
        /\ other.card \in Nat
    BY <1>2, <2>1 DEF OperandOK
  <2>3. PICK w \in Nat, g \in Nat : /\ w = Used(loop.c2, loop.p2, loop.d2, other.ds[MergeTable])
                                    /\ g = GetCard(other.ds[MergeTable]) /\ w <= g
    BY <1>1, LoopBounds
  <2>4. w <= other.card
    BY <2>2, <2>3
  <2>5. OldOf(t) = other.ds[t] /\ UsedFor(t) = w /\ DegreeFor(t) = loop.d1
    BY <1>4, <2>3 DEF OldOf, UsedFor, DegreeFor
  <2>6. other.ds[t] \in Seq(FinishedBucket) /\ GetCard(other.ds[t]) = other.card
    BY <2>2 DEF Finished
  <2> QED BY <1>1, <2>4, <2>5, <2>6, EdgeInvIs
<1> QED BY <1>3, <1>4

NewSound == /\ DOMAIN edge = Tables(new) \ {MergeTable} /\ Collecting(new.ds[MergeTable])
            /\ \A t \in DOMAIN edge : EdgeInv(t)

LEMMA NewIsSound == MergeInv /\ InMerge => NewSound
BY MergeFacts DEF NewSound

\* A step of Merge that leaves the summaries alone.
LEMMA KeptByMerge ==
    ASSUME DSInv, pc # "collect", UNCHANGED <<input, stats, next>>, InMerge', MergeInv',
           \A t \in DOMAIN rownum' : rownum'[t] \in Nat
    PROVE  DSInv'
<1>1. TypeOK /\ StatsInv /\ plan' = plan /\ db' = db /\ passing' = passing
      /\ stats' = stats /\ next' = next
  BY DEF DSInv, input
<1>2. pc' \in {"collect", "ready", "loop", "edges"} /\ pc' \notin {"collect", "ready"}
  BY DEF InMerge
<1>3. StatsInv'
  BY <1>1, <1>2 DEF StatsInv, StatOK, IsStat, Tables, Finished
<1>4. \A i : Covered(i)' = Covered(i)
  BY <1>1 DEF Covered
<1>5. /\ DOMAIN edge' = Tables(new)' \ {MergeTable'} /\ Collecting(new'.ds[MergeTable'])
      /\ \A t \in DOMAIN edge' : EdgeInv(t)'
  <2>1. (MergeInv /\ InMerge => NewSound)'
    BY NewIsSound, PTL
  <2> QED BY <2>1 DEF NewSound
<1>6. \A t \in DOMAIN edge' : edge'[t] \in Edge /\ Collecting(new'.ds[t])
  BY <1>5 DEF EdgeInv, EdgeOK
<1>7. \A t \in Tables(new)' : new'.ds[t] \in Seq(Bucket)
  BY <1>5, <1>6 DEF Collecting
<1>8. TypeOK'
  BY <1>1, <1>2, <1>4, <1>6, <1>7 DEF TypeOK, Tables
<1> QED BY <1>3, <1>8 DEF DSInv

-----------------------------------------------------------------------------
(***************************************************************************)
(* Steps for one edge table.                                               *)
(***************************************************************************)
LEMMA TailOfInjective ==
    ASSUME NEW S, NEW q \in Seq(S), q # <<>>, IsInjective(q)
    PROVE  /\ Head(q) \in S /\ Head(q) \in Range(q)
           /\ Tail(q) \in Seq(S) /\ IsInjective(Tail(q))
           /\ \A t : t \in Range(Tail(q)) <=> (t \in Range(q) /\ t # Head(q))
           /\ Len(q) \in Nat /\ Len(q) > 0 /\ Len(Tail(q)) = Len(q) - 1
<1>1. Len(q) \in Nat /\ Len(q) > 0 /\ DOMAIN q = 1..Len(q) /\ Head(q) = q[1] /\ Head(q) \in S
  OBVIOUS
<1>2. PICK n \in Nat : Len(q) = n + 1 /\ n = Len(q) - 1
  <2>1. Len(q) - 1 \in Nat /\ Len(q) = (Len(q) - 1) + 1
    BY <1>1
  <2> QED BY <2>1
<1>3. PICK r : r = Tail(q)
  OBVIOUS
<1>4. r \in Seq(S) /\ Len(r) = n /\ DOMAIN r = 1..n /\ \A i \in 1..n : r[i] = q[i + 1]
  BY <1>1, <1>2, <1>3
<1>5. \A i \in 1..n : i + 1 \in DOMAIN q /\ i + 1 # 1
  BY <1>1, <1>2
<1>6. \A a \in DOMAIN q, b \in DOMAIN q : q[a] = q[b] => a = b
  BY DEF IsInjective
<1>7. ASSUME NEW i \in 1..n, NEW j \in 1..n, r[i] = r[j] PROVE i = j
  <2>1. i + 1 = j + 1
    BY <1>4, <1>5, <1>6, <1>7
  <2> QED BY <2>1
<1>8. IsInjective(r)
  BY <1>4, <1>7 DEF IsInjective
<1>9. 1 \in DOMAIN q
  BY <1>1
<1>10. Head(q) \in Range(q)
  BY <1>1, <1>9 DEF Range
<1>11. ASSUME NEW t \in Range(r) PROVE t \in Range(q) /\ t # Head(q)
  <2>1. PICK i \in 1..n : t = r[i]
    BY <1>4, <1>11 DEF Range
  <2>2. t = q[i + 1] /\ i + 1 \in DOMAIN q /\ i + 1 # 1
    BY <1>4, <1>5, <2>1
  <2> QED BY <1>1, <1>6, <1>9, <2>2 DEF Range
<1>12. ASSUME NEW t \in Range(q), t # Head(q) PROVE t \in Range(r)
  <2>1. PICK i \in DOMAIN q : t = q[i]
    BY DEF Range
  <2>2. i # 1
    BY <1>1, <1>12, <2>1
  <2>3. i - 1 \in 1..n /\ (i - 1) + 1 = i
    BY <1>1, <1>2, <2>1, <2>2
  <2>4. r[i - 1] = t
    BY <1>4, <2>1, <2>3
  <2> QED BY <1>4, <2>3, <2>4 DEF Range
<1> QED BY <1>1, <1>2, <1>3, <1>4, <1>8, <1>10, <1>11, <1>12

LEMMA CurrentFacts ==
    ASSUME MergeInv, Visiting
    PROVE  /\ InMerge /\ Current \in DOMAIN edge /\ Current # MergeTable
           /\ OldDs = OldOf(Current) /\ OldDs \in Seq(FinishedBucket)
           /\ Degree = DegreeFor(Current) /\ Degree \in Nat
           /\ UsedFor(Current) \in Nat /\ UsedFor(Current) <= GetCard(OldDs)
           /\ rownum \in [DOMAIN edge -> Nat] /\ rownum[Current] \in Nat
           /\ EdgeSound(edge[Current], OldDs, UsedFor(Current), rownum[Current], Degree,
                        new.ds[Current], new.card)
           /\ queue \in Seq(DOMAIN edge) /\ IsInjective(queue) /\ queue # <<>>
<1>1. pc = "edges" /\ queue # <<>> /\ InMerge
  BY DEF Visiting, InMerge
<1>2. /\ queue \in Seq(DOMAIN edge) /\ IsInjective(queue) /\ rownum \in [DOMAIN edge -> Nat]
  BY <1>1 DEF MergeInv
<1>3. Current \in DOMAIN edge /\ Current \in Range(queue)
  BY <1>1, <1>2, TailOfInjective DEF Current
<1>4. OldDs = OldOf(Current) /\ Degree = DegreeFor(Current)
  BY DEF OldDs, OldOf, Degree, DegreeFor
<1>5. Pending(Current) = rownum[Current] /\ rownum[Current] \in Nat
  BY <1>1, <1>2, <1>3 DEF Pending
<1>6. Current # MergeTable
  BY <1>1, <1>3, MergeFacts
<1>7. /\ OldOf(Current) \in Seq(FinishedBucket)
      /\ UsedFor(Current) \in Nat /\ UsedFor(Current) <= GetCard(OldOf(Current))
      /\ DegreeFor(Current) \in Nat
      /\ EdgeSound(edge[Current], OldOf(Current), UsedFor(Current), Pending(Current),
                   DegreeFor(Current), new.ds[Current], new.card)
  BY <1>1, <1>3, EdgeFacts
<1> QED BY <1>1, <1>2, <1>3, <1>4, <1>5, <1>6, <1>7

(***************************************************************************)
(* What a step changes: the place e of the current table, the tuples rows  *)
(* it is still to be given, and its new degrees nd.                        *)
(***************************************************************************)
NewBecomes(nd) ==
    /\ IsStat(new)' /\ new'.card = new.card /\ new'.centralDs = new.centralDs
    /\ Tables(new)' = Tables(new) /\ new'.ds[Current] = nd
    /\ \A t \in Tables(new) \ {Current} : new'.ds[t] = new.ds[t]

EdgeBecomes(e) ==
    /\ DOMAIN edge' = DOMAIN edge /\ edge'[Current] = e
    /\ \A t \in DOMAIN edge \ {Current} : edge'[t] = edge[t]

RowsBecome(rows) ==
    /\ rownum' \in [DOMAIN edge -> Nat] /\ rownum'[Current] = rows
    /\ \A t \in DOMAIN edge \ {Current} : rownum'[t] = rownum[t]

LEMMA EdgeStep ==
    ASSUME DSInv, Visiting, Frame, NEW e, NEW rows \in Nat, NEW nd,
           NewBecomes(nd), EdgeBecomes(e), RowsBecome(rows),
           queue' = queue \/ (queue' = Tail(queue) /\ rows = 0),
           EdgeSound(e, OldDs, UsedFor(Current), rows, Degree, nd, new.card)
    PROVE  DSInv'
<1>1. MergeInv /\ pc = "edges" /\ InMerge
  BY DEF DSInv, Visiting, InMerge
<1>2. /\ plan' = plan /\ next' = next /\ pc' = pc /\ stat' = stat /\ other' = other
      /\ loop' = loop /\ UNCHANGED <<input, stats, next>>
  BY DEF Frame, input
<1>3. PICK c : c = Current
  OBVIOUS
<1>4. /\ c \in DOMAIN edge /\ c # MergeTable /\ queue \in Seq(DOMAIN edge)
      /\ IsInjective(queue) /\ queue # <<>>
  BY <1>1, <1>3, CurrentFacts
<1>5. /\ queue' \in Seq(DOMAIN edge) /\ IsInjective(queue')
      /\ \A t : t # c => (t \in Range(queue') <=> t \in Range(queue))
      /\ c \in Range(queue') \/ rows = 0
  <2>1. CASE queue' = queue
    BY <1>3, <1>4, <2>1, TailOfInjective DEF Current
  <2>2. CASE queue' = Tail(queue) /\ rows = 0
    BY <1>3, <1>4, <2>2, TailOfInjective DEF Current
  <2> QED BY <2>1, <2>2
<1>6. Step' = Step /\ MergeTable' = MergeTable /\ InMerge'
  BY <1>1, <1>2 DEF Step, MergeTable, InMerge
<1>7. /\ \A t : OldOf(t)' = OldOf(t) /\ UsedFor(t)' = UsedFor(t)
      /\ \A t : DegreeFor(t)' = DegreeFor(t)
  BY <1>2, <1>6 DEF OldOf, UsedFor, DegreeFor, Used, Tables
<1>8. /\ DOMAIN edge' = DOMAIN edge /\ edge'[c] = e
      /\ \A t \in DOMAIN edge \ {c} : edge'[t] = edge[t] /\ rownum'[t] = rownum[t]
      /\ rownum' \in [DOMAIN edge -> Nat] /\ rownum'[c] = rows
      /\ Tables(new)' = Tables(new) /\ new'.ds[c] = nd /\ new'.card = new.card
      /\ \A t \in Tables(new) \ {c} : new'.ds[t] = new.ds[t]
  BY <1>3 DEF EdgeBecomes, RowsBecome, NewBecomes
<1>9. DOMAIN edge = Tables(new) \ {MergeTable} /\ MergeTable \in Tables(new)
  BY <1>1, MergeFacts
<1>10. ASSUME NEW t \in DOMAIN edge PROVE EdgeInv(t)'
  <2>1. EdgeSound(edge[t], OldOf(t), UsedFor(t), Pending(t), DegreeFor(t), new.ds[t], new.card)'
        => EdgeInv(t)'
    BY EdgeInvIs, PTL
  <2>2. CASE t = c
    <3>1. Pending(t)' = rows
      BY <1>1, <1>2, <1>5, <1>8, <2>2 DEF Pending
    <3>2. OldOf(t) = OldDs /\ DegreeFor(t) = Degree
      BY <1>1, <1>3, <2>2, CurrentFacts
    <3>3. EdgeSound(edge'[t], OldOf(t)', UsedFor(t)', Pending(t)', DegreeFor(t)',
                    new'.ds[t], new'.card)
      BY <1>3, <1>7, <1>8, <2>2, <3>1, <3>2
    <3> QED BY <2>1, <3>3
  <2>3. CASE t # c
    <3>1. Pending(t)' = Pending(t)
      BY <1>1, <1>2, <1>5, <1>8, <2>3 DEF Pending
    <3>2. new'.ds[t] = new.ds[t] /\ edge'[t] = edge[t]
      BY <1>8, <1>9, <2>3
    <3>3. EdgeSound(edge[t], OldOf(t), UsedFor(t), Pending(t), DegreeFor(t), new.ds[t], new.card)
      BY <1>1, EdgeFacts
    <3>4. EdgeSound(edge'[t], OldOf(t)', UsedFor(t)', Pending(t)', DegreeFor(t)',
                    new'.ds[t], new'.card)
      BY <1>7, <1>8, <3>1, <3>2, <3>3
    <3> QED BY <2>1, <3>4
  <2> QED BY <2>2, <2>3
<1>11. /\ new'.ds[MergeTable'] = new.ds[MergeTable] /\ IsStat(new)'
       /\ new'.centralDs = new.centralDs
  BY <1>4, <1>6, <1>8, <1>9 DEF NewBecomes
<1>12. MergeInv'
  <2>1. /\ next \in DOMAIN plan.steps
        /\ OperandOK(stat) /\ OperandOK(other)
        /\ Tables(stat) \cap Tables(other) = {MergeTable}
        /\ Covered(Step.to) \cup (IF Step.from = Filter THEN {} ELSE Covered(Step.from))
              = (Tables(stat) \cup Tables(other)) \ {Center}
        /\ LoopOK(loop.c1, loop.p1, loop.d1, stat.ds[MergeTable])
        /\ LoopOK(loop.c2, loop.p2, loop.d2, other.ds[MergeTable])
        /\ new.card \in Nat /\ Tables(new) = Tables(stat) \cup Tables(other)
        /\ new.centralDs = NoDegrees
        /\ Collecting(new.ds[MergeTable]) /\ PositiveDegrees(new.ds[MergeTable])
        /\ AddedUp(new.ds[MergeTable]) = new.card
        /\ loop.p1 > 0 /\ loop.p2 > 0
    BY <1>1 DEF MergeInv
  <2>2. Tables(stat)' = Tables(stat) /\ Tables(other)' = Tables(other)
    BY <1>2 DEF Tables
  <2>3. OperandOK(stat)' /\ OperandOK(other)'
    BY <1>2, <1>6, <2>1, <2>2 DEF OperandOK, EdgeTables, Finished
  <2>4. \A i : Covered(i)' = Covered(i)
    BY <1>2 DEF Covered
  <2>5. /\ LoopOK(loop.c1, loop.p1, loop.d1, stat.ds[MergeTable])'
        /\ LoopOK(loop.c2, loop.p2, loop.d2, other.ds[MergeTable])'
    BY <1>2, <1>6, <2>1 DEF LoopOK
  <2>6. /\ Collecting(new'.ds[MergeTable']) /\ PositiveDegrees(new'.ds[MergeTable'])
        /\ AddedUp(new'.ds[MergeTable']) = new'.card
    BY <1>8, <1>11, <2>1
  <2>7. pc' = "edges"
    BY <1>1, <1>2
  <2> QED BY <1>2, <1>5, <1>6, <1>8, <1>9, <1>10, <1>11, <2>1, <2>2, <2>3, <2>4, <2>5, <2>6, <2>7
          DEF MergeInv
<1>13. \A t \in DOMAIN rownum' : rownum'[t] \in Nat
  BY <1>8
<1> QED BY <1>1, <1>2, <1>6, <1>12, <1>13, KeptByMerge

LEMMA EmitFacts ==
    ASSUME MergeInv, Visiting, NEW degree, NEW count, Emit(degree, count)
    PROVE  NewBecomes(AddDegree(new.ds[Current], degree, count))
<1>1. PICK c, n, nd : c = Current /\ n = new /\ nd = AddDegree(n.ds[c], degree, count)
  OBVIOUS
<1>2. IsStat(new) /\ c \in DOMAIN n.ds
  BY <1>1, CurrentFacts, MergeFacts DEF Tables
<1>3. new' = [n EXCEPT !.ds[c] = nd]
  BY <1>1 DEF Emit
<1>4. PICK d : d = [n.ds EXCEPT ![c] = nd]
  OBVIOUS
<1>5. n = [card |-> n.card, centralDs |-> n.centralDs, ds |-> n.ds]
  BY <1>1, <1>2 DEF IsStat
<1>6. new' = [card |-> n.card, centralDs |-> n.centralDs, ds |-> d]
  BY <1>3, <1>4, <1>5
<1>7. DOMAIN d = DOMAIN n.ds /\ d[c] = nd /\ \A t \in DOMAIN n.ds \ {c} : d[t] = n.ds[t]
  BY <1>2, <1>4
<1>8. new'.card = n.card /\ new'.centralDs = n.centralDs /\ new'.ds = d
  BY <1>6
<1>9. IsStat(new)'
  BY <1>6, <1>8 DEF IsStat
<1>10. Tables(new)' = DOMAIN d /\ Tables(new) = DOMAIN n.ds
  BY <1>1, <1>8 DEF Tables
<1> QED BY <1>1, <1>7, <1>8, <1>9, <1>10 DEF NewBecomes

LEMMA KeepsNew ==
    ASSUME MergeInv, Visiting, UNCHANGED new
    PROVE  NewBecomes(new.ds[Current])
<1>1. IsStat(new)
  BY CurrentFacts, MergeFacts
<1> QED BY <1>1 DEF NewBecomes, IsStat, Tables

LEMMA PlaceFacts ==
    ASSUME MergeInv, Visiting, NEW e, NEW rows \in Nat,
           edge' = [edge EXCEPT ![Current] = e], rownum' = [rownum EXCEPT ![Current] = rows]
    PROVE  EdgeBecomes(e) /\ RowsBecome(rows)
<1>1. PICK c : c = Current
  OBVIOUS
<1>2. c \in DOMAIN edge /\ rownum \in [DOMAIN edge -> Nat]
  BY <1>1, CurrentFacts
<1>3. DOMAIN edge' = DOMAIN edge /\ edge'[c] = e /\ \A t \in DOMAIN edge \ {c} : edge'[t] = edge[t]
  BY <1>1, <1>2
<1>4. /\ rownum' \in [DOMAIN edge -> Nat] /\ rownum'[c] = rows
      /\ \A t \in DOMAIN edge \ {c} : rownum'[t] = rownum[t]
  BY <1>1, <1>2
<1> QED BY <1>1, <1>3, <1>4 DEF EdgeBecomes, RowsBecome

\* The place of the current table.
LEMMA PlaceNow ==
    ASSUME MergeInv, Visiting
    PROVE  EdgeOK(edge[Current], OldDs) /\ edge[Current] \in Edge
BY CurrentFacts DEF EdgeSound, EdgeOK

LEMMA CompleteRowKeeps ==
    ASSUME DSInv, CompleteRow
    PROVE  /\ DSInv' /\ queue' = queue /\ edge'[Current].remainRow = 0
           /\ edge'[Current].pos \in {edge[Current].pos, edge[Current].pos + 1}
<1>1. MergeInv /\ Visiting /\ Frame
  BY DEF DSInv, CompleteRow, AtBucket
<1>2. PICK e, s, rows, degree, used, nd :
          /\ e = edge[Current] /\ s = OldDs /\ rows = rownum[Current] /\ degree = Degree
          /\ used = UsedFor(Current) /\ nd = new.ds[Current]
  OBVIOUS
<1>3. /\ s \in Seq(FinishedBucket) /\ degree \in Nat /\ used \in Nat /\ rows \in Nat
      /\ EdgeSound(e, s, used, rows, degree, nd, new.card) /\ e \in Edge
  BY <1>1, <1>2, CurrentFacts, PlaceNow
<1>4. PICK f : f = [e EXCEPT !.remainRow = 0, !.curDegree = 0,
                             !.pos = IF e.remainCount = 0 THEN @ + 1 ELSE @]
  OBVIOUS
<1>5. /\ e.pos <= Len(s) /\ e.remainRow > 0 /\ rows > e.remainRow
      /\ Emit(e.curDegree + e.remainRow * degree, 1)
      /\ StayWith(f, rows - e.remainRow)
  BY <1>2, <1>4 DEF CompleteRow, AtBucket
<1>6. /\ f \in Edge /\ f.remainRow = 0 /\ f.curDegree = 0 /\ f.remainCount = e.remainCount
      /\ f.pos = IF e.remainCount = 0 THEN e.pos + 1 ELSE e.pos
  <2>1. PICK p \in Nat \ {0} : p = IF e.remainCount = 0 THEN e.pos + 1 ELSE e.pos
    BY ONLY <1>3, EdgeFields
  <2>2. f = [pos |-> p, curDegree |-> 0, remainRow |-> 0, remainCount |-> e.remainCount]
    <3>1. PICK p0, c0, r0, n0 :
              e = [pos |-> p0, curDegree |-> c0, remainRow |-> r0, remainCount |-> n0]
      BY ONLY <1>3, EdgeParts
    <3> QED BY ONLY <1>4, <2>1, <3>1
  <2> QED BY ONLY <1>3, <2>1, <2>2, EdgeFields DEF Edge
<1>7. /\ rows - e.remainRow \in Nat
      /\ EdgeSound(f, s, used, rows - e.remainRow, degree,
                   AddDegree(nd, e.curDegree + e.remainRow * degree, 1), new.card)
      /\ (f.pos = e.pos \/ f.pos = e.pos + 1)
  BY ONLY <1>3, <1>5, <1>6, CompleteSound
<1>8. PICK left \in Nat : left = rows - e.remainRow
  BY ONLY <1>7
<1>9. PICK nf : nf = AddDegree(nd, e.curDegree + e.remainRow * degree, 1)
  OBVIOUS
<1>10. NewBecomes(nf)
  BY <1>1, <1>2, <1>5, <1>9, EmitFacts
<1>11. EdgeBecomes(f) /\ RowsBecome(left) /\ queue' = queue
  BY <1>1, <1>5, <1>8, PlaceFacts DEF StayWith
<1>12. DSInv'
  <2>1. EdgeSound(f, OldDs, UsedFor(Current), left, Degree, nf, new.card)
    BY <1>2, <1>7, <1>8, <1>9
  <2> QED BY <1>1, <1>10, <1>11, <2>1, EdgeStep
<1> QED BY <1>2, <1>6, <1>7, <1>11, <1>12 DEF EdgeBecomes

LEMMA ExtendRowKeeps ==
    ASSUME DSInv, ExtendRow
    PROVE  DSInv' /\ queue' = Tail(queue)
<1>1. MergeInv /\ Visiting /\ Frame
  BY DEF DSInv, ExtendRow, AtBucket
<1>2. PICK e, s, rows, degree, used, nd :
          /\ e = edge[Current] /\ s = OldDs /\ rows = rownum[Current] /\ degree = Degree
          /\ used = UsedFor(Current) /\ nd = new.ds[Current]
  OBVIOUS
<1>3. /\ s \in Seq(FinishedBucket) /\ degree \in Nat /\ used \in Nat /\ rows \in Nat
      /\ EdgeSound(e, s, used, rows, degree, nd, new.card) /\ e \in Edge
  BY <1>1, <1>2, CurrentFacts, PlaceNow
<1>4. PICK row, d : row = e.remainRow - rows /\ d = e.curDegree + rows * degree
  OBVIOUS
<1>5. PICK f : f = [e EXCEPT !.remainRow = row, !.curDegree = IF row = 0 THEN 0 ELSE d,
                             !.pos = IF row = 0 /\ e.remainCount = 0 THEN @ + 1 ELSE @]
  OBVIOUS
<1>6. /\ e.pos <= Len(s) /\ e.remainRow > 0 /\ rows <= e.remainRow
      /\ IF row = 0 THEN Emit(d, 1) ELSE UNCHANGED new
      /\ LeaveWith(f)
  BY <1>2, <1>4, <1>5 DEF ExtendRow, AtBucket
<1>7. row \in Nat /\ d \in Nat
  <2>1. e.remainRow \in Nat /\ e.curDegree \in Nat /\ rows * degree \in Nat
    BY ONLY <1>3, EdgeFields, TimesNat
  <2>2. row \in Nat
    BY ONLY <1>3, <1>4, <1>6, <2>1
  <2>3. PICK x \in Nat : x = rows * degree
    BY ONLY <2>1
  <2>4. d = e.curDegree + x
    BY ONLY <1>4, <2>3
  <2> QED BY ONLY <2>1, <2>2, <2>4, x \in Nat
<1>8. /\ f \in Edge /\ f.remainRow = row /\ f.curDegree = (IF row = 0 THEN 0 ELSE d)
      /\ f.remainCount = e.remainCount
      /\ f.pos = IF row = 0 /\ e.remainCount = 0 THEN e.pos + 1 ELSE e.pos
  <2>1. PICK p \in Nat \ {0} : p = IF row = 0 /\ e.remainCount = 0 THEN e.pos + 1 ELSE e.pos
    BY ONLY <1>3, EdgeFields
  <2>2. PICK c \in Nat : c = IF row = 0 THEN 0 ELSE d
    BY ONLY <1>7
  <2>3. f = [pos |-> p, curDegree |-> c, remainRow |-> row, remainCount |-> e.remainCount]
    <3>1. PICK p0, c0, r0, n0 :
              e = [pos |-> p0, curDegree |-> c0, remainRow |-> r0, remainCount |-> n0]
      BY ONLY <1>3, EdgeParts
    <3> QED BY ONLY <1>5, <2>1, <2>2, <3>1
  <2> QED BY ONLY <1>3, <1>7, <2>1, <2>2, <2>3, EdgeFields DEF Edge
<1>9. PICK nf : nf = IF row = 0 THEN AddDegree(nd, d, 1) ELSE nd
  OBVIOUS
<1>10. EdgeSound(f, s, used, 0, degree, nf, new.card)
  BY ONLY <1>3, <1>4, <1>6, <1>8, <1>9, ExtendSound
<1>11. NewBecomes(nf)
  <2>1. CASE row = 0
    BY <1>1, <1>2, <1>6, <1>9, <2>1, EmitFacts
  <2>2. CASE row # 0
    BY <1>1, <1>2, <1>6, <1>9, <2>2, KeepsNew
  <2> QED BY <2>1, <2>2
<1>12. EdgeBecomes(f) /\ RowsBecome(0) /\ queue' = Tail(queue)
  BY <1>1, <1>6, PlaceFacts DEF LeaveWith
<1>13. EdgeSound(f, OldDs, UsedFor(Current), 0, Degree, nf, new.card)
  BY <1>2, <1>10
<1> QED BY <1>1, <1>11, <1>12, <1>13, EdgeStep

LEMMA TakeBucketKeeps ==
    ASSUME DSInv, TakeBucket
    PROVE  /\ DSInv' /\ queue' = queue /\ edge[Current].remainRow = 0
           /\ edge'[Current].remainRow = 0 /\ edge'[Current].pos = edge[Current].pos + 1
<1>1. MergeInv /\ Visiting /\ Frame
  BY DEF DSInv, TakeBucket, AtBucket
<1>2. PICK e, s, rows, degree, used, nd, m, u :
          /\ e = edge[Current] /\ s = OldDs /\ rows = rownum[Current] /\ degree = Degree
          /\ used = UsedFor(Current) /\ nd = new.ds[Current]
          /\ m = s[e.pos].maxDegree /\ u = Untouched(e)
  OBVIOUS
<1>3. /\ s \in Seq(FinishedBucket) /\ degree \in Nat /\ used \in Nat /\ rows \in Nat
      /\ EdgeSound(e, s, used, rows, degree, nd, new.card) /\ e \in Edge /\ EdgeOK(e, s)
  BY <1>1, <1>2, CurrentFacts, PlaceNow
<1>4. PICK f : f = [e EXCEPT !.remainCount = 0, !.pos = @ + 1]
  OBVIOUS
<1>5. /\ e.pos <= Len(s) /\ e.remainRow = 0 /\ TakesWholeBucket(e)
      /\ Emit(m * degree, u) /\ StayWith(f, rows - u * m)
  BY <1>2, <1>4 DEF TakeBucket, AtBucket
<1>6. u = IF e.remainCount > 0 THEN e.remainCount ELSE s[e.pos].count
  BY <1>2 DEF Untouched
<1>7. u \in Nat \ {0} /\ m \in Nat \ {0}
  BY <1>2, <1>3, <1>5, <1>6, BucketNow, EdgeFields
<1>8. rows >= u * m
  <2>1. PICK a \in Nat : a = u * m
    BY ONLY <1>7, TimesNat
  <2>2. IF e.remainCount > 0 THEN rows > a ELSE rows >= a
    BY <1>2, <1>5, <2>1 DEF TakesWholeBucket
  <2> QED BY ONLY <1>3, <2>1, <2>2
<1>9. /\ f \in Edge /\ f.remainRow = 0 /\ f.curDegree = e.curDegree /\ f.remainCount = 0
      /\ f.pos = e.pos + 1
  <2>1. PICK p \in Nat \ {0} : p = e.pos + 1
    BY ONLY <1>3, EdgeFields
  <2>2. f = [pos |-> p, curDegree |-> e.curDegree, remainRow |-> e.remainRow, remainCount |-> 0]
    <3>1. PICK p0, c0, r0, n0 :
              e = [pos |-> p0, curDegree |-> c0, remainRow |-> r0, remainCount |-> n0]
      BY ONLY <1>3, EdgeParts
    <3> QED BY ONLY <1>4, <2>1, <3>1
  <2>3. e.remainRow = 0
    BY ONLY <1>5
  <2> QED BY ONLY <1>3, <2>1, <2>2, <2>3, EdgeFields DEF Edge
<1>10. /\ rows - u * m \in Nat
       /\ EdgeSound(f, s, used, rows - u * m, degree, AddDegree(nd, m * degree, u), new.card)
  <2>1. /\ e.pos <= Len(s) /\ e.remainRow = 0 /\ m = s[e.pos].maxDegree
    BY ONLY <1>2, <1>5
  <2> QED BY ONLY <1>3, <1>6, <1>7, <1>8, <1>9, <2>1, TakeSound
<1>11. PICK left \in Nat : left = rows - u * m
  BY ONLY <1>10
<1>12. PICK nf : nf = AddDegree(nd, m * degree, u)
  OBVIOUS
<1>13. NewBecomes(nf)
  BY <1>1, <1>2, <1>5, <1>12, EmitFacts
<1>14. EdgeBecomes(f) /\ RowsBecome(left) /\ queue' = queue
  BY <1>1, <1>5, <1>11, PlaceFacts DEF StayWith
<1>15. DSInv'
  <2>1. EdgeSound(f, OldDs, UsedFor(Current), left, Degree, nf, new.card)
    BY <1>2, <1>10, <1>11, <1>12
  <2> QED BY <1>1, <1>13, <1>14, <2>1, EdgeStep
<1> QED BY <1>2, <1>5, <1>9, <1>14, <1>15 DEF EdgeBecomes

LEMMA PartOfBucketKeeps ==
    ASSUME DSInv, PartOfBucket
    PROVE  DSInv' /\ queue' = Tail(queue)
<1>1. MergeInv /\ Visiting /\ Frame
  BY DEF DSInv, PartOfBucket, AtBucket
<1>2. PICK e, s, rows, degree, used, nd, m, u, card :
          /\ e = edge[Current] /\ s = OldDs /\ rows = rownum[Current] /\ degree = Degree
          /\ used = UsedFor(Current) /\ nd = new.ds[Current]
          /\ m = s[e.pos].maxDegree /\ u = Untouched(e) /\ card = new.card
  OBVIOUS
<1>3. /\ s \in Seq(FinishedBucket) /\ degree \in Nat /\ used \in Nat /\ rows \in Nat
      /\ EdgeSound(e, s, used, rows, degree, nd, card) /\ e \in Edge /\ EdgeOK(e, s)
  BY <1>1, <1>2, CurrentFacts, PlaceNow
<1>4. PICK q, x, b : q = rows \div m /\ x = rows % m /\ b = IF x > 0 THEN 1 ELSE 0
  OBVIOUS
<1>5. PICK after : after = [e EXCEPT !.remainCount = u - q - b,
                                     !.remainRow = b * (m - x),
                                     !.curDegree = @ + x * degree]
  OBVIOUS
<1>6. PICK over : over = (e.remainCount > 0 /\ after.remainCount = 0 /\ after.remainRow = 0)
  OBVIOUS
<1>7. PICK f : f = [after EXCEPT !.pos = IF over THEN @ + 1 ELSE @]
  OBVIOUS
<1>8. after = SplitBucket(e, OldDs[e.pos], rows)
  BY <1>2, <1>4, <1>5 DEF SplitBucket
<1>9. /\ e.pos <= Len(s) /\ e.remainRow = 0 /\ ~TakesWholeBucket(e)
      /\ IF q > 0 THEN Emit(m * degree, q) ELSE UNCHANGED new
      /\ LeaveWith(f)
  BY <1>2, <1>4, <1>6, <1>7, <1>8 DEF PartOfBucket, AtBucket
<1>10. u = IF e.remainCount > 0 THEN e.remainCount ELSE s[e.pos].count
  BY <1>2 DEF Untouched
<1>11. u \in Nat \ {0} /\ m \in Nat \ {0}
  BY <1>2, <1>3, <1>9, <1>10, BucketNow, EdgeFields
<1>12. (IF e.remainCount > 0 THEN rows <= u * m ELSE rows < u * m) /\ rows <= u * m
  <2>1. PICK a \in Nat : a = u * m
    BY ONLY <1>11, TimesNat
  <2>2. ~(IF e.remainCount > 0 THEN rows > a ELSE rows >= a)
    BY <1>2, <1>9, <2>1 DEF TakesWholeBucket
  <2> QED BY ONLY <1>3, <2>1, <2>2
<1>13. /\ q \in Nat /\ x \in Nat /\ x < m /\ rows = q * m + x
       /\ x = 0 => q <= u
       /\ x > 0 => q + 1 <= u
  <2>1. u \in Nat
    BY ONLY <1>11
  <2>2. rows <= u * m /\ q = rows \div m /\ x = rows % m
    BY ONLY <1>4, <1>12
  <2>3. rows \in Nat /\ m \in Nat \ {0}
    BY ONLY <1>3, <1>11
  <2> QED BY ONLY <2>1, <2>2, <2>3, SplitFacts
<1>14. PICK fp, fc, fr, fn :
          /\ fn = u - q - b /\ fr = b * (m - x) /\ fc = e.curDegree + x * degree
          /\ fp = IF e.remainCount > 0 /\ fn = 0 /\ fr = 0 THEN e.pos + 1 ELSE e.pos
  OBVIOUS
<1>15. f = [pos |-> fp, curDegree |-> fc, remainRow |-> fr, remainCount |-> fn]
  <2>1. PICK p0, c0, r0, n0 :
            e = [pos |-> p0, curDegree |-> c0, remainRow |-> r0, remainCount |-> n0]
    BY ONLY <1>3, EdgeParts
  <2>2. after = [e EXCEPT !.remainCount = fn, !.remainRow = fr, !.curDegree = fc]
    <3>1. [e EXCEPT !.remainCount = u - q - b, !.remainRow = b * (m - x),
                    !.curDegree = @ + x * degree]
          = [e EXCEPT !.remainCount = u - q - b, !.remainRow = b * (m - x),
                    !.curDegree = e.curDegree + x * degree]
      BY ONLY <2>1
    <3> QED BY ONLY <1>5, <1>14, <3>1
  <2>3. after = [pos |-> p0, curDegree |-> fc, remainRow |-> fr, remainCount |-> fn]
    BY ONLY <2>1, <2>2
  <2>4. e.pos = p0 /\ after.remainCount = fn /\ after.remainRow = fr
    BY ONLY <2>1, <2>3
  <2>5. fp = IF over THEN p0 + 1 ELSE p0
    BY ONLY <1>6, <1>14, <2>4
  <2> QED BY ONLY <1>7, <2>3, <2>5
<1>16. PICK nf : nf = IF q > 0 THEN AddDegree(nd, m * degree, q) ELSE nd
  OBVIOUS
<1>17. EdgeSound(f, s, used, 0, degree, nf, card)
  <2>1. e.pos <= Len(s) /\ e.remainRow = 0 /\ m = s[e.pos].maxDegree
    BY ONLY <1>2, <1>9
  <2>2. b = IF x > 0 THEN 1 ELSE 0
    BY ONLY <1>4
  <2>3. IF e.remainCount > 0 THEN rows <= u * m ELSE rows < u * m
    BY ONLY <1>12
  <2>4. SplitsInto(e, rows, degree, nd, m, u, q, x, b, nf, fp, fc, fr, fn)
    BY ONLY <1>13, <1>14, <1>16, <2>2, <2>3 DEF SplitsInto
  <2>5. q \in Nat /\ x \in Nat
    BY ONLY <1>13
  <2> QED BY ONLY <1>3, <1>10, <1>11, <1>15, <2>1, <2>4, <2>5, PartSound
<1>18. NewBecomes(nf)
  <2>1. CASE q > 0
    BY <1>1, <1>2, <1>9, <1>16, <2>1, EmitFacts
  <2>2. CASE ~(q > 0)
    BY <1>1, <1>2, <1>9, <1>16, <2>2, KeepsNew
  <2> QED BY <2>1, <2>2
<1>19. EdgeBecomes(f) /\ RowsBecome(0) /\ queue' = Tail(queue)
  <2>1. LeaveWith(f) /\ 0 \in Nat
    BY ONLY <1>9
  <2> QED BY ONLY <1>1, <2>1, PlaceFacts DEF LeaveWith
<1>20. EdgeSound(f, OldDs, UsedFor(Current), 0, Degree, nf, new.card)
  BY <1>2, <1>17
<1> QED BY <1>1, <1>18, <1>19, <1>20, EdgeStep

LEMMA BeyondBucketsKeeps ==
    ASSUME DSInv, BeyondBuckets
    PROVE  DSInv' /\ queue' = Tail(queue)
<1>1. /\ MergeInv /\ Visiting /\ Frame /\ queue' = Tail(queue)
      /\ edge[Current].pos > Len(OldDs) /\ UNCHANGED <<new, edge, rownum>>
  BY DEF DSInv, BeyondBuckets
<1>2. PICK e, s, rows, degree, used, nd :
          /\ e = edge[Current] /\ s = OldDs /\ rows = rownum[Current] /\ degree = Degree
          /\ used = UsedFor(Current) /\ nd = new.ds[Current]
  OBVIOUS
<1>3. /\ s \in Seq(FinishedBucket) /\ used \in Nat /\ rows \in Nat /\ used <= GetCard(s)
      /\ EdgeSound(e, s, used, rows, degree, nd, new.card)
      /\ rownum \in [DOMAIN edge -> Nat]
  BY <1>1, <1>2, CurrentFacts
<1>4. ToCome(e, s) = 0
  BY <1>1, <1>2 DEF ToCome
<1>5. GetCard(s) \in Nat
  BY ONLY <1>3, FinishedFacts
<1>6. 0 = GetCard(s) - used + rows
  BY ONLY <1>3, <1>4 DEF EdgeSound
<1>7. rows = 0
  BY ONLY <1>3, <1>5, <1>6
<1>8. NewBecomes(nd)
  BY <1>1, <1>2, KeepsNew
<1>9. EdgeBecomes(e) /\ RowsBecome(0)
  BY <1>1, <1>2, <1>3, <1>7 DEF EdgeBecomes, RowsBecome
<1>10. EdgeSound(e, OldDs, UsedFor(Current), 0, Degree, nd, new.card)
  BY <1>2, <1>3, <1>7
<1> QED BY <1>1, <1>8, <1>9, <1>10, EdgeStep

\* When no table is left to be visited, every table has its tuples.
LEMMA EdgesDoneKeeps ==
    ASSUME DSInv, EdgesDone
    PROVE  DSInv'
<1>1. /\ MergeInv /\ pc = "edges" /\ InMerge /\ queue = <<>> /\ pc' = "loop"
      /\ UNCHANGED <<input, stats, next>> /\ plan' = plan
      /\ UNCHANGED <<stat, other, new, loop, edge, queue, rownum>>
  BY DEF DSInv, EdgesDone, InMerge, input
<1>2. next' = next /\ Step' = Step /\ MergeTable' = MergeTable /\ InMerge'
  BY <1>1 DEF Step, MergeTable, InMerge
<1>3. /\ \A t : OldOf(t)' = OldOf(t) /\ UsedFor(t)' = UsedFor(t)
      /\ \A t : DegreeFor(t)' = DegreeFor(t)
  BY <1>1, <1>2 DEF OldOf, UsedFor, DegreeFor, Used, Tables
<1>4. \A t : Pending(t) = 0 /\ Pending(t)' = 0
  BY <1>1 DEF Pending, Range
<1>5. ASSUME NEW t \in DOMAIN edge
      PROVE  EdgeInv(t)'
  <2>1. (EdgeInv(t) <=> EdgeSound(edge[t], OldOf(t), UsedFor(t), Pending(t), DegreeFor(t),
                                  new.ds[t], new.card))'
    BY EdgeInvIs, PTL
  <2>2. EdgeSound(edge[t], OldOf(t), UsedFor(t), Pending(t), DegreeFor(t), new.ds[t], new.card)
    BY <1>1, EdgeFacts
  <2> QED BY <1>1, <1>3, <1>4, <2>1, <2>2
<1>6. \A i : Covered(i)' = Covered(i)
  BY <1>1 DEF Covered
<1>7. Tables(stat)' = Tables(stat) /\ Tables(other)' = Tables(other) /\ Tables(new)' = Tables(new)
  BY <1>1 DEF Tables
<1>8. OperandOK(stat) /\ OperandOK(other)
  BY <1>1 DEF MergeInv
<1>9. OperandOK(stat)' /\ OperandOK(other)'
  BY <1>1, <1>2, <1>7, <1>8 DEF OperandOK, EdgeTables, Finished
<1>10. MergeInv'
  <2>1. /\ LoopOK(loop.c1, loop.p1, loop.d1, stat.ds[MergeTable])
        /\ LoopOK(loop.c2, loop.p2, loop.d2, other.ds[MergeTable])
        /\ IsStat(new)
    BY <1>1 DEF MergeInv
  <2>2. /\ LoopOK(loop.c1, loop.p1, loop.d1, stat.ds[MergeTable])'
        /\ LoopOK(loop.c2, loop.p2, loop.d2, other.ds[MergeTable])'
        /\ IsStat(new)'
    BY <1>1, <1>2, <2>1 DEF LoopOK, IsStat
  <2>3. /\ Collecting(new'.ds[MergeTable']) /\ PositiveDegrees(new'.ds[MergeTable'])
        /\ AddedUp(new'.ds[MergeTable']) = new'.card
    BY <1>1, <1>2 DEF MergeInv
  <2>4. /\ next \in DOMAIN plan.steps
        /\ Tables(stat) \cap Tables(other) = {MergeTable}
        /\ Covered(Step.to) \cup (IF Step.from = Filter THEN {} ELSE Covered(Step.from))
              = (Tables(stat) \cup Tables(other)) \ {Center}
        /\ new.card \in Nat /\ Tables(new) = Tables(stat) \cup Tables(other)
        /\ new.centralDs = NoDegrees
        /\ DOMAIN edge = Tables(new) \ {MergeTable}
    BY <1>1 DEF MergeInv
  <2> QED BY <1>1, <1>2, <1>5, <1>6, <1>7, <1>9, <2>2, <2>3, <2>4 DEF MergeInv
<1>11. \A t \in DOMAIN rownum' : rownum'[t] \in Nat
  BY <1>1 DEF DSInv, TypeOK
<1> QED BY <1>1, <1>2, <1>10, <1>11, KeptByMerge

\* p lists the n elements of A.
Lists(p, n, A) == n \in Nat /\ p \in [1..n -> A] /\ IsInjective(p) /\ Range(p) = A

LEMMA ConcatInjective ==
    ASSUME NEW A, NEW B, A \cap B = {}, NEW p, NEW q, NEW m, NEW n,
           Lists(p, m, A), Lists(q, n, B)
    PROVE  p \o q \in Seq(A \cup B) /\ IsInjective(p \o q) /\ Range(p \o q) = A \cup B
<1> SUFFICES ASSUME m \in Nat, n \in Nat, p \in [1..m -> A], q \in [1..n -> B],
                    IsInjective(p), IsInjective(q), Range(p) = A, Range(q) = B
             PROVE  p \o q \in Seq(A \cup B) /\ IsInjective(p \o q) /\ Range(p \o q) = A \cup B
  BY DEF Lists
<1>1. p \in Seq(A \cup B) /\ q \in Seq(A \cup B) /\ Len(p) = m /\ Len(q) = n
  <2>1. p \in [1..m -> A \cup B] /\ q \in [1..n -> A \cup B]
    OBVIOUS
  <2> QED BY ONLY <2>1, m \in Nat, n \in Nat, FunctionIsSeq
<1>2. PICK r : r = p \o q
  OBVIOUS
<1>3. /\ r \in Seq(A \cup B) /\ Len(r) = m + n /\ DOMAIN r = 1..(m + n)
      /\ \A i \in 1..(m + n) : r[i] = IF i <= m THEN p[i] ELSE q[i - m]
  <2>1. /\ r \in Seq(A \cup B) /\ Len(r) = Len(p) + Len(q)
        /\ \A i \in 1..(Len(p) + Len(q)) : r[i] = IF i <= Len(p) THEN p[i] ELSE q[i - Len(p)]
    BY ONLY <1>1, <1>2, ConcatProperties
  <2>2. DOMAIN r = 1..Len(r)
    BY ONLY <2>1
  <2> QED BY ONLY <1>1, <2>1, <2>2
<1>4. /\ \A i \in 1..m : p[i] \in A /\ i \in 1..(m + n) /\ r[i] = p[i]
      /\ \A j \in 1..n : q[j] \in B /\ j + m \in 1..(m + n) /\ r[j + m] = q[j]
  <2>1. \A i \in 1..m : i \in 1..(m + n) /\ i <= m
    BY ONLY m \in Nat, n \in Nat
  <2>2. \A j \in 1..n : j + m \in 1..(m + n) /\ ~(j + m <= m) /\ (j + m) - m = j
    OBVIOUS
  <2> QED BY <1>3, <2>1, <2>2
<1>5. \A i \in 1..(m + n) : i \in 1..m \/ \E j \in 1..n : i = j + m
  <2> TAKE i \in 1..(m + n)
  <2>1. CASE i <= m
    BY <2>1
  <2>2. CASE ~(i <= m)
    <3>1. i - m \in 1..n /\ i = (i - m) + m
      BY <2>2
    <3> QED BY <3>1
  <2> QED BY <2>1, <2>2
<1>6. /\ \A i \in 1..m, j \in 1..m : p[i] = p[j] => i = j
      /\ \A i \in 1..n, j \in 1..n : q[i] = q[j] => i = j
  BY DEF IsInjective
<1>7. ASSUME NEW i \in 1..(m + n), NEW j \in 1..(m + n), r[i] = r[j]
      PROVE  i = j
  <2>1. CASE i \in 1..m /\ j \in 1..m
    <3>1. p[i] = p[j]
      BY <1>4, <1>7, <2>1
    <3> QED BY ONLY <1>6, <2>1, <3>1
  <2>2. CASE (\E k \in 1..n : i = k + m) /\ (\E k \in 1..n : j = k + m)
    <3>1. PICK k \in 1..n : i = k + m
      BY <2>2
    <3>2. PICK l \in 1..n : j = l + m
      BY <2>2
    <3>3. q[k] = q[l]
      BY <1>4, <1>7, <3>1, <3>2
    <3>4. k = l
      BY ONLY <1>6, <3>3, k \in 1..n, l \in 1..n
    <3> QED BY <3>1, <3>2, <3>4
  <2>3. CASE i \in 1..m /\ \E k \in 1..n : j = k + m
    BY <1>4, <1>7, <2>3
  <2>4. CASE j \in 1..m /\ \E k \in 1..n : i = k + m
    BY <1>4, <1>7, <2>4
  <2> QED BY <1>5, <2>1, <2>2, <2>3, <2>4
<1>8. IsInjective(r)
  BY <1>3, <1>7 DEF IsInjective
<1>9. \A t : t \in Range(r) <=> \E i \in 1..(m + n) : t = r[i]
  BY <1>3 DEF Range
<1>10. /\ \A t : t \in A <=> \E i \in 1..m : t = p[i]
       /\ \A t : t \in B <=> \E i \in 1..n : t = q[i]
  BY DEF Range
<1>11. \A t : t \in Range(r) <=> t \in A \cup B
  <2> TAKE t
  <2>1. ASSUME t \in Range(r) PROVE t \in A \cup B
    <3>1. PICK i \in 1..(m + n) : t = r[i]
      BY <1>9, <2>1
    <3> QED BY <1>4, <1>5, <3>1
  <2>2. ASSUME t \in A PROVE t \in Range(r)
    BY <1>4, <1>9, <1>10, <2>2
  <2>3. ASSUME t \in B PROVE t \in Range(r)
    <3>1. PICK j \in 1..n : t = q[j]
      BY <1>10, <2>3
    <3>2. j + m \in 1..(m + n) /\ r[j + m] = t
      BY ONLY <1>4, <3>1, j \in 1..n
    <3> QED BY ONLY <1>9, <3>2
  <2> QED BY <2>1, <2>2, <2>3
<1>12. Range(r) = A \cup B
  BY ONLY <1>11
<1> QED BY <1>2, <1>3, <1>8, <1>12

\* Every edge table is visited once in an iteration.
LEMMA QueueFacts ==
    ASSUME MergeInv, InMerge, NEW q,
           q = Ascending(EdgeTables(stat)) \o Ascending(EdgeTables(other))
    PROVE  q \in Seq(DOMAIN edge) /\ IsInjective(q) /\ Range(q) = DOMAIN edge
<1>1. PICK A, B : A = EdgeTables(stat) /\ B = EdgeTables(other)
  OBVIOUS
<1>2. OperandOK(stat) /\ OperandOK(other) /\ A \cap B = {} /\ A \cup B = DOMAIN edge
  BY <1>1, MergeFacts DEF MergeInv
<1>3. A \in SUBSET Nat /\ B \in SUBSET Nat /\ IsFiniteSet(A) /\ IsFiniteSet(B)
  <2>1. A \subseteq Tables(stat) /\ B \subseteq Tables(other)
    BY <1>1 DEF EdgeTables
  <2> QED BY <1>2, <2>1, FS_Subset DEF OperandOK
<1>4. PICK p, r, m, n :
          /\ p = Ascending(A) /\ r = Ascending(B) /\ m \in Nat /\ n \in Nat
          /\ p \in [1..m -> A] /\ r \in [1..n -> B] /\ IsInjective(p) /\ IsInjective(r)
          /\ Range(p) = A /\ Range(r) = B
  BY ONLY <1>3, AscendingEnumerates
<1>5. q = p \o r
  BY <1>1, <1>4
<1>6. q \in Seq(A \cup B) /\ IsInjective(q) /\ Range(q) = A \cup B
  <2>1. Lists(p, m, A) /\ Lists(r, n, B)
    BY ONLY <1>4 DEF Lists
  <2>2. A \cap B = {}
    BY ONLY <1>2
  <2> QED BY ONLY <1>5, <2>1, <2>2, ConcatInjective
<1> QED BY <1>2, <1>6

\* Tuples that are counted and not yet given to the table.
LEMMA CountedSound ==
    ASSUME NEW e, NEW s \in Seq(FinishedBucket), NEW used \in Nat, NEW degree \in Nat,
           NEW nd, NEW card \in Nat, EdgeSound(e, s, used, 0, degree, nd, card),
           NEW rows \in Nat, NEW d \in Nat, NEW more \in Nat, more = rows * d,
           NEW used1, used1 = used + rows, NEW card1, card1 = card + more
    PROVE  EdgeSound(e, s, used1, rows, d, nd, card1)
<1>1. /\ EdgeOK(e, s) /\ ToCome(e, s) = GetCard(s) - used + 0
      /\ Collecting(nd) /\ PositiveCounts(nd)
      /\ AddedUp(nd) + e.curDegree + 0 * degree = card
  BY DEF EdgeSound
<1>2. GetCard(s) \in Nat /\ e.curDegree \in Nat /\ AddedUp(nd) \in Nat
  <2>1. e \in Edge
    BY <1>1 DEF EdgeOK
  <2>2. AddedUp(nd) \in Nat
    BY <1>1, AddDegreeFacts
  <2> QED BY <2>1, <2>2, FinishedFacts, EdgeFields
<1>3. ToCome(e, s) = GetCard(s) - used1 + rows
  BY ONLY <1>1, <1>2, used \in Nat, rows \in Nat, used1 = used + rows
<1>4. 0 * degree = 0
  OBVIOUS
<1>5. AddedUp(nd) + e.curDegree + more = card1
  BY ONLY <1>1, <1>2, <1>4, more \in Nat, card1 = card + more
<1> QED BY ONLY <1>1, <1>3, <1>5, more = rows * d DEF EdgeSound

LEMMA TripleProduct ==
    ASSUME NEW n \in Nat, NEW a \in Nat, NEW b \in Nat
    PROVE  /\ (a * n) * b = n * a * b /\ (b * n) * a = n * a * b /\ (a * b) * n = n * a * b
           /\ a * n \in Nat /\ b * n \in Nat /\ a * b \in Nat /\ n * a * b \in Nat
<1>1. a * n \in Nat /\ b * n \in Nat /\ a * b \in Nat
  BY TimesNat
<1>2. (a * n) * b \in Nat
  BY <1>1, TimesNat
<1>3. (a * n) * b = n * a * b /\ (b * n) * a = n * a * b /\ (a * b) * n = n * a * b
  OBVIOUS
<1> QED BY ONLY <1>1, <1>2, <1>3

\* What an iteration does: n rows of degrees a and b are matched.
Matched(n, a, b) ==
    /\ loop'.d1 = a /\ loop'.d2 = b /\ loop'.p1 > 0 /\ loop'.p2 > 0
    /\ LoopOK(loop'.c1, loop'.p1, loop'.d1, stat.ds[MergeTable])
    /\ LoopOK(loop'.c2, loop'.p2, loop'.d2, other.ds[MergeTable])
    /\ Used(loop'.c1, loop'.p1, loop'.d1, stat.ds[MergeTable])
         = Used(loop.c1, loop.p1, loop.d1, stat.ds[MergeTable]) + a * n
    /\ Used(loop'.c2, loop'.p2, loop'.d2, other.ds[MergeTable])
         = Used(loop.c2, loop.p2, loop.d2, other.ds[MergeTable]) + b * n
    /\ RowsLeft(loop'.c1, loop'.p1, stat.ds[MergeTable])
         + RowsLeft(loop'.c2, loop'.p2, other.ds[MergeTable])
       < RowsLeft(loop.c1, loop.p1, stat.ds[MergeTable])
         + RowsLeft(loop.c2, loop.p2, other.ds[MergeTable])
    /\ RowsLeft(loop'.c1, loop'.p1, stat.ds[MergeTable]) \in Nat
    /\ RowsLeft(loop'.c2, loop'.p2, other.ds[MergeTable]) \in Nat
    /\ new' = [new EXCEPT !.card = @ + n * a * b,
                          !.ds[MergeTable] = AddDegree(@, a * b, n)]
    /\ queue' = Ascending(EdgeTables(stat)) \o Ascending(EdgeTables(other))
    /\ rownum' = [t \in DOMAIN edge |-> IF t \in Tables(stat) THEN a * n ELSE b * n]

LEMMA IterateFacts ==
    ASSUME MergeInv, Iterate
    PROVE  \E n \in Nat, a \in Nat \ {0}, b \in Nat \ {0} : Matched(n, a, b)
<1>1. InMerge /\ ~Exhausted
  BY DEF Iterate, InMerge
<1>2. PICK s1, s2, c1, p1, d1, c2, p2, d2 :
          /\ s1 = stat.ds[MergeTable] /\ s2 = other.ds[MergeTable]
          /\ c1 = loop.c1 /\ p1 = loop.p1 /\ d1 = loop.d1
          /\ c2 = loop.c2 /\ p2 = loop.p2 /\ d2 = loop.d2
  OBVIOUS
<1>3. /\ s1 \in Seq(RowBucket) /\ s2 \in Seq(RowBucket)
      /\ LoopOK(c1, p1, d1, s1) /\ LoopOK(c2, p2, d2, s2)
      /\ Loaded(c1, p1, s1) /\ Loaded(c2, p2, s2)
  BY <1>1, <1>2, MergeFacts DEF Exhausted
<1>4. PICK n1, n2, q1, q2, a, b :
          /\ n1 = Remaining(c1, p1, s1) /\ n2 = Remaining(c2, p2, s2)
          /\ q1 = PointerNow(c1, p1) /\ q2 = PointerNow(c2, p2)
          /\ a = DegreeNow(c1, d1, p1, s1) /\ b = DegreeNow(c2, d2, p2, s2)
  OBVIOUS
<1>5. n1 \in Nat /\ n2 \in Nat
  <2>1. c1 \in Nat /\ c2 \in Nat /\ p1 \in 0..Len(s1) /\ p2 \in 0..Len(s2)
    BY ONLY <1>3 DEF LoopOK
  <2>2. /\ Len(s1) \in Nat /\ \A i \in 1..Len(s1) : s1[i].count \in Nat
        /\ Len(s2) \in Nat /\ \A i \in 1..Len(s2) : s2[i].count \in Nat
    BY ONLY <1>3, RowBucketFacts
  <2>3. p1 < Len(s1) => p1 + 1 \in 1..Len(s1)
    BY ONLY <2>1, <2>2
  <2>4. p2 < Len(s2) => p2 + 1 \in 1..Len(s2)
    BY ONLY <2>1, <2>2
  <2>5. n1 \in Nat
    BY ONLY <1>3, <1>4, <2>1, <2>2, <2>3 DEF Remaining, Loaded
  <2>6. n2 \in Nat
    BY ONLY <1>3, <1>4, <2>1, <2>2, <2>4 DEF Remaining, Loaded
  <2> QED BY ONLY <2>5, <2>6
<1>6. PICK n \in Nat : n = Min({n1, n2}) /\ n <= n1 /\ n <= n2 /\ (n = n1 \/ n = n2)
  <2>1. Min({n1, n2}) = IF n1 <= n2 THEN n1 ELSE n2
    BY ONLY <1>5, MinOfTwo
  <2> QED BY ONLY <1>5, <2>1
<1>7. /\ a \in Nat \ {0} /\ q1 > 0 /\ LoopOK(n1 - n, q1, a, s1)
      /\ Used(n1 - n, q1, a, s1) = Used(c1, p1, d1, s1) + a * n
      /\ RowsLeft(n1 - n, q1, s1) + n + If(~(c1 > 0)) = RowsLeft(c1, p1, s1)
      /\ c1 > 0 => n1 = c1
  BY ONLY <1>3, <1>4, <1>6, LoopAdvances
<1>8. /\ b \in Nat \ {0} /\ q2 > 0 /\ LoopOK(n2 - n, q2, b, s2)
      /\ Used(n2 - n, q2, b, s2) = Used(c2, p2, d2, s2) + b * n
      /\ RowsLeft(n2 - n, q2, s2) + n + If(~(c2 > 0)) = RowsLeft(c2, p2, s2)
      /\ c2 > 0 => n2 = c2
  BY ONLY <1>3, <1>4, <1>6, LoopAdvances
<1>9. RowsLeft(n1 - n, q1, s1) \in Nat /\ RowsLeft(n2 - n, q2, s2) \in Nat
  BY ONLY <1>3, <1>7, <1>8, LoopBounds
<1>10. RowsLeft(n1 - n, q1, s1) + RowsLeft(n2 - n, q2, s2)
         < RowsLeft(c1, p1, s1) + RowsLeft(c2, p2, s2)
  <2>1. PICK x \in Nat, y \in Nat :
            x = RowsLeft(n1 - n, q1, s1) /\ y = RowsLeft(n2 - n, q2, s2)
    BY ONLY <1>9
  <2>2. c1 \in Nat /\ c2 \in Nat
    BY ONLY <1>3 DEF LoopOK
  <2>3. n > 0 \/ ~(c1 > 0) \/ ~(c2 > 0)
    BY ONLY <1>6, <1>7, <1>8, <2>2
  <2>4. PICK i \in Nat, j \in Nat :
            /\ i = If(~(c1 > 0)) /\ j = If(~(c2 > 0))
            /\ ~(c1 > 0) => i = 1
            /\ ~(c2 > 0) => j = 1
    BY DEF If
  <2>5. RowsLeft(c1, p1, s1) = x + n + i /\ RowsLeft(c2, p2, s2) = y + n + j
    BY ONLY <1>7, <1>8, <2>1, <2>4
  <2>6. x + y < (x + n + i) + (y + n + j)
    BY ONLY <2>3, <2>4, x \in Nat, y \in Nat, n \in Nat, i \in Nat, j \in Nat
  <2> QED BY ONLY <2>1, <2>5, <2>6
<1>11. PICK lp : lp = [p1 |-> q1, c1 |-> n1 - n, d1 |-> a, p2 |-> q2, c2 |-> n2 - n, d2 |-> b]
  OBVIOUS
<1>12. /\ lp.p1 = q1 /\ lp.c1 = n1 - n /\ lp.d1 = a
       /\ lp.p2 = q2 /\ lp.c2 = n2 - n /\ lp.d2 = b
  BY ONLY <1>11
<1>13. /\ loop' = lp
       /\ new' = [new EXCEPT !.card = @ + n * lp.d1 * lp.d2,
                             !.ds[MergeTable] = AddDegree(@, lp.d1 * lp.d2, n)]
       /\ queue' = Ascending(EdgeTables(stat)) \o Ascending(EdgeTables(other))
       /\ rownum' = [t \in DOMAIN edge |-> RowsFor(t, lp, n)]
  BY <1>2, <1>4, <1>6, <1>11 DEF Iterate
<1>14. new' = [new EXCEPT !.card = @ + n * a * b, !.ds[MergeTable] = AddDegree(@, a * b, n)]
  BY ONLY <1>12, <1>13
<1>15. rownum' = [t \in DOMAIN edge |-> IF t \in Tables(stat) THEN a * n ELSE b * n]
  BY ONLY <1>12, <1>13 DEF RowsFor
<1>16. queue' = Ascending(EdgeTables(stat)) \o Ascending(EdgeTables(other))
  BY ONLY <1>13
<1>17. /\ loop'.p1 = q1 /\ loop'.c1 = n1 - n /\ loop'.d1 = a
       /\ loop'.p2 = q2 /\ loop'.c2 = n2 - n /\ loop'.d2 = b
  BY ONLY <1>12, <1>13
<1>18. /\ a \in Nat \ {0} /\ b \in Nat \ {0} /\ loop'.p1 > 0 /\ loop'.p2 > 0
       /\ LoopOK(loop'.c1, loop'.p1, loop'.d1, s1) /\ LoopOK(loop'.c2, loop'.p2, loop'.d2, s2)
       /\ Used(loop'.c1, loop'.p1, loop'.d1, s1) = Used(loop.c1, loop.p1, loop.d1, s1) + a * n
       /\ Used(loop'.c2, loop'.p2, loop'.d2, s2) = Used(loop.c2, loop.p2, loop.d2, s2) + b * n
  BY ONLY <1>2, <1>7, <1>8, <1>17
<1>19. /\ RowsLeft(loop'.c1, loop'.p1, s1) + RowsLeft(loop'.c2, loop'.p2, s2)
             < RowsLeft(loop.c1, loop.p1, s1) + RowsLeft(loop.c2, loop.p2, s2)
       /\ RowsLeft(loop'.c1, loop'.p1, s1) \in Nat
       /\ RowsLeft(loop'.c2, loop'.p2, s2) \in Nat
  BY ONLY <1>2, <1>9, <1>10, <1>17
<1>20. s1 = stat.ds[MergeTable] /\ s2 = other.ds[MergeTable]
  BY ONLY <1>2
<1>21. Matched(n, a, b)
  BY ONLY <1>14, <1>15, <1>16, <1>17, <1>18, <1>19, <1>20 DEF Matched
<1> QED BY ONLY <1>18, <1>21, n \in Nat

LEMMA IterateKeeps ==
    ASSUME DSInv, Iterate
    PROVE  DSInv'
<1>1. /\ MergeInv /\ pc = "loop" /\ InMerge /\ pc' = "edges" /\ plan' = plan
      /\ UNCHANGED <<input, stats, next>> /\ UNCHANGED <<stat, other, edge>>
  BY DEF DSInv, Iterate, InMerge, input
<1>2. next' = next /\ Step' = Step /\ MergeTable' = MergeTable /\ InMerge'
  BY <1>1 DEF Step, MergeTable, InMerge
<1>3. PICK M, s1, s2, u1, u2, card :
          /\ M = MergeTable /\ s1 = stat.ds[M] /\ s2 = other.ds[M] /\ card = new.card
          /\ u1 = Used(loop.c1, loop.p1, loop.d1, s1) /\ u2 = Used(loop.c2, loop.p2, loop.d2, s2)
  OBVIOUS
<1>4. PICK n \in Nat, a \in Nat \ {0}, b \in Nat \ {0} : Matched(n, a, b)
  BY <1>1, IterateFacts
<1>5. /\ loop'.d1 = a /\ loop'.d2 = b /\ loop'.p1 > 0 /\ loop'.p2 > 0
      /\ LoopOK(loop'.c1, loop'.p1, loop'.d1, s1) /\ LoopOK(loop'.c2, loop'.p2, loop'.d2, s2)
      /\ Used(loop'.c1, loop'.p1, loop'.d1, s1) = u1 + a * n
      /\ Used(loop'.c2, loop'.p2, loop'.d2, s2) = u2 + b * n
      /\ new' = [new EXCEPT !.card = @ + n * a * b, !.ds[M] = AddDegree(@, a * b, n)]
      /\ queue' = Ascending(EdgeTables(stat)) \o Ascending(EdgeTables(other))
      /\ rownum' = [t \in DOMAIN edge |-> IF t \in Tables(stat) THEN a * n ELSE b * n]
  BY ONLY <1>3, <1>4 DEF Matched
<1>6. /\ M \in DOMAIN new.ds /\ IsStat(new) /\ card \in Nat /\ Collecting(new.ds[M])
      /\ AddedUp(new.ds[M]) = card /\ PositiveDegrees(new.ds[M]) /\ new.centralDs = NoDegrees
      /\ DOMAIN edge = DOMAIN new.ds \ {M} /\ loop.d1 \in Nat /\ loop.d2 \in Nat
  BY <1>1, <1>3, MergeFacts DEF Tables, MergeInv
<1>7. PICK x \in Nat, y \in Nat, z \in Nat, g \in Nat :
          /\ x = a * n /\ y = b * n /\ z = n * a * b /\ g = a * b
          /\ z = x * b /\ z = y * a /\ z = g * n /\ g > 0
  <2>1. a \in Nat /\ b \in Nat /\ a > 0 /\ b > 0
    OBVIOUS
  <2>2. /\ (a * n) * b = n * a * b /\ (b * n) * a = n * a * b /\ (a * b) * n = n * a * b
        /\ a * n \in Nat /\ b * n \in Nat /\ a * b \in Nat /\ n * a * b \in Nat
    BY ONLY <2>1, n \in Nat, TripleProduct
  <2>3. a * b > 0
    BY ONLY <2>1
  <2> QED BY ONLY <2>2, <2>3
<1>8. PICK nd : nd = AddDegree(new.ds[M], g, n)
  OBVIOUS
<1>9. Collecting(nd) /\ AddedUp(nd) = card + z /\ PositiveDegrees(nd)
  <2>1. AddedUp(nd) = AddedUp(new.ds[M]) + g * n /\ Collecting(nd) /\ PositiveDegrees(nd)
    <3>1. PICK o : o = new.ds[M] /\ Collecting(o) /\ PositiveDegrees(o)
      BY ONLY <1>6
    <3> QED BY ONLY <1>7, <1>8, <3>1, n \in Nat, g \in Nat, AddDegreeFacts
  <2> QED BY ONLY <1>6, <1>7, <2>1
<1>10. /\ IsStat(new)' /\ new'.card = card + z /\ new'.centralDs = NoDegrees
      /\ Tables(new)' = Tables(new) /\ new'.ds[M] = nd
      /\ \A t \in DOMAIN edge : new'.ds[t] = new.ds[t]
  <2>1. PICK N, C, d : N = new /\ C = N.centralDs /\ d = N.ds
    OBVIOUS
  <2>2. N = [card |-> card, centralDs |-> C, ds |-> d]
    BY <1>3, <1>6, <2>1 DEF IsStat
  <2>3. new' = [N EXCEPT !.card = card + z, !.ds[M] = nd]
    BY ONLY <1>3, <1>5, <1>7, <1>8, <2>1, <2>2
  <2>4. PICK d1 : d1 = [d EXCEPT ![M] = nd]
    OBVIOUS
  <2>5. new' = [card |-> card + z, centralDs |-> C, ds |-> d1]
    BY ONLY <2>2, <2>3, <2>4
  <2>6. DOMAIN d1 = DOMAIN d /\ d1[M] = nd /\ \A t \in DOMAIN d \ {M} : d1[t] = d[t]
    BY ONLY <1>6, <2>1, <2>4
  <2>7. new'.card = card + z /\ new'.centralDs = C /\ new'.ds = d1
    BY ONLY <2>5
  <2>8. IsStat(new)'
    BY <2>5, <2>7 DEF IsStat
  <2>9. Tables(new)' = DOMAIN d1 /\ Tables(new) = DOMAIN d
    BY <2>1, <2>7 DEF Tables
  <2> QED BY <1>6, <2>1, <2>6, <2>7, <2>8, <2>9
<1>11. queue' \in Seq(DOMAIN edge) /\ IsInjective(queue') /\ Range(queue') = DOMAIN edge
  <2>1. PICK q : q = Ascending(EdgeTables(stat)) \o Ascending(EdgeTables(other))
    OBVIOUS
  <2>2. q \in Seq(DOMAIN edge) /\ IsInjective(q) /\ Range(q) = DOMAIN edge
    BY <1>1, <2>1, QueueFacts
  <2>3. queue' = q
    BY <1>5, <2>1
  <2> QED BY <2>2, <2>3
<1>12. /\ rownum' = [t \in DOMAIN edge |-> IF t \in Tables(stat) THEN x ELSE y]
       /\ rownum' \in [DOMAIN edge -> Nat]
  BY <1>5, <1>7
<1>13. Tables(stat)' = Tables(stat) /\ Tables(other)' = Tables(other)
  BY <1>1 DEF Tables
<1>14. ASSUME NEW t \in DOMAIN edge
       PROVE  EdgeInv(t)'
  <2>1. (EdgeInv(t) <=> EdgeSound(edge[t], OldOf(t), UsedFor(t), Pending(t), DegreeFor(t),
                                  new.ds[t], new.card))'
    BY EdgeInvIs, PTL
  <2>2. PICK s, u, dg : s = OldOf(t) /\ u = UsedFor(t) /\ dg = DegreeFor(t)
    OBVIOUS
  <2>3. /\ s \in Seq(FinishedBucket) /\ u \in Nat /\ dg \in Nat
        /\ EdgeSound(edge[t], s, u, Pending(t), dg, new.ds[t], new.card)
    BY <1>1, <2>2, EdgeFacts
  <2>4. Pending(t) = 0
    BY <1>1 DEF Pending
  <2>5. EdgeSound(edge[t], s, u, 0, dg, new.ds[t], card)
    BY <1>3, <2>3, <2>4
  <2>6. OldOf(t)' = s
    BY <1>1, <1>13, <2>2 DEF OldOf
  <2>7. Pending(t)' = rownum'[t]
    BY <1>1, <1>11 DEF Pending
  <2>8. CASE t \in Tables(stat)
    <3>1. UsedFor(t)' = u + x /\ DegreeFor(t)' = b /\ Pending(t)' = x
      BY <1>1, <1>2, <1>3, <1>5, <1>7, <1>12, <1>13, <2>2, <2>7, <2>8 DEF UsedFor, DegreeFor
    <3>2. b \in Nat
      OBVIOUS
    <3>3. EdgeSound(edge[t], s, u + x, x, b, new.ds[t], card + z)
      BY ONLY <1>6, <1>7, <2>3, <2>5, <3>2, CountedSound
    <3> QED BY <1>1, <1>10, <2>1, <2>6, <3>1, <3>3
  <2>9. CASE t \notin Tables(stat)
    <3>1. UsedFor(t)' = u + y /\ DegreeFor(t)' = a /\ Pending(t)' = y
      BY <1>1, <1>2, <1>3, <1>5, <1>7, <1>12, <1>13, <2>2, <2>7, <2>9 DEF UsedFor, DegreeFor
    <3>2. a \in Nat
      OBVIOUS
    <3>3. EdgeSound(edge[t], s, u + y, y, a, new.ds[t], card + z)
      BY ONLY <1>6, <1>7, <2>3, <2>5, <3>2, CountedSound
    <3> QED BY <1>1, <1>10, <2>1, <2>6, <3>1, <3>3
  <2> QED BY <2>8, <2>9
<1>15. MergeInv'
  <2>1. /\ next \in DOMAIN plan.steps
        /\ OperandOK(stat) /\ OperandOK(other)
        /\ Tables(stat) \cap Tables(other) = {MergeTable}
        /\ Covered(Step.to) \cup (IF Step.from = Filter THEN {} ELSE Covered(Step.from))
              = (Tables(stat) \cup Tables(other)) \ {Center}
        /\ Tables(new) = Tables(stat) \cup Tables(other)
        /\ DOMAIN edge = Tables(new) \ {MergeTable}
    BY <1>1 DEF MergeInv
  <2>2. OperandOK(stat)' /\ OperandOK(other)'
    BY <1>1, <1>2, <1>13, <2>1 DEF OperandOK, EdgeTables, Finished
  <2>3. \A i : Covered(i)' = Covered(i)
    BY <1>1 DEF Covered
  <2>4. stat'.ds[MergeTable'] = s1 /\ other'.ds[MergeTable'] = s2
    BY <1>1, <1>2, <1>3
  <2>5. /\ LoopOK(loop'.c1, loop'.p1, loop'.d1, stat'.ds[MergeTable'])
        /\ LoopOK(loop'.c2, loop'.p2, loop'.d2, other'.ds[MergeTable'])
    BY <1>5, <2>4
  <2>6. new'.card \in Nat
    BY ONLY <1>6, <1>7, <1>10
  <2>7. /\ Collecting(new'.ds[MergeTable']) /\ PositiveDegrees(new'.ds[MergeTable'])
        /\ AddedUp(new'.ds[MergeTable']) = new'.card
    BY ONLY <1>2, <1>3, <1>9, <1>10
  <2>8. loop'.p1 > 0 /\ loop'.p2 > 0
    BY ONLY <1>5
  <2> QED BY ONLY <1>1, <1>2, <1>10, <1>11, <1>12, <1>13, <1>14, <2>1, <2>2, <2>3, <2>5, <2>6, <2>7,
               <2>8 DEF MergeInv
<1>16. \A t \in DOMAIN rownum' : rownum'[t] \in Nat
  BY ONLY <1>12
<1> QED BY <1>1, <1>2, <1>15, <1>16, KeptByMerge

-----------------------------------------------------------------------------
(***************************************************************************)
(* The beginning of a merge.                                               *)
(***************************************************************************)
LEMMA StepFacts ==
    ASSUME plan \in Plans, next \in DOMAIN plan.steps
    PROVE  /\ Step.to \in DOMAIN plan.pieces
           /\ \A i \in DOMAIN plan.pieces :
                 Covered(i) \subseteq Nat \ {Center} /\ IsFiniteSet(Covered(i))
           /\ \/ Step.from = Filter /\ MergeTable \in DOMAIN plan.cols
                 /\ MergeTable \in Covered(Step.to) /\ MergeTable # Center
              \/ Step.from # Filter /\ Step.from \in DOMAIN plan.pieces
                 /\ Covered(Step.to) \cap Covered(Step.from) = {MergeTable} \ {Center}
<1>1. PICK p, n, M : p = plan /\ n = next /\ M = Meaning(p)[n - 1]
  OBVIOUS
<1>2. p \in Plans /\ n \in DOMAIN p.steps
  BY <1>1
<1>3. /\ DOMAIN p.cols \subseteq Nat \ {Center} /\ IsFiniteSet(DOMAIN p.cols)
      /\ p.filters \subseteq DOMAIN p.cols
      /\ Len(p.pieces) \in Nat /\ DOMAIN p.pieces = 1..Len(p.pieces)
      /\ Len(p.steps) \in Nat /\ DOMAIN p.steps = 1..Len(p.steps)
      /\ Mergeable(p, M, p.steps[n])
  BY <1>1, <1>2, PlanFacts
<1>4. n - 1 \in 0..Len(p.steps)
  BY <1>2, <1>3
<1>5. M \in Meanings(p)
  BY <1>1, <1>2, <1>4, MeaningFacts
<1>6. \A i \in DOMAIN p.pieces : M[i].tables \subseteq DOMAIN p.cols
  BY <1>5 DEF Meanings
<1>7. \A i : Covered(i) = M[i].tables
  BY <1>1 DEF Covered
<1>8. Step = p.steps[n] /\ MergeTable = Step.on
  BY <1>1 DEF Step, MergeTable
<1>9. ASSUME NEW i \in DOMAIN plan.pieces
      PROVE  Covered(i) \subseteq Nat \ {Center} /\ IsFiniteSet(Covered(i))
  <2>1. Covered(i) \subseteq DOMAIN p.cols
    BY <1>1, <1>6, <1>7
  <2> QED BY <1>3, <2>1, FS_Subset
<1>10. Filter \notin DOMAIN p.pieces
  BY <1>3 DEF Filter
<1>11. /\ Step.to \in DOMAIN p.pieces
       /\ \/ Step.from = Filter /\ MergeTable \in p.filters \cap M[Step.to].tables
          \/ Step.from \in DOMAIN p.pieces
             /\ M[Step.to].tables \cap M[Step.from].tables = {MergeTable} \ {Center}
  BY <1>3, <1>8 DEF Mergeable
<1>12. CASE Step.from = Filter /\ MergeTable \in p.filters \cap M[Step.to].tables
  BY <1>1, <1>3, <1>7, <1>9, <1>11, <1>12
<1>13. CASE Step.from \in DOMAIN p.pieces
             /\ M[Step.to].tables \cap M[Step.from].tables = {MergeTable} \ {Center}
  BY <1>1, <1>7, <1>9, <1>10, <1>11, <1>13
<1> QED BY <1>11, <1>12, <1>13

LEMMA OperandFacts ==
    ASSUME NEW st, StatOK(st), Tables(st) \subseteq Nat \ {Center}, IsFiniteSet(Tables(st)),
           MergeTable = Center \/ MergeTable \in Tables(st)
    PROVE  OperandOK(WithCenter(st)) /\ Tables(WithCenter(st)) = Tables(st) \cup {MergeTable}
<1>1. PICK M, T : M = MergeTable /\ T = Tables(st)
  OBVIOUS
<1>2. /\ IsStat(st) /\ st.card \in Nat /\ \A t \in T : Finished(st.ds[t], st.card)
      /\ st.centralDs \in Seq(FinishedBucket) /\ GetCard(st.centralDs) <= st.card
  BY <1>1 DEF StatOK
<1>3. PICK o : o = WithCenter(st)
  OBVIOUS
<1>4. /\ o.card = st.card /\ DOMAIN o.ds = T \cup {M}
      /\ \A t \in T : o.ds[t] = st.ds[t]
      /\ o.ds[M] \in Seq(FinishedBucket) /\ GetCard(o.ds[M]) <= st.card
  <2>1. CASE M = Center
    <3>1. PICK d : d = [t \in Tables(st) \cup {Center} |->
                           IF t = Center THEN st.centralDs ELSE st.ds[t]]
      OBVIOUS
    <3>2. o = [st EXCEPT !.ds = d]
      BY <1>1, <1>3, <2>1, <3>1 DEF WithCenter
    <3>3. st = [card |-> st.card, centralDs |-> st.centralDs, ds |-> st.ds]
      BY <1>2 DEF IsStat
    <3>4. o.card = st.card /\ o.ds = d
      BY <3>2, <3>3
    <3>5. T = DOMAIN st.ds /\ Center \notin T
      BY <1>1 DEF Tables
    <3>6. /\ DOMAIN d = T \cup {Center} /\ d[Center] = st.centralDs
          /\ \A t \in T : d[t] = st.ds[t]
      BY <3>1, <3>5 DEF Tables
    <3> QED BY <1>2, <2>1, <3>4, <3>6
  <2>2. CASE M # Center
    <3>1. o = st /\ M \in T /\ DOMAIN o.ds = T
      BY <1>1, <1>3, <2>2 DEF WithCenter, Tables
    <3>2. Finished(st.ds[M], st.card)
      BY <1>2, <3>1
    <3>3. st.ds[M] \in Seq(FinishedBucket) /\ GetCard(st.ds[M]) = st.card
      BY <3>2 DEF Finished
    <3>4. GetCard(st.ds[M]) <= st.card
      BY ONLY <1>2, <3>3
    <3> QED BY <3>1, <3>3, <3>4
  <2> QED BY <2>1, <2>2
<1>5. o.ds[M] \in Seq(RowBucket)
  BY <1>4, FinishedFacts
<1>6. Tables(o) = T \cup {M} /\ EdgeTables(o) \subseteq T
  BY <1>1, <1>4 DEF Tables, EdgeTables
<1>7. \A t \in EdgeTables(o) : Finished(o.ds[t], o.card)
  BY <1>2, <1>4, <1>6
<1>8. Tables(o) \subseteq Nat /\ IsFiniteSet(Tables(o))
  <2>1. M \in Nat
    BY <1>1 DEF Center
  <2> QED BY <1>1, <1>6, <2>1, FS_AddElement
<1>9. OperandOK(o)
  <2>1. MergeTable = M /\ M \in Tables(o) /\ o.card \in Nat /\ GetCard(o.ds[M]) <= o.card
    BY <1>1, <1>2, <1>4, <1>6
  <2> QED BY <1>5, <1>7, <1>8, <2>1 DEF OperandOK
<1> QED BY <1>1, <1>3, <1>6, <1>9

LEMMA FilterFacts ==
    ASSUME plan \in Plans, passing \in [Cells(plan) -> Nat], MergeTable \in DOMAIN plan.cols
    PROVE  OperandOK(SingleStat(MergeTable)) /\ Tables(SingleStat(MergeTable)) = {MergeTable}
<1>1. PICK M, c, s, o : /\ M = MergeTable /\ c = GetTableCard(M) /\ s = SingleSequence(c)
                        /\ o = SingleStat(M)
  OBVIOUS
<1>2. c \in Nat /\ M \in Nat
  BY <1>1, TableCardNat, PlanFacts
<1>3. s = <<[maxDegree |-> 1, count |-> c]>>
  BY <1>1 DEF SingleSequence
<1>4. GetCard(s) = c
  <2>1. GetCard(s) = c * 1
    BY <1>2, <1>3, CardOfOne
  <2> QED BY ONLY <1>2, <2>1
<1>5. s \in Seq(RowBucket)
  <2>1. [maxDegree |-> 1, count |-> c] \in RowBucket
    BY <1>2 DEF RowBucket
  <2>2. PICK b : b = [maxDegree |-> 1, count |-> c]
    OBVIOUS
  <2> QED BY <1>3, <2>1, <2>2
<1>6. o = [card |-> c, centralDs |-> NoDegrees, ds |-> [u \in {M} |-> s]]
  BY <1>1 DEF SingleStat
<1>7. o.card = c /\ o.ds = [u \in {M} |-> s]
  BY <1>6
<1>8. DOMAIN o.ds = {M} /\ o.ds[M] = s
  BY <1>7
<1>9. Tables(o) = {M} /\ EdgeTables(o) = {}
  BY <1>1, <1>8 DEF Tables, EdgeTables
<1>10. Tables(o) \subseteq Nat /\ IsFiniteSet(Tables(o)) /\ MergeTable \in Tables(o)
  BY <1>1, <1>2, <1>9, FS_Singleton
<1>11. GetCard(o.ds[MergeTable]) <= o.card
  BY ONLY <1>1, <1>2, <1>4, <1>7, <1>8
<1>12. OperandOK(o)
  BY <1>1, <1>2, <1>5, <1>7, <1>8, <1>9, <1>10, <1>11 DEF OperandOK
<1> QED BY <1>1, <1>9, <1>12

\* Both sides of a merge, and the tables they have.
LEMMA OperandsFacts ==
    ASSUME DSInv, pc = "ready", next \in DOMAIN plan.steps, NEW o1, NEW o2,
           o1 = WithCenter(stats[Step.to]),
           o2 = (IF Step.from = Filter THEN SingleStat(MergeTable)
                 ELSE WithCenter(stats[Step.from]))
    PROVE  /\ OperandOK(o1) /\ OperandOK(o2)
           /\ Tables(o1) \cap Tables(o2) = {MergeTable}
           /\ Covered(Step.to) \cup (IF Step.from = Filter THEN {} ELSE Covered(Step.from))
                 = (Tables(o1) \cup Tables(o2)) \ {Center}
<1>1. PICK M, to, from, T : M = MergeTable /\ to = Step.to /\ from = Step.from /\ T = Covered(to)
  OBVIOUS
<1>2. /\ plan \in Plans /\ passing \in [Cells(plan) -> Nat] /\ DOMAIN stats = DOMAIN plan.pieces
      /\ \A i \in DOMAIN stats : Tables(stats[i]) = Covered(i) /\ StatOK(stats[i])
  BY DEF DSInv, TypeOK, StatsInv
<1>3. /\ to \in DOMAIN stats
      /\ \A i \in DOMAIN stats :
            Covered(i) \subseteq Nat \ {Center} /\ IsFiniteSet(Covered(i))
      /\ \/ from = Filter /\ M \in DOMAIN plan.cols /\ M \in T /\ M # Center
         \/ from # Filter /\ from \in DOMAIN stats
            /\ T \cap Covered(from) = {M} \ {Center}
  BY <1>1, <1>2, StepFacts
<1>4. M = Center \/ M \in T
  BY <1>3
<1>5. OperandOK(o1) /\ Tables(o1) = T \cup {M}
  <2>1. PICK st : st = stats[to]
    OBVIOUS
  <2>2. StatOK(st) /\ Tables(st) = T /\ T \subseteq Nat \ {Center} /\ IsFiniteSet(T)
    BY <1>1, <1>2, <1>3, <2>1
  <2> QED BY <1>1, <1>4, <2>1, <2>2, OperandFacts
<1>6. CASE from = Filter
  <2>1. M \in DOMAIN plan.cols /\ M \in T /\ M # Center /\ Center \notin T
    BY <1>1, <1>3, <1>6
  <2>2. o2 = SingleStat(M)
    BY <1>1, <1>6
  <2>3. OperandOK(o2) /\ Tables(o2) = {M}
    BY <1>1, <1>2, <2>1, <2>2, FilterFacts
  <2>4. Tables(o1) \cap Tables(o2) = {M} /\ (Tables(o1) \cup Tables(o2)) \ {Center} = T
    BY ONLY <1>5, <2>1, <2>3
  <2> QED BY <1>1, <1>5, <1>6, <2>3, <2>4
<1>7. CASE from # Filter
  <2>1. PICK st, F : st = stats[from] /\ F = Covered(from)
    OBVIOUS
  <2>2. /\ StatOK(st) /\ Tables(st) = F /\ F \subseteq Nat \ {Center} /\ IsFiniteSet(F)
        /\ T \cap F = {M} \ {Center} /\ Center \notin T /\ Center \notin F
    BY <1>1, <1>2, <1>3, <1>7, <2>1
  <2>3. M = Center \/ M \in F
    BY ONLY <2>2
  <2>4. o2 = WithCenter(st)
    BY <1>1, <1>7, <2>1
  <2>5. OperandOK(o2) /\ Tables(o2) = F \cup {M}
    BY <1>1, <2>2, <2>3, <2>4, OperandFacts
  <2>6. Tables(o1) \cap Tables(o2) = {M}
    BY ONLY <1>5, <2>2, <2>5
  <2>7. (Tables(o1) \cup Tables(o2)) \ {Center} = T \cup F
    BY ONLY <1>4, <1>5, <2>2, <2>3, <2>5
  <2> QED BY <1>1, <1>5, <1>7, <2>1, <2>5, <2>6, <2>7
<1> QED BY <1>6, <1>7

LEMMA LoopStarts ==
    ASSUME NEW s \in Seq(RowBucket)
    PROVE  LoopOK(0, 0, 0, s) /\ Used(0, 0, 0, s) = 0
<1>1. Degrees(s) /\ Len(s) \in Nat
  BY RowBucketFacts
<1>2. 0 \in 0..Len(s)
  BY <1>1
<1>3. CardUpTo(s, 0) = 0
  <2>1. CardUpTo(s, 0) = SumOf(Amounts(s), 1..0)
    BY <1>1, <1>2, UpToFacts
  <2>2. 1..0 = {}
    OBVIOUS
  <2> QED BY <2>1, <2>2, SumEmpty
<1> QED BY <1>2, <1>3 DEF LoopOK, Used

LEMMA BeginMergeKeeps ==
    ASSUME DSInv, BeginMerge
    PROVE  DSInv'
<1>1. /\ pc = "ready" /\ next <= Len(plan.steps) /\ pc' = "loop" /\ loop' = NoLoop
      /\ UNCHANGED <<input, stats, next>> /\ queue' = queue /\ rownum' = rownum
      /\ plan' = plan /\ next' = next
  BY DEF BeginMerge, input
<1>2. /\ plan \in Plans /\ next \in 1..(Len(plan.steps) + 1) /\ queue = <<>>
      /\ \A t \in DOMAIN rownum : rownum[t] \in Nat
  BY <1>1 DEF DSInv, TypeOK, StatsInv
<1>3. next \in DOMAIN plan.steps
  <2>1. Len(plan.steps) \in Nat /\ DOMAIN plan.steps = 1..Len(plan.steps)
    BY <1>2, PlanFacts
  <2> QED BY <1>1, <1>2, <2>1
<1>4. Step' = Step /\ MergeTable' = MergeTable /\ InMerge'
  BY <1>1 DEF Step, MergeTable, InMerge
<1>5. PICK o1, o2, M :
          /\ M = MergeTable /\ o1 = WithCenter(stats[Step.to])
          /\ o2 = IF Step.from = Filter THEN SingleStat(MergeTable)
                  ELSE WithCenter(stats[Step.from])
  OBVIOUS
<1>6. /\ OperandOK(o1) /\ OperandOK(o2) /\ Tables(o1) \cap Tables(o2) = {MergeTable}
      /\ Covered(Step.to) \cup (IF Step.from = Filter THEN {} ELSE Covered(Step.from))
            = (Tables(o1) \cup Tables(o2)) \ {Center}
  BY <1>1, <1>3, <1>5, OperandsFacts
<1>7. stat' = o1 /\ other' = o2 /\ Tables(stat)' = Tables(o1) /\ Tables(other)' = Tables(o2)
  BY <1>5 DEF BeginMerge, Tables
<1>8. PICK T : T = Tables(o1) \cup Tables(o2)
  OBVIOUS
<1>9. /\ new' = [card |-> 0, centralDs |-> NoDegrees, ds |-> [t \in T |-> NoDegrees]]
      /\ edge' = [t \in DOMAIN new'.ds \ {M} |-> NewEdge]
  BY <1>5, <1>7, <1>8 DEF BeginMerge, NewStat, Tables
<1>10. /\ new'.card = 0 /\ new'.centralDs = NoDegrees /\ new'.ds = [t \in T |-> NoDegrees]
       /\ IsStat(new)' /\ Tables(new)' = T /\ \A t \in T : new'.ds[t] = NoDegrees
       /\ edge' = [t \in T \ {M} |-> NewEdge]
  BY <1>9 DEF IsStat, Tables
<1>11. /\ M \in T /\ o1.ds[M] \in Seq(RowBucket) /\ o2.ds[M] \in Seq(RowBucket)
       /\ \A t \in Tables(o1) \ {M} : Finished(o1.ds[t], o1.card)
       /\ \A t \in Tables(o2) \ {M} : Finished(o2.ds[t], o2.card)
  BY <1>5, <1>6, <1>8 DEF OperandOK, EdgeTables
<1>12. /\ loop'.c1 = 0 /\ loop'.p1 = 0 /\ loop'.d1 = 0
       /\ loop'.c2 = 0 /\ loop'.p2 = 0 /\ loop'.d2 = 0
  BY <1>1 DEF NoLoop
<1>13. /\ LoopOK(loop'.c1, loop'.p1, loop'.d1, o1.ds[M])
       /\ LoopOK(loop'.c2, loop'.p2, loop'.d2, o2.ds[M])
       /\ Used(loop'.c1, loop'.p1, loop'.d1, o1.ds[M]) = 0
       /\ Used(loop'.c2, loop'.p2, loop'.d2, o2.ds[M]) = 0
  BY ONLY <1>11, <1>12, LoopStarts
<1>14. ASSUME NEW t \in DOMAIN edge'
       PROVE  EdgeInv(t)'
  <2>1. (EdgeInv(t) <=> EdgeSound(edge[t], OldOf(t), UsedFor(t), Pending(t), DegreeFor(t),
                                  new.ds[t], new.card))'
    BY EdgeInvIs, PTL
  <2>2. t \in T \ {M} /\ edge'[t] = NewEdge /\ new'.ds[t] = NoDegrees
    BY <1>10, <1>14
  <2>3. Pending(t)' = 0
    BY <1>1 DEF Pending
  <2>4. UsedFor(t)' = 0 /\ DegreeFor(t)' = 0
    BY <1>4, <1>5, <1>7, <1>12, <1>13 DEF UsedFor, DegreeFor
  <2>5. PICK s : s = OldOf(t)'
    OBVIOUS
  <2>6. s \in Seq(FinishedBucket)
    BY <1>7, <1>8, <1>11, <2>2, <2>5 DEF OldOf, Finished
  <2>7. EdgeOK(NewEdge, s) /\ ToCome(NewEdge, s) = GetCard(s) /\ GetCard(s) \in Nat
    BY <2>6, EdgeStarts, FinishedFacts
  <2>8. Collecting(NoDegrees) /\ PositiveCounts(NoDegrees) /\ AddedUp(NoDegrees) = 0
    BY NothingAdded DEF Adding
  <2>9. EdgeSound(NewEdge, s, 0, 0, 0, NoDegrees, 0)
    <3>1. NewEdge.curDegree = 0
      BY DEF NewEdge
    <3>2. ToCome(NewEdge, s) = GetCard(s) - 0 + 0
      BY ONLY <2>7
    <3>3. AddedUp(NoDegrees) + NewEdge.curDegree + 0 * 0 = 0
      BY ONLY <2>8, <3>1
    <3> QED BY <2>7, <2>8, <3>2, <3>3 DEF EdgeSound
  <2> QED BY <1>10, <2>1, <2>2, <2>3, <2>4, <2>5, <2>9
<1>15. OperandOK(stat)' /\ OperandOK(other)'
  BY <1>4, <1>6, <1>7 DEF OperandOK, EdgeTables
<1>16. MergeInv'
  <2>1. \A i : Covered(i)' = Covered(i)
    BY <1>1 DEF Covered
  <2>2. /\ LoopOK(loop'.c1, loop'.p1, loop'.d1, stat'.ds[MergeTable'])
        /\ LoopOK(loop'.c2, loop'.p2, loop'.d2, other'.ds[MergeTable'])
    BY <1>4, <1>5, <1>7, <1>13
  <2>3. /\ Collecting(new'.ds[MergeTable']) /\ PositiveDegrees(new'.ds[MergeTable'])
        /\ AddedUp(new'.ds[MergeTable']) = new'.card
    <3>1. new'.ds[MergeTable'] = NoDegrees
      BY <1>4, <1>5, <1>10, <1>11
    <3> QED BY <1>10, <3>1, NothingAdded DEF Adding
  <2>4. DOMAIN edge' = Tables(new)' \ {MergeTable'}
    BY <1>4, <1>5, <1>10
  <2>5. /\ Tables(stat)' \cap Tables(other)' = {MergeTable'}
        /\ Covered(Step.to)' \cup (IF Step'.from = Filter THEN {} ELSE Covered(Step.from)')
            = (Tables(stat)' \cup Tables(other)') \ {Center}
        /\ Tables(new)' = Tables(stat)' \cup Tables(other)'
    BY <1>4, <1>6, <1>7, <1>8, <1>10, <2>1
  <2>6. new'.card \in Nat /\ new'.centralDs = NoDegrees /\ next' \in DOMAIN plan'.steps
    BY <1>1, <1>3, <1>10
  <2>7. pc' = "loop" /\ queue' = <<>>
    BY <1>1, <1>2
  <2> QED BY <1>10, <1>14, <1>15, <2>2, <2>3, <2>4, <2>5, <2>6, <2>7 DEF MergeInv
<1> QED BY <1>1, <1>2, <1>4, <1>16, KeptByMerge

-----------------------------------------------------------------------------
(***************************************************************************)
(* The end of a merge.                                                     *)
(***************************************************************************)
LEMMA CoveredAfter ==
    ASSUME plan \in Plans, next \in DOMAIN plan.steps, plan' = plan, next' = next + 1,
           NEW i \in DOMAIN plan.pieces
    PROVE  Covered(i)' = IF i # Step.to THEN Covered(i)
                         ELSE Covered(i) \cup
                              (IF Step.from = Filter THEN {} ELSE Covered(Step.from))
<1>1. PICK p, n, M, st : p = plan /\ n = next /\ M = Meaning(p)[n - 1] /\ st = p.steps[n]
  OBVIOUS
<1>2. p \in Plans /\ n \in DOMAIN p.steps
  BY <1>1
<1>3. Len(p.steps) \in Nat /\ DOMAIN p.steps = 1..Len(p.steps)
  BY <1>2, PlanFacts
<1>4. n \in 1..Len(p.steps) /\ n - 1 \in 0..Len(p.steps) /\ (n + 1) - 1 = n
  BY <1>2, <1>3
<1>5. M \in Meanings(p) /\ Meaning(p)[n] = AfterStep(M, st)
  BY <1>1, <1>2, <1>4, MeaningFacts
<1>6. \A j : Covered(j) = M[j].tables
  BY <1>1 DEF Covered
<1>7. Covered(i)' = AfterStep(M, st)[i].tables
  BY <1>1, <1>4, <1>5 DEF Covered
<1>8. Step = st /\ i \in DOMAIN M
  BY <1>1, <1>5 DEF Step, Meanings
<1>9. AfterStep(M, st)[i].tables
        = IF i # st.to THEN M[i].tables
          ELSE M[i].tables \cup (IF st.from = Filter THEN {} ELSE M[st.from].tables)
  <2>1. CASE i # st.to
    BY <1>8, <2>1 DEF AfterStep
  <2>2. CASE i = st.to /\ st.from = Filter
    BY <1>8, <2>2 DEF AfterStep
  <2>3. CASE i = st.to /\ st.from # Filter
    BY <1>8, <2>3 DEF AfterStep
  <2> QED BY <2>1, <2>2, <2>3
<1> QED BY <1>6, <1>7, <1>8, <1>9

\* Limiting a finished summary once more, and leaving out the key.
LEMMA TrimmedFacts ==
    ASSUME NEW st, StatOK(st)
    PROVE  /\ StatOK(WithoutCenter(LimitAllDsToCard(st)))
           /\ Tables(WithoutCenter(LimitAllDsToCard(st))) = Tables(st) \ {Center}
<1>1. PICK c, z, d, T : /\ c \in Nat /\ c = st.card /\ z = st.centralDs /\ d = st.ds
                        /\ T = DOMAIN d /\ T = Tables(st)
  BY DEF StatOK, Tables
<1>2. st = [card |-> c, centralDs |-> z, ds |-> d]
  BY <1>1 DEF StatOK, IsStat
<1>3. PICK f : f = [t \in T |-> LimitDsToCard(d[t], c)]
  OBVIOUS
<1>4. PICK l : l = LimitAllDsToCard(st)
  OBVIOUS
<1>5. l = [card |-> c, centralDs |-> z, ds |-> f]
  BY <1>1, <1>2, <1>3, <1>4 DEF LimitAllDsToCard
<1>6. l.ds = f /\ Tables(l) = T /\ DOMAIN f = T
  BY <1>3, <1>5 DEF Tables
<1>7. PICK g : g = [t \in T \ {Center} |-> f[t]]
  OBVIOUS
<1>8. PICK r : r = WithoutCenter(l)
  OBVIOUS
<1>9. r = [card |-> c, centralDs |-> z, ds |-> g]
  BY <1>5, <1>6, <1>7, <1>8 DEF WithoutCenter
<1>10. r.card = c /\ r.centralDs = z /\ r.ds = g /\ Tables(r) = T \ {Center}
  BY <1>7, <1>9 DEF Tables
<1>11. ASSUME NEW t \in T \ {Center} PROVE Finished(g[t], c)
  <2>1. d[t] \in Seq(FinishedBucket) /\ GetCard(d[t]) = c
    BY <1>1 DEF StatOK, Finished
  <2>2. g[t] = LimitDsToCard(d[t], c)
    BY <1>3, <1>7
  <2>3. Degrees(d[t])
    BY <2>1, FinishedDegrees
  <2>4. /\ g[t] \in Seq(FinishedBucket)
        /\ GetCard(g[t]) = IF GetCard(d[t]) <= c THEN GetCard(d[t]) ELSE c
    BY <1>1, <2>1, <2>2, <2>3, LimitFacts
  <2> QED BY <2>1, <2>4 DEF Finished
<1>12. z \in Seq(FinishedBucket) /\ GetCard(z) <= c
  BY <1>1 DEF StatOK
<1>13. StatOK(r)
  BY <1>1, <1>9, <1>10, <1>11, <1>12 DEF StatOK, IsStat
<1> QED BY <1>1, <1>4, <1>8, <1>10, <1>13

\* With the rows that are not complete every table has newCard tuples.
LEMMA ClosingFacts ==
    ASSUME MergeInv, pc = "loop"
    PROVE  StatOK(FinishStat(AddCurDegree(new))) /\ Tables(FinishStat(AddCurDegree(new))) = Tables(new)
<1>1. InMerge
  BY DEF InMerge
<1>2. PICK M, c, d, T : M = MergeTable /\ c = new.card /\ d = new.ds /\ T = Tables(new)
  OBVIOUS
<1>3. /\ T = DOMAIN d /\ c \in Nat /\ DOMAIN edge = T \ {M}
      /\ new = [card |-> c, centralDs |-> NoDegrees, ds |-> d]
      /\ Collecting(d[M]) /\ PositiveDegrees(d[M]) /\ AddedUp(d[M]) = c
  BY <1>1, <1>2 DEF MergeInv, IsStat, Tables
<1>4. PICK f : f = [t \in T |-> IF t = M THEN d[t] ELSE AddDegree(d[t], edge[t].curDegree, 1)]
  OBVIOUS
<1>5. PICK a : a = AddCurDegree(new)
  OBVIOUS
<1>6. a = [card |-> c, centralDs |-> NoDegrees, ds |-> f]
  <2>1. f = [t \in Tables(new) |-> IF t = MergeTable THEN new.ds[t]
                                   ELSE AddDegree(new.ds[t], edge[t].curDegree, 1)]
    BY ONLY <1>2, <1>4
  <2>2. a = [new EXCEPT !.ds = f]
    BY ONLY <1>5, <2>1 DEF AddCurDegree
  <2> QED BY ONLY <1>3, <2>2
<1>7. /\ a.card = c /\ a.centralDs = NoDegrees /\ a.ds = f /\ Tables(a) = T /\ IsStat(a)
  BY <1>4, <1>6 DEF Tables, IsStat
<1>8. Closes(NoDegrees)
  BY NothingAdded DEF Closes
<1>9. ASSUME NEW t \in T PROVE Closes(f[t]) /\ AddedUp(f[t]) >= c
  <2>1. CASE t = M
    BY <1>3, <1>4, <2>1 DEF Closes
  <2>2. CASE t # M
    <3>1. t \in DOMAIN edge
      BY <1>3, <2>2
    <3>2. PICK e : e = edge[t]
      OBVIOUS
    <3>3. EdgeSound(e, OldOf(t), UsedFor(t), Pending(t), DegreeFor(t), d[t], c)
      BY <1>1, <1>2, <3>1, <3>2, EdgeFacts
    <3>4. Pending(t) = 0
      BY DEF Pending
    <3>5. PICK dg \in Nat : dg = DegreeFor(t)
      BY <1>1, <3>1, EdgeFacts
    <3>6. /\ e \in Edge /\ Collecting(d[t]) /\ PositiveCounts(d[t])
          /\ AddedUp(d[t]) + e.curDegree + 0 * dg = c
      BY ONLY <3>3, <3>4, <3>5 DEF EdgeSound, EdgeOK
    <3>7. PICK x \in Nat : x = e.curDegree
      BY <3>6, EdgeFields
    <3>8. f[t] = AddDegree(d[t], x, 1)
      BY <1>4, <2>2, <3>2, <3>7
    <3>9. /\ Collecting(f[t]) /\ PositiveCounts(f[t]) /\ AddedUp(d[t]) \in Nat
          /\ AddedUp(f[t]) = AddedUp(d[t]) + x * 1
      <4>1. PICK one \in Nat : one = 1 /\ one > 0
        OBVIOUS
      <4>2. PICK s, r : s = d[t] /\ r = f[t] /\ r = AddDegree(s, x, one)
        BY ONLY <3>8, <4>1
      <4>3. Collecting(s) /\ PositiveCounts(s)
        BY ONLY <3>6, <4>2
      <4>4. /\ Collecting(r) /\ PositiveCounts(r) /\ AddedUp(s) \in Nat
            /\ AddedUp(r) = AddedUp(s) + x * one
        BY ONLY <4>1, <4>2, <4>3, x \in Nat, one \in Nat, AddDegreeFacts
      <4> QED BY ONLY <4>1, <4>2, <4>4
    <3>10. AddedUp(f[t]) = c
      BY ONLY <3>6, <3>7, <3>9, x \in Nat, dg \in Nat
    <3> QED BY <1>3, <3>9, <3>10 DEF Closes
  <2> QED BY <2>1, <2>2
<1>10. \A t \in Tables(a) : Closes(a.ds[t]) /\ AddedUp(a.ds[t]) >= a.card
  BY <1>7, <1>9
<1>11. StatOK(FinishStat(a)) /\ Tables(FinishStat(a)) = Tables(a)
  BY <1>3, <1>7, <1>8, <1>10, FinishStatFacts
<1> QED BY <1>2, <1>5, <1>7, <1>11

LEMMA EndMergeKeeps ==
    ASSUME DSInv, EndMerge
    PROVE  DSInv' /\ next \in DOMAIN plan.steps
<1>1. /\ MergeInv /\ TypeOK /\ StatsInv /\ pc = "loop" /\ pc' = "ready" /\ next' = next + 1
      /\ plan' = plan /\ db' = db /\ passing' = passing
      /\ UNCHANGED <<stat, other, new, loop, edge, queue, rownum>>
      /\ stats' = [stats EXCEPT ![Step.to] =
                     WithoutCenter(LimitAllDsToCard(FinishStat(AddCurDegree(new))))]
  BY DEF DSInv, EndMerge, input
<1>2. PICK to, r : /\ to = Step.to
                   /\ r = WithoutCenter(LimitAllDsToCard(FinishStat(AddCurDegree(new))))
  OBVIOUS
<1>3. /\ next \in DOMAIN plan.steps /\ queue = <<>> /\ plan \in Plans
      /\ Covered(to) \cup (IF Step.from = Filter THEN {} ELSE Covered(Step.from))
              = Tables(new) \ {Center}
  BY <1>1, <1>2 DEF MergeInv, InMerge, TypeOK
<1>4. StatOK(r) /\ Tables(r) = Tables(new) \ {Center}
  <2>1. PICK f : f = FinishStat(AddCurDegree(new))
    OBVIOUS
  <2>2. StatOK(f) /\ Tables(f) = Tables(new)
    BY <1>1, <2>1, ClosingFacts
  <2> QED BY <1>2, <2>1, <2>2, TrimmedFacts
<1>5. /\ stats = [i \in DOMAIN plan.pieces |-> stats[i]] /\ to \in DOMAIN plan.pieces
      /\ \A i \in DOMAIN stats : Tables(stats[i]) = Covered(i) /\ StatOK(stats[i])
  BY <1>1, <1>2, <1>3, StepFacts DEF StatsInv, TypeOK
<1>6. DOMAIN stats = DOMAIN plan.pieces
  BY <1>5
<1>7. /\ DOMAIN stats' = DOMAIN stats /\ stats'[to] = r
      /\ \A i \in DOMAIN stats \ {to} : stats'[i] = stats[i]
      /\ stats' = [i \in DOMAIN plan.pieces |-> stats'[i]]
  BY <1>1, <1>2, <1>5, <1>6
<1>8. ASSUME NEW i \in DOMAIN stats
      PROVE  StatOK(stats'[i]) /\ Tables(stats'[i]) = Covered(i)'
  <2>1. Covered(i)' = IF i # to THEN Covered(i)
                      ELSE Covered(i) \cup
                           (IF Step.from = Filter THEN {} ELSE Covered(Step.from))
    BY <1>1, <1>2, <1>3, <1>6, CoveredAfter
  <2>2. CASE i = to
    BY <1>3, <1>4, <1>7, <2>1, <2>2
  <2>3. CASE i # to
    BY <1>5, <1>7, <2>1, <2>3
  <2> QED BY <2>2, <2>3
<1>9. next' \in 1..(Len(plan.steps) + 1)
  <2>1. Len(plan.steps) \in Nat /\ DOMAIN plan.steps = 1..Len(plan.steps)
    BY <1>3, PlanFacts
  <2> QED BY <1>1, <1>3, <2>1
<1>10. \A i \in DOMAIN stats' : \A t \in Covered(i)' : stats'[i].ds[t] \in Seq(FinishedBucket)
  BY <1>7, <1>8 DEF StatOK, Finished
<1>11. TypeOK'
  <2>1. /\ plan' \in Plans /\ db' \in [Cells(plan') -> plan'.mult]
        /\ passing' \in [Cells(plan') -> Nat] /\ Tables(new)' = Tables(new)
        /\ \A t \in Tables(new)' : new'.ds[t] \in Seq(Bucket)
        /\ \A t \in DOMAIN edge' : edge'[t] \in Edge
        /\ \A t \in DOMAIN rownum' : rownum'[t] \in Nat
    BY <1>1 DEF TypeOK, Tables
  <2>2. \A i \in DOMAIN stats' : Tables(stats'[i]) = Covered(i)'
    BY <1>7, <1>8
  <2> QED BY <1>1, <1>9, <1>10, <2>1, <2>2 DEF TypeOK, Tables
<1>12. StatsInv'
  BY <1>1, <1>3, <1>7, <1>8 DEF StatsInv
<1>13. MergeInv'
  BY <1>1 DEF MergeInv, InMerge
<1> QED BY <1>3, <1>11, <1>12, <1>13 DEF DSInv

LEMMA CollectStatisticsKeeps ==
    ASSUME DSInv, CollectStatistics
    PROVE  DSInv' /\ next = 1
<1>1. /\ TypeOK /\ StatsInv /\ pc = "collect" /\ pc' = "ready" /\ next' = next
      /\ plan' = plan /\ db' = db /\ passing' = passing
      /\ UNCHANGED <<stat, other, new, loop, edge, queue, rownum>>
      /\ stats' = [i \in DOMAIN plan.pieces |-> CollectPiece(plan.pieces[i])]
  BY DEF DSInv, CollectStatistics, input
<1>2. plan \in Plans /\ DBOK /\ next = 1 /\ queue = <<>>
  BY <1>1 DEF TypeOK, StatsInv, DBOK
<1>3. \A i \in DOMAIN plan.pieces : Covered(i)' = plan.pieces[i].tables
  <2>1. Meaning(plan)[0] = [i \in DOMAIN plan.pieces |->
                               [tables |-> plan.pieces[i].tables, filters |-> {}]]
    BY <1>2, MeaningFacts
  <2>2. next' - 1 = 0
    BY <1>1, <1>2
  <2> QED BY <1>1, <2>1, <2>2 DEF Covered
<1>4. ASSUME NEW i \in DOMAIN plan.pieces
      PROVE  StatOK(stats'[i]) /\ Tables(stats'[i]) = Covered(i)'
  <2>1. PICK piece : piece = plan.pieces[i]
    OBVIOUS
  <2>2. Star(plan, piece)
    BY <1>2, <2>1, PlanFacts
  <2>3. StatOK(CollectPiece(piece)) /\ Tables(CollectPiece(piece)) = piece.tables
    BY <1>2, <2>2, CollectPieceFacts
  <2> QED BY <1>1, <1>3, <2>1, <2>3
<1>5. DOMAIN stats' = DOMAIN plan.pieces /\ stats' = [i \in DOMAIN plan.pieces |-> stats'[i]]
  BY <1>1
<1>6. \A i \in DOMAIN stats' : \A t \in Covered(i)' : stats'[i].ds[t] \in Seq(FinishedBucket)
  BY <1>4, <1>5 DEF StatOK, Finished
<1>7. TypeOK'
  <2>1. /\ plan' \in Plans /\ db' \in [Cells(plan') -> plan'.mult]
        /\ passing' \in [Cells(plan') -> Nat] /\ Tables(new)' = Tables(new)
        /\ \A t \in Tables(new)' : new'.ds[t] \in Seq(Bucket)
        /\ \A t \in DOMAIN edge' : edge'[t] \in Edge
        /\ \A t \in DOMAIN rownum' : rownum'[t] \in Nat
        /\ next' \in 1..(Len(plan'.steps) + 1)
    BY <1>1 DEF TypeOK, Tables
  <2>2. \A i \in DOMAIN stats' : Tables(stats'[i]) = Covered(i)'
    BY <1>4, <1>5
  <2> QED BY <1>1, <1>6, <2>1, <2>2 DEF TypeOK, Tables
<1>8. StatsInv'
  BY <1>1, <1>2, <1>4, <1>5 DEF StatsInv
<1>9. MergeInv'
  BY <1>1 DEF MergeInv, InMerge
<1> QED BY <1>2, <1>7, <1>8, <1>9 DEF DSInv

LEMMA InitInv ==
    ASSUME Init
    PROVE  DSInv
<1>1. /\ plan \in Plans /\ db \in [Cells(plan) -> plan.mult] /\ next = 1 /\ pc = "collect"
      /\ stats = [i \in DOMAIN plan.pieces |-> NewStat(plan.pieces[i].tables)]
      /\ new = NewStat({}) /\ edge = <<>> /\ queue = <<>> /\ rownum = <<>>
  BY DEF Init
<1>2. /\ plan.mult \subseteq Nat /\ Len(plan.steps) \in Nat
      /\ Meaning(plan)[0] = [i \in DOMAIN plan.pieces |->
                                [tables |-> plan.pieces[i].tables, filters |-> {}]]
  BY <1>1, PlanFacts, MeaningFacts
<1>3. passing \in [Cells(plan) -> Nat]
  <2>1. PICK f \in [FilteredCells(plan) -> 0..Max(plan.mult)] :
            passing = [c \in Cells(plan) |-> IF c \in DOMAIN f THEN f[c] ELSE db[c]]
    BY DEF Init
  <2>2. ASSUME NEW c \in Cells(plan) PROVE (IF c \in DOMAIN f THEN f[c] ELSE db[c]) \in Nat
    <3>1. c \in DOMAIN f => f[c] \in 0..Max(plan.mult)
      OBVIOUS
    <3>2. db[c] \in Nat
      BY <1>1, <1>2
    <3> QED BY <3>1, <3>2
  <2> QED BY <2>1, <2>2
<1>4. next - 1 = 0 /\ next \in 1..(Len(plan.steps) + 1)
  BY <1>1, <1>2
<1>5. \A i \in DOMAIN stats : Covered(i) = plan.pieces[i].tables
  BY <1>1, <1>2, <1>4 DEF Covered
<1>6. \A T : /\ Tables(NewStat(T)) = T
             /\ \A t \in T : NewStat(T).ds[t] = NoDegrees
  BY DEF Tables, NewStat
<1>7. \A i \in DOMAIN stats : /\ Tables(stats[i]) = Covered(i)
                              /\ \A t \in Covered(i) : stats[i].ds[t] \in Seq(FinishedBucket)
  <2> TAKE i \in DOMAIN stats
  <2>1. PICK T : T = plan.pieces[i].tables
    OBVIOUS
  <2>2. stats[i] = NewStat(T) /\ Covered(i) = T
    BY <1>1, <1>5, <2>1
  <2> QED BY <1>6, <2>2, CardOfNone
<1>8. Tables(new) = {} /\ DOMAIN edge = {} /\ DOMAIN rownum = {}
  <2>1. Tables(new) = {}
    BY ONLY <1>1, <1>6
  <2>2. \A q : q = <<>> => DOMAIN q = {}
    OBVIOUS
  <2> QED BY ONLY <1>1, <2>1, <2>2
<1>9. TypeOK
  BY <1>1, <1>3, <1>4, <1>7, <1>8 DEF TypeOK
<1>10. StatsInv
  BY <1>1 DEF StatsInv
<1>11. MergeInv
  BY <1>1 DEF MergeInv, InMerge
<1> QED BY <1>9, <1>10, <1>11 DEF DSInv

LEMMA StutterInv ==
    ASSUME DSInv, UNCHANGED vars
    PROVE  DSInv'
<1>1. /\ plan' = plan /\ db' = db /\ passing' = passing /\ next' = next /\ pc' = pc
      /\ stats' = stats /\ stat' = stat /\ other' = other /\ new' = new /\ loop' = loop
      /\ edge' = edge /\ queue' = queue /\ rownum' = rownum
  BY DEF vars, input
<1>2. \A i : Covered(i)' = Covered(i)
  BY <1>1 DEF Covered
<1>3. TypeOK'
  BY <1>1, <1>2 DEF DSInv, TypeOK, Tables
<1>4. StatsInv'
  BY <1>1 DEF DSInv, StatsInv
<1>5. InMerge' = InMerge /\ Step' = Step /\ MergeTable' = MergeTable
  BY <1>1 DEF InMerge, Step, MergeTable
<1>6. \A t : EdgeInv(t)' <=> EdgeInv(t)
  BY <1>1, <1>5 DEF EdgeInv, OldOf, UsedFor, DegreeFor, Pending, Used, Tables
<1>7. (OperandOK(stat)' <=> OperandOK(stat)) /\ (OperandOK(other)' <=> OperandOK(other))
  BY <1>1, <1>5 DEF OperandOK, EdgeTables, Tables
<1>8. MergeInv'
  BY <1>1, <1>2, <1>5, <1>6, <1>7 DEF DSInv, MergeInv, Tables
<1> QED BY <1>3, <1>4, <1>8 DEF DSInv

LEMMA StepInv ==
    ASSUME DSInv, [Next]_vars
    PROVE  DSInv'
<1>1. CASE CollectStatistics
  BY <1>1, CollectStatisticsKeeps
<1>2. CASE BeginMerge
  BY <1>2, BeginMergeKeeps
<1>3. CASE Iterate
  BY <1>3, IterateKeeps
<1>4. CASE EndMerge
  BY <1>4, EndMergeKeeps
<1>5. CASE EdgesDone
  BY <1>5, EdgesDoneKeeps
<1>6. CASE BeyondBuckets
  BY <1>6, BeyondBucketsKeeps
<1>7. CASE CompleteRow
  BY <1>7, CompleteRowKeeps
<1>8. CASE ExtendRow
  BY <1>8, ExtendRowKeeps
<1>9. CASE TakeBucket
  BY <1>9, TakeBucketKeeps
<1>10. CASE PartOfBucket
  BY <1>10, PartOfBucketKeeps
<1>11. CASE Terminated
  BY <1>11, StutterInv DEF Terminated
<1>12. CASE UNCHANGED vars
  BY <1>12, StutterInv
<1> QED BY <1>1, <1>2, <1>3, <1>4, <1>5, <1>6, <1>7, <1>8, <1>9, <1>10, <1>11, <1>12 DEF Next

-----------------------------------------------------------------------------
(***************************************************************************)
(* The inductive invariant holds: what is kept between two merges adds up  *)
(* to its card, and within a merge every table has been given the tuples   *)
(* the merge table has, so that its buckets never run out.                 *)
(***************************************************************************)
THEOREM Invariant == Spec => []DSInv
<1>1. Init => DSInv
  BY InitInv
<1>2. DSInv /\ [Next]_vars => DSInv'
  BY StepInv
<1> QED BY <1>1, <1>2, PTL DEF Spec

(***************************************************************************)
(* Summaries outside Merge are finished and over the tables merged so far; *)
(* position, curDegree, remainRow and remainCount of                       *)
(* MergeEdgeDegreeSequences never become negative, whatever the database,  *)
(* the plan, its values and CompressPrecision.                             *)
(***************************************************************************)
THEOREM TypeCorrect == Spec => []TypeOK
<1>1. DSInv => TypeOK
  BY DEF DSInv
<1> QED BY <1>1, Invariant, PTL

LEMMA FreshStats ==
    ASSUME DSInv
    PROVE  /\ Fresh \subseteq DOMAIN stats
           /\ \A i \in Fresh : StatOK(stats[i]) /\ Tables(stats[i]) = Covered(i)
<1>1. CASE pc # "ready"
  BY <1>1 DEF Fresh
<1>2. CASE pc = "ready"
  <2>1. /\ plan \in Plans /\ next \in 1..(Len(plan.steps) + 1) /\ DOMAIN stats = DOMAIN plan.pieces
        /\ \A i \in DOMAIN stats : StatOK(stats[i]) /\ Tables(stats[i]) = Covered(i)
    BY <1>2 DEF DSInv, TypeOK, StatsInv
  <2>2. CASE next = 1
    BY <1>2, <2>1, <2>2 DEF Fresh
  <2>3. CASE next # 1
    <3>1. Len(plan.steps) \in Nat /\ DOMAIN plan.steps = 1..Len(plan.steps)
      BY <2>1, PlanFacts
    <3>2. next - 1 \in DOMAIN plan.steps
      BY <2>1, <2>3, <3>1
    <3>3. plan.steps[next - 1].to \in DOMAIN plan.pieces
      BY <2>1, <3>2, PlanFacts DEF Mergeable
    <3> QED BY <1>2, <2>1, <2>3, <3>3 DEF Fresh
  <2> QED BY <2>2, <2>3
<1> QED BY <1>1, <1>2

(***************************************************************************)
(* The sequences of a collected or merged summary all add up to its card,  *)
(* in spite of the rounding up of FinishCollection, of the cuts of         *)
(* LimitDsToCard and of the rows Merge leaves incomplete.                  *)
(***************************************************************************)
THEOREM SumsCorrect == Spec => []SumsToCard
<1>1. DSInv => SumsToCard
  <2> SUFFICES ASSUME DSInv, NEW i \in Fresh, NEW t \in Covered(i)
               PROVE  GetCard(stats[i].ds[t]) = stats[i].card
    BY DEF SumsToCard
  <2>1. StatOK(stats[i]) /\ t \in Tables(stats[i])
    BY FreshStats
  <2> QED BY <2>1 DEF StatOK, Finished
<1> QED BY <1>1, Invariant, PTL

LEMMA TableRowsNat ==
    ASSUME DBOK, NEW t \in DOMAIN plan.cols
    PROVE  TableRows(t) \in Nat
<1>1. PICK R : R = Rows(plan, t)
  OBVIOUS
<1>2. IsFiniteSet(R)
  BY <1>1, PlanFacts DEF DBOK
<1>3. ASSUME NEW r \in R PROVE db[<<t, r>>] \in Nat
  <2>1. <<t, r>> \in Cells(plan)
    BY <1>1 DEF Cells
  <2>2. plan.mult \subseteq Nat
    BY PlanFacts DEF DBOK
  <2> QED BY <2>1, <2>2 DEF DBOK
<1>4. RowTotal(db, t, R) \in Nat
  BY <1>2, <1>3, RowsSum
<1>5. TableRows(t) = RowTotal(db, t, R)
  BY <1>1 DEF TableRows, RowTotal
<1> QED BY <1>4, <1>5

LEMMA CollectedStats ==
    ASSUME DSInv, NEW i \in Collected, NEW t \in Covered(i)
    PROVE  /\ stats[i].ds[t] \in Seq(FinishedBucket) /\ stats[i].card \in Nat
           /\ GetCard(stats[i].ds[t]) = stats[i].card
           /\ TableRows(t) \in Nat
<1>1. i \in DOMAIN stats /\ pc = "ready"
  BY DEF Collected
<1>2. /\ DBOK /\ DOMAIN stats = DOMAIN plan.pieces /\ next \in 1..(Len(plan.steps) + 1)
      /\ StatOK(stats[i]) /\ Tables(stats[i]) = Covered(i)
  BY <1>1 DEF DSInv, TypeOK, StatsInv, DBOK
<1>3. Finished(stats[i].ds[t], stats[i].card) /\ stats[i].card \in Nat
  BY <1>2 DEF StatOK
<1>4. t \in DOMAIN plan.cols
  <2>1. Len(plan.steps) \in Nat
    BY <1>2, PlanFacts DEF DBOK
  <2>2. next - 1 \in 0..Len(plan.steps)
    BY <1>2, <2>1
  <2>3. Meaning(plan)[next - 1] \in Meanings(plan)
    BY <1>2, <2>2, MeaningFacts DEF DBOK
  <2> QED BY <1>1, <1>2, <2>3 DEF Meanings, Covered
<1> QED BY <1>2, <1>3, <1>4, TableRowsNat DEF Finished

(***************************************************************************)
(* AdjustToAverage neither adds nor loses tuples of a collected summary,   *)
(* at any rate and for every number of rows of the table it is given.      *)
(***************************************************************************)
THEOREM AverageCorrect == Spec => []AverageKeepsCard
<1>1. DSInv => AverageKeepsCard
  <2> SUFFICES ASSUME DSInv, NEW i \in Collected, NEW t \in Covered(i), NEW k \in Rates,
                      NEW ndv \in 1..(TableRows(t) + 1)
               PROVE  GetCard(AdjustToAverage(stats[i].ds[t], stats[i].card, ndv, k))
                        = stats[i].card * Unit(ndv)
    BY DEF AverageKeepsCard
  <2>1. PICK s, c : s = stats[i].ds[t] /\ c = stats[i].card
    OBVIOUS
  <2>2. s \in Seq(FinishedBucket) /\ GetCard(s) = c /\ TableRows(t) \in Nat
    BY <2>1, CollectedStats
  <2>3. ndv \in Nat /\ k \in 0..RateDen /\ Degrees(s)
    BY <2>2, FinishedDegrees DEF Rates
  <2>4. GetCard(AdjustToAverage(s, GetCard(s), ndv, k)) = GetCard(s) * Unit(ndv)
    BY <2>3, AverageSum
  <2> QED BY <2>1, <2>2, <2>4
<1> QED BY <1>1, Invariant, PTL

-----------------------------------------------------------------------------
(***************************************************************************)
(* The loops end: what every step brings down.                             *)
(***************************************************************************)
LEMMA Lexicographic ==
    ASSUME NEW a1, NEW a2, NEW a3, NEW a4, NEW a5, NEW a6,
           NEW b1, NEW b2, NEW b3, NEW b4, NEW b5, NEW b6,
           \/ 0 <= a1 /\ a1 < b1
           \/ a1 = b1 /\ 0 <= a2 /\ a2 < b2
           \/ a1 = b1 /\ a2 = b2 /\ 0 <= a3 /\ a3 < b3
           \/ a1 = b1 /\ a2 = b2 /\ a3 = b3 /\ 0 <= a4 /\ a4 < b4
           \/ a1 = b1 /\ a2 = b2 /\ a3 = b3 /\ a4 = b4 /\ 0 <= a5 /\ a5 < b5
           \/ a1 = b1 /\ a2 = b2 /\ a3 = b3 /\ a4 = b4 /\ a5 = b5 /\ 0 <= a6 /\ a6 < b6
    PROVE  Below(<<a1, a2, a3, a4, a5, a6>>, <<b1, b2, b3, b4, b5, b6>>)
<1>1. PICK w, u : w = <<a1, a2, a3, a4, a5, a6>> /\ u = <<b1, b2, b3, b4, b5, b6>>
  OBVIOUS
<1>2. /\ w[1] = a1 /\ w[2] = a2 /\ w[3] = a3 /\ w[4] = a4 /\ w[5] = a5 /\ w[6] = a6
      /\ u[1] = b1 /\ u[2] = b2 /\ u[3] = b3 /\ u[4] = b4 /\ u[5] = b5 /\ u[6] = b6
      /\ DOMAIN u = 1..6
  BY <1>1
<1>3. SUFFICES \E i \in 1..6 : /\ 0 <= w[i] /\ w[i] < u[i]
                              /\ \A j \in 1..(i - 1) : w[j] = u[j]
  BY ONLY <1>1, <1>2, <1>3 DEF Below
<1>4. /\ \A j \in 1..(1 - 1) : FALSE
      /\ \A j \in 1..(2 - 1) : j = 1
      /\ \A j \in 1..(3 - 1) : j = 1 \/ j = 2
      /\ \A j \in 1..(4 - 1) : j = 1 \/ j = 2 \/ j = 3
      /\ \A j \in 1..(5 - 1) : j = 1 \/ j = 2 \/ j = 3 \/ j = 4
      /\ \A j \in 1..(6 - 1) : j = 1 \/ j = 2 \/ j = 3 \/ j = 4 \/ j = 5
  OBVIOUS
<1>5. 1 \in 1..6 /\ 2 \in 1..6 /\ 3 \in 1..6 /\ 4 \in 1..6 /\ 5 \in 1..6 /\ 6 \in 1..6
  OBVIOUS
<1>6. CASE 0 <= a1 /\ a1 < b1
  BY ONLY <1>2, <1>4, <1>5, <1>6
<1>7. CASE a1 = b1 /\ 0 <= a2 /\ a2 < b2
  BY ONLY <1>2, <1>4, <1>5, <1>7
<1>8. CASE a1 = b1 /\ a2 = b2 /\ 0 <= a3 /\ a3 < b3
  BY ONLY <1>2, <1>4, <1>5, <1>8
<1>9. CASE a1 = b1 /\ a2 = b2 /\ a3 = b3 /\ 0 <= a4 /\ a4 < b4
  BY ONLY <1>2, <1>4, <1>5, <1>9
<1>10. CASE a1 = b1 /\ a2 = b2 /\ a3 = b3 /\ a4 = b4 /\ 0 <= a5 /\ a5 < b5
  BY ONLY <1>2, <1>4, <1>5, <1>10
<1>11. CASE a1 = b1 /\ a2 = b2 /\ a3 = b3 /\ a4 = b4 /\ a5 = b5 /\ 0 <= a6 /\ a6 < b6
  BY ONLY <1>2, <1>4, <1>5, <1>11
<1> QED BY <1>6, <1>7, <1>8, <1>9, <1>10, <1>11

\* The parts of WorkLeft.
ToCollect == If(pc = "collect")
StepsLeft == 2 * (Len(plan.steps) + 1 - next) + If(pc = "ready")
LoopLeft == IF pc \in {"collect", "ready"} THEN 0
            ELSE RowsLeft(loop.c1, loop.p1, stat.ds[MergeTable])
                 + RowsLeft(loop.c2, loop.p2, other.ds[MergeTable])
PlaceLeft ==
    IF queue = <<>> THEN 0
    ELSE 2 * (Len(OldDs) + 1 - edge[Current].pos) + If(edge[Current].remainRow > 0)
InEdges == If(pc = "edges")

Shrinks ==
    \/ 0 <= ToCollect' /\ ToCollect' < ToCollect
    \/ ToCollect' = ToCollect /\ 0 <= StepsLeft' /\ StepsLeft' < StepsLeft
    \/ ToCollect' = ToCollect /\ StepsLeft' = StepsLeft /\ 0 <= LoopLeft' /\ LoopLeft' < LoopLeft
    \/ ToCollect' = ToCollect /\ StepsLeft' = StepsLeft /\ LoopLeft' = LoopLeft
       /\ 0 <= Len(queue)' /\ Len(queue)' < Len(queue)
    \/ ToCollect' = ToCollect /\ StepsLeft' = StepsLeft /\ LoopLeft' = LoopLeft
       /\ Len(queue)' = Len(queue) /\ 0 <= PlaceLeft' /\ PlaceLeft' < PlaceLeft
    \/ ToCollect' = ToCollect /\ StepsLeft' = StepsLeft /\ LoopLeft' = LoopLeft
       /\ Len(queue)' = Len(queue) /\ PlaceLeft' = PlaceLeft
       /\ 0 <= InEdges' /\ InEdges' < InEdges

LEMMA WorkIs ==
    WorkLeft = <<ToCollect, StepsLeft, LoopLeft, Len(queue), PlaceLeft, InEdges>>
BY DEF WorkLeft, ToCollect, StepsLeft, LoopLeft, PlaceLeft, InEdges

LEMMA ShrinksIsBelow ==
    ASSUME Shrinks
    PROVE  Below(WorkLeft', WorkLeft)
<1>1. WorkLeft' = <<ToCollect', StepsLeft', LoopLeft', Len(queue)', PlaceLeft', InEdges'>>
  BY DEF WorkLeft, ToCollect, StepsLeft, LoopLeft, PlaceLeft, InEdges
<1>2. PICK a1, a2, a3, a4, a5, a6 :
          /\ a1 = ToCollect' /\ a2 = StepsLeft' /\ a3 = LoopLeft' /\ a4 = Len(queue)'
          /\ a5 = PlaceLeft' /\ a6 = InEdges'
  OBVIOUS
<1>3. PICK b1, b2, b3, b4, b5, b6 :
          /\ b1 = ToCollect /\ b2 = StepsLeft /\ b3 = LoopLeft /\ b4 = Len(queue)
          /\ b5 = PlaceLeft /\ b6 = InEdges
  OBVIOUS
<1>4. \/ 0 <= a1 /\ a1 < b1
      \/ a1 = b1 /\ 0 <= a2 /\ a2 < b2
      \/ a1 = b1 /\ a2 = b2 /\ 0 <= a3 /\ a3 < b3
      \/ a1 = b1 /\ a2 = b2 /\ a3 = b3 /\ 0 <= a4 /\ a4 < b4
      \/ a1 = b1 /\ a2 = b2 /\ a3 = b3 /\ a4 = b4 /\ 0 <= a5 /\ a5 < b5
      \/ a1 = b1 /\ a2 = b2 /\ a3 = b3 /\ a4 = b4 /\ a5 = b5 /\ 0 <= a6 /\ a6 < b6
  BY <1>2, <1>3 DEF Shrinks
<1>5. Below(<<a1, a2, a3, a4, a5, a6>>, <<b1, b2, b3, b4, b5, b6>>)
  BY ONLY <1>4, Lexicographic
<1>6. WorkLeft = <<b1, b2, b3, b4, b5, b6>> /\ WorkLeft' = <<a1, a2, a3, a4, a5, a6>>
  BY <1>1, <1>2, <1>3, WorkIs
<1> QED BY <1>5, <1>6

LEMMA CollectShrinks ==
    ASSUME DSInv, CollectStatistics
    PROVE  Shrinks
BY DEF CollectStatistics, Shrinks, ToCollect, If

LEMMA BetweenShrinks ==
    ASSUME DSInv, BeginMerge \/ EndMerge
    PROVE  Shrinks
<1>1. PICK L : L = Len(plan.steps)
  OBVIOUS
<1>2. L \in Nat /\ next \in 1..(L + 1) /\ DOMAIN plan.steps = 1..L
  BY <1>1, PlanFacts DEF DSInv, TypeOK
<1>3. CASE BeginMerge
  <2>1. pc = "ready" /\ pc' = "loop" /\ plan' = plan /\ next' = next
    BY <1>3 DEF BeginMerge, input
  <2>2. StepsLeft = 2 * (L + 1 - next) + 1 /\ StepsLeft' = 2 * (L + 1 - next) + 0
    BY <1>1, <2>1 DEF StepsLeft, If
  <2>3. ToCollect' = ToCollect
    BY <2>1 DEF ToCollect, If
  <2>4. 0 <= StepsLeft' /\ StepsLeft' < StepsLeft
    BY ONLY <1>2, <2>2
  <2> QED BY <2>3, <2>4 DEF Shrinks
<1>4. CASE EndMerge
  <2>1. pc = "loop" /\ pc' = "ready" /\ plan' = plan /\ next' = next + 1
    BY <1>4 DEF EndMerge, input
  <2>2. next \in DOMAIN plan.steps
    BY <1>4, EndMergeKeeps
  <2>3. StepsLeft = 2 * (L + 1 - next) + 0 /\ StepsLeft' = 2 * (L + 1 - (next + 1)) + 1
    BY <1>1, <2>1 DEF StepsLeft, If
  <2>4. ToCollect' = ToCollect
    BY <2>1 DEF ToCollect, If
  <2>5. 0 <= StepsLeft' /\ StepsLeft' < StepsLeft
    BY ONLY <1>2, <2>2, <2>3
  <2> QED BY <2>4, <2>5 DEF Shrinks
<1> QED BY <1>3, <1>4

LEMMA IterateShrinks ==
    ASSUME DSInv, Iterate
    PROVE  Shrinks
<1>1. pc = "loop" /\ pc' = "edges" /\ plan' = plan /\ next' = next /\ stat' = stat /\ other' = other
  BY DEF Iterate, input
<1>2. ToCollect' = ToCollect /\ StepsLeft' = StepsLeft
  BY <1>1 DEF ToCollect, StepsLeft, If
<1>3. MergeTable' = MergeTable
  BY <1>1 DEF MergeTable, Step
<1>4. PICK n \in Nat, a \in Nat \ {0}, b \in Nat \ {0} : Matched(n, a, b)
  BY IterateFacts DEF DSInv
<1>5. PICK s1, s2 : s1 = stat.ds[MergeTable] /\ s2 = other.ds[MergeTable]
  OBVIOUS
<1>6. /\ RowsLeft(loop'.c1, loop'.p1, s1) + RowsLeft(loop'.c2, loop'.p2, s2)
            < RowsLeft(loop.c1, loop.p1, s1) + RowsLeft(loop.c2, loop.p2, s2)
      /\ RowsLeft(loop'.c1, loop'.p1, s1) \in Nat /\ RowsLeft(loop'.c2, loop'.p2, s2) \in Nat
  BY ONLY <1>4, <1>5 DEF Matched
<1>7. /\ LoopLeft = RowsLeft(loop.c1, loop.p1, s1) + RowsLeft(loop.c2, loop.p2, s2)
      /\ LoopLeft' = RowsLeft(loop'.c1, loop'.p1, s1) + RowsLeft(loop'.c2, loop'.p2, s2)
  BY <1>1, <1>3, <1>5 DEF LoopLeft
<1>8. 0 <= LoopLeft' /\ LoopLeft' < LoopLeft
  BY ONLY <1>6, <1>7
<1> QED BY <1>2, <1>8 DEF Shrinks

\* The steps within MergeEdgeDegreeSequences leave the outer loop alone.
LEMMA OuterKept ==
    ASSUME Frame
    PROVE  ToCollect' = ToCollect /\ StepsLeft' = StepsLeft /\ LoopLeft' = LoopLeft
<1>1. /\ plan' = plan /\ next' = next /\ pc' = pc /\ stat' = stat /\ other' = other
      /\ loop' = loop
  BY DEF Frame, input
<1>2. MergeTable' = MergeTable
  BY <1>1 DEF MergeTable, Step
<1> QED BY <1>1, <1>2 DEF ToCollect, StepsLeft, LoopLeft, If

LEMMA LeavingShrinks ==
    ASSUME DSInv, ExtendRow \/ PartOfBucket \/ BeyondBuckets
    PROVE  Shrinks
<1>1. Frame /\ Visiting /\ queue' = Tail(queue)
  BY ExtendRowKeeps, PartOfBucketKeeps, BeyondBucketsKeeps
     DEF ExtendRow, PartOfBucket, BeyondBuckets, AtBucket
<1>2. queue \in Seq(DOMAIN edge) /\ queue # <<>> /\ IsInjective(queue)
  BY <1>1, CurrentFacts DEF DSInv
<1>3. Len(queue) \in Nat /\ Len(queue) > 0 /\ Len(queue') = Len(queue) - 1
  BY <1>1, <1>2, TailOfInjective
<1>4. 0 <= Len(queue)' /\ Len(queue)' < Len(queue)
  BY ONLY <1>3
<1> QED BY <1>1, <1>4, OuterKept DEF Shrinks

LEMMA StayingShrinks ==
    ASSUME DSInv, CompleteRow \/ TakeBucket
    PROVE  Shrinks
<1>1. /\ Frame /\ AtBucket /\ Visiting /\ queue' = queue
  BY CompleteRowKeeps, TakeBucketKeeps DEF CompleteRow, TakeBucket, AtBucket
<1>2. PICK c, L, p, q : /\ c = Current /\ L = Len(OldDs) /\ p = edge[c].pos /\ q = edge'[c].pos
  OBVIOUS
<1>3. Current' = c /\ OldDs' = OldDs /\ queue # <<>> /\ stat' = stat /\ other' = other
  BY <1>1, <1>2 DEF Current, OldDs, Frame, Visiting, Tables
<1>4. L \in Nat /\ p \in Nat /\ p > 0 /\ p <= L
  BY <1>1, <1>2, CurrentFacts, PlaceNow, EdgeFields, FinishedFacts DEF AtBucket, DSInv
<1>5. PlaceLeft = 2 * (L + 1 - p) + If(edge[c].remainRow > 0)
  BY <1>2, <1>3 DEF PlaceLeft
<1>6. PlaceLeft' = 2 * (L + 1 - q) + If(edge'[c].remainRow > 0)
  BY <1>1, <1>2, <1>3 DEF PlaceLeft
<1>7. CASE CompleteRow
  <2>1. edge[c].remainRow > 0 /\ edge'[c].remainRow = 0 /\ (q = p \/ q = p + 1)
    BY <1>2, <1>7, CompleteRowKeeps DEF CompleteRow
  <2>2. If(edge[c].remainRow > 0) = 1 /\ If(edge'[c].remainRow > 0) = 0
    BY <2>1 DEF If
  <2> QED BY ONLY <1>4, <1>5, <1>6, <2>1, <2>2, <1>1, OuterKept DEF Shrinks
<1>8. CASE TakeBucket
  <2>1. edge[c].remainRow = 0 /\ edge'[c].remainRow = 0 /\ q = p + 1
    BY <1>2, <1>8, TakeBucketKeeps
  <2>2. If(edge[c].remainRow > 0) = 0 /\ If(edge'[c].remainRow > 0) = 0
    BY <2>1 DEF If
  <2> QED BY ONLY <1>4, <1>5, <1>6, <2>1, <2>2, <1>1, OuterKept DEF Shrinks
<1> QED BY <1>7, <1>8

LEMMA EdgesDoneShrinks ==
    ASSUME DSInv, EdgesDone
    PROVE  Shrinks
<1>1. /\ pc = "edges" /\ pc' = "loop" /\ queue = <<>> /\ queue' = queue
      /\ plan' = plan /\ next' = next /\ stat' = stat /\ other' = other /\ loop' = loop
  BY DEF EdgesDone, input
<1>2. MergeTable' = MergeTable
  BY <1>1 DEF MergeTable, Step
<1>3. ToCollect' = ToCollect /\ StepsLeft' = StepsLeft /\ LoopLeft' = LoopLeft
  BY <1>1, <1>2 DEF ToCollect, StepsLeft, LoopLeft, If
<1>4. Len(queue)' = Len(queue) /\ PlaceLeft' = PlaceLeft
  BY <1>1 DEF PlaceLeft
<1>5. 0 <= InEdges' /\ InEdges' < InEdges
  BY <1>1 DEF InEdges, If
<1> QED BY <1>3, <1>4, <1>5 DEF Shrinks

(***************************************************************************)
(* The while (true) of Merge and the for of MergeEdgeDegreeSequences end:  *)
(* every step of every behaviour brings the work left down, although the   *)
(* index of the inner loop does not move in every pass and buckets of a    *)
(* filter nothing passes are without rows.                                 *)
(***************************************************************************)
THEOREM WorkDone == Spec => WorkShrinks
<1>1. DSInv /\ [Next]_vars => [Below(WorkLeft', WorkLeft)]_vars
  <2> SUFFICES ASSUME DSInv, Next, ~UNCHANGED vars
               PROVE  Below(WorkLeft', WorkLeft)
    OBVIOUS
  <2>1. CASE CollectStatistics
    BY <2>1, CollectShrinks, ShrinksIsBelow
  <2>2. CASE BeginMerge \/ EndMerge
    BY <2>2, BetweenShrinks, ShrinksIsBelow
  <2>3. CASE Iterate
    BY <2>3, IterateShrinks, ShrinksIsBelow
  <2>4. CASE EdgesDone
    BY <2>4, EdgesDoneShrinks, ShrinksIsBelow
  <2>5. CASE ExtendRow \/ PartOfBucket \/ BeyondBuckets
    BY <2>5, LeavingShrinks, ShrinksIsBelow
  <2>6. CASE CompleteRow \/ TakeBucket
    BY <2>6, StayingShrinks, ShrinksIsBelow
  <2>7. CASE Terminated
    BY <2>7 DEF Terminated
  <2> QED BY <2>1, <2>2, <2>3, <2>4, <2>5, <2>6, <2>7 DEF Next
<1> QED BY <1>1, Invariant, PTL DEF Spec, WorkShrinks

-----------------------------------------------------------------------------
(***************************************************************************)
(* Sums over pairs.                                                        *)
(***************************************************************************)
\* The sum over a line of pairs.
OnLine(f, g, S, x) == \A i \in S : f[<<i, x>>] = g[i]

LEMMA SumLine ==
    ASSUME NEW S, NEW x, NEW f, NEW g, Nats(f, S \X {x}), Nats(g, S), OnLine(f, g, S, x)
    PROVE  SumOf(f, S \X {x}) = SumOf(g, S)
<1>1. PICK pick : pick = AnyOf(S) /\ Picks(pick, S)
  BY AnyOfPicks
<1>2. PICK Good : Good = {s \in SUBSET S : SumOf(f, s \X {x}) = SumOf(g, s)}
  OBVIOUS
<1>3. {} \in Good
  <2>1. {} \X {x} = {}
    OBVIOUS
  <2> QED BY <1>2, <2>1, SumEmpty
<1>4. ASSUME NEW s \in SUBSET S, s # {}, s \ {pick[s]} \in Good PROVE s \in Good
  <2>1. PICK i \in s : i = pick[s]
    BY <1>1, <1>4 DEF Picks
  <2>2. s \X {x} \in SUBSET (S \X {x}) /\ <<i, x>> \in s \X {x}
    OBVIOUS
  <2>3. Nats(f, s \X {x}) /\ Nats(g, s)
    BY <2>2, NatsOfPart
  <2>4. SumOf(g, s) = g[i] + SumOf(g, s \ {i})
    BY <2>3, SumTakeOut
  <2>5. SumOf(f, s \X {x}) = f[<<i, x>>] + SumOf(f, (s \X {x}) \ {<<i, x>>})
    BY <2>2, <2>3, SumTakeOut
  <2>6. (s \X {x}) \ {<<i, x>>} = (s \ {i}) \X {x}
    OBVIOUS
  <2>7. SumOf(f, (s \ {i}) \X {x}) = SumOf(g, s \ {i})
    BY <1>2, <1>4, <2>1
  <2> QED BY <1>2, <2>4, <2>5, <2>6, <2>7 DEF OnLine
<1>5. IsFiniteSet(S)
  BY DEF Nats
<1>6. \A s \in SUBSET S : s \in Good
  BY ONLY <1>1, <1>3, <1>4, <1>5, FoldInduction
<1> QED BY <1>2, <1>6

\* The sum over pairs is the sum of the sums of its lines.
LineSums(f, g, S, T) == \A j \in T : g[j] = SumOf([i \in S |-> f[<<i, j>>]], S)

LEMMA SumPairs ==
    ASSUME NEW S, NEW T, IsFiniteSet(T), NEW f, Nats(f, S \X T), IsFiniteSet(S),
           NEW g, LineSums(f, g, S, T)
    PROVE  SumOf(f, S \X T) = SumOf(g, T) /\ Nats(g, T)
<1>1. PICK pick : pick = AnyOf(T) /\ Picks(pick, T)
  BY AnyOfPicks
<1>2. ASSUME NEW j \in T PROVE SumOf(f, S \X {j}) = g[j] /\ g[j] \in Nat
  <2>1. PICK h : h = [i \in S |-> f[<<i, j>>]]
    OBVIOUS
  <2>2. \A i \in S : f[<<i, j>>] = h[i] /\ h[i] \in Nat
    BY <2>1 DEF Nats
  <2>3. Nats(h, S)
    BY <2>2 DEF Nats
  <2>4. S \X {j} \in SUBSET (S \X T)
    OBVIOUS
  <2>5. Nats(f, S \X {j})
    BY <2>4, NatsOfPart
  <2>6. SumOf(f, S \X {j}) = SumOf(h, S)
    <3>1. OnLine(f, h, S, j)
      BY <2>2 DEF OnLine
    <3> QED BY ONLY <2>3, <2>5, <3>1, SumLine
  <2> QED BY <2>1, <2>3, <2>6, SumNat DEF Nats, LineSums
<1>3. Nats(g, T)
  BY <1>2 DEF Nats
<1>4. PICK Good : Good = {s \in SUBSET T : SumOf(f, S \X s) = SumOf(g, s)}
  OBVIOUS
<1>5. {} \in Good
  <2>1. S \X {} = {}
    OBVIOUS
  <2> QED BY <1>4, <2>1, SumEmpty
<1>6. ASSUME NEW s \in SUBSET T, s # {}, s \ {pick[s]} \in Good PROVE s \in Good
  <2>1. PICK j \in s : j = pick[s]
    BY <1>1, <1>6 DEF Picks
  <2>2. PICK A, B : A = S \X {j} /\ B = S \X (s \ {j})
    OBVIOUS
  <2>3. A \in SUBSET (S \X T) /\ B \in SUBSET (S \X T) /\ A \cap B = {} /\ S \X s = A \cup B
    BY <2>2
  <2>4. SumOf(f, S \X s) = SumOf(f, A) + SumOf(f, B)
    <3>1. SumOf(f, A \cup B) = SumOf(f, A) + SumOf(f, B)
      BY <2>3, SumUnion
    <3> QED BY <2>3, <3>1
  <2>5. SumOf(f, A) = g[j] /\ SumOf(f, B) = SumOf(g, s \ {j})
    BY <1>2, <1>4, <1>6, <2>1, <2>2
  <2>6. SumOf(g, s) = g[j] + SumOf(g, s \ {j})
    BY <1>3, NatsOfPart, SumTakeOut
  <2> QED BY <1>4, <2>4, <2>5, <2>6
<1>7. \A s \in SUBSET T : s \in Good
  BY ONLY <1>1, <1>5, <1>6, IsFiniteSet(T), FoldInduction
<1> QED BY <1>3, <1>4, <1>7

-----------------------------------------------------------------------------
(***************************************************************************)
(* Degrees in order.  A larger degree has no smaller position, a bucket    *)
(* that is being filled holds degrees of its own position only, and closed *)
(* sequences therefore descend.                                            *)
(***************************************************************************)
LEMMA PositionGrows ==
    ASSUME NEW a \in Nat, NEW b \in Nat, a <= b
    PROVE  Position(a) <= Position(b)
<1>1. CASE a <= 1 \/ CompressPrecision.num <= CompressPrecision.den
  <2>1. Position(a) = 1
    BY <1>1 DEF Position
  <2> QED BY <2>1, PositionType
<1>2. CASE ~(a <= 1 \/ CompressPrecision.num <= CompressPrecision.den)
  <2>1. CompressPrecision.num > CompressPrecision.den
    BY <1>2, PrecisionAssumption
  <2>2. PICK l \in Nat, m \in Nat : l = CeilLog(a) /\ m = CeilLog(b)
    BY <2>1, CeilLogFacts
  <2>3. Reaches(m, b)
    BY <2>1, <2>2, CeilLogFacts
  <2>4. PICK n \in Nat, d \in Nat : n = Powers[m].num /\ d = Powers[m].den
    BY <2>2, PowersFacts DEF Fraction
  <2>5. b * d <= n
    BY <2>2, <2>3, <2>4 DEF Reaches
  <2>6. a * d <= b * d /\ a * d \in Nat /\ b * d \in Nat
    BY <2>4, TimesMonotone, TimesNat
  <2>7. a * d <= n
    BY <2>4, <2>5, <2>6
  <2>8. Reaches(m, a)
    BY <2>4, <2>7 DEF Reaches
  <2>9. l <= m
    BY <2>1, <2>2, <2>8, CeilLogFacts
  <2>10. ~(b <= 1)
    BY <1>2
  <2> QED BY <1>2, <2>2, <2>9, <2>10 DEF Position
<1> QED BY <1>1, <1>2

Placed(s) == \A i \in DOMAIN s : s[i].maxDegree > 0 => Position(s[i].maxDegree) = i

LEMMA AddDegreePlaced ==
    ASSUME NEW s \in Seq(Bucket), Placed(s), NEW degree \in Nat, NEW count \in Nat
    PROVE  Placed(AddDegree(s, degree, count))
<1>1. PICK pos \in Nat \ {0} : pos = Position(degree)
  BY PositionType
<1>2. PICK g : g = Grown(s, pos)
  OBVIOUS
<1>3. /\ g \in Seq(Bucket) /\ pos \in DOMAIN g
      /\ \A i \in DOMAIN g : (i \in DOMAIN s /\ g[i] = s[i]) \/ g[i] = EmptyBucket
  BY <1>1, <1>2, GrownFacts
<1>4. \A i \in DOMAIN g : g[i].maxDegree \in Nat /\ (g[i].maxDegree > 0 => Position(g[i].maxDegree) = i)
  BY <1>3, EmptyBucketFacts, AddedFacts DEF Placed
<1>5. PICK r : r = AddDegree(s, degree, count)
  OBVIOUS
<1>6. r = [g EXCEPT ![pos] = [maxDegree |-> Max({@.maxDegree, degree}),
                              count |-> @.count + count,
                              sum |-> @.sum + degree * count]]
  BY <1>1, <1>2, <1>5 DEF AddDegree, Grown
<1>7. /\ DOMAIN r = DOMAIN g /\ \A i \in DOMAIN g : i # pos => r[i] = g[i]
      /\ r[pos].maxDegree = Max({g[pos].maxDegree, degree})
  <2>1. PICK b : b = [maxDegree |-> Max({g[pos].maxDegree, degree}),
                      count |-> g[pos].count + count,
                      sum |-> g[pos].sum + degree * count]
    OBVIOUS
  <2>2. r = [g EXCEPT ![pos] = b] /\ b.maxDegree = Max({g[pos].maxDegree, degree})
    BY <1>3, <1>6, <2>1
  <2> QED BY <1>3, <2>2
<1>8. r[pos].maxDegree = g[pos].maxDegree \/ r[pos].maxDegree = degree
  <2>1. PICK d \in Nat : d = g[pos].maxDegree
    BY <1>3, <1>4
  <2>2. Max({d, degree}) = d \/ Max({d, degree}) = degree
    BY MaxOfTwo
  <2> QED BY <1>7, <2>1, <2>2
<1> QED BY <1>1, <1>3, <1>4, <1>5, <1>7, <1>8 DEF Placed

Descends(s) == \A i, j \in DOMAIN s : i < j => s[j].maxDegree <= s[i].maxDegree

LEMMA ConcatDescends ==
    ASSUME NEW s, NEW t, Degrees(s), Degrees(t), Descends(s), Descends(t),
           \A i \in DOMAIN s, j \in DOMAIN t : t[j].maxDegree <= s[i].maxDegree
    PROVE  Descends(s \o t)
<1>1. PICK m \in Nat, n \in Nat : /\ m = Len(s) /\ n = Len(t)
                                  /\ DOMAIN s = 1..m /\ DOMAIN t = 1..n
  BY DegreesFacts
<1>2. PICK u : u = s \o t
  OBVIOUS
<1>3. /\ u \in Seq(AnyBucket) /\ Len(u) = m + n
      /\ \A i \in 1..(m + n) : u[i] = IF i <= m THEN s[i] ELSE t[i - m]
  BY <1>1, <1>2, ConcatProperties DEF Degrees
<1>4. DOMAIN u = 1..(m + n)
  BY <1>3
<1>5. \A i \in 1..(m + n) : ~(i <= m) => i - m \in 1..n
  OBVIOUS
<1>6. ASSUME NEW i \in DOMAIN u, NEW j \in DOMAIN u, i < j
      PROVE  u[j].maxDegree <= u[i].maxDegree
  <2>1. CASE j <= m
    <3>1. i \in 1..m /\ j \in 1..m /\ u[i] = s[i] /\ u[j] = s[j]
      BY <1>3, <1>4, <1>6, <2>1
    <3> QED BY <1>1, <1>6, <3>1 DEF Descends
  <2>2. CASE i <= m /\ ~(j <= m)
    <3>1. i \in 1..m /\ j - m \in 1..n /\ u[i] = s[i] /\ u[j] = t[j - m]
      BY <1>3, <1>4, <1>5, <2>2
    <3> QED BY <1>1, <3>1
  <2>3. CASE ~(i <= m)
    <3>1. /\ i - m \in 1..n /\ j - m \in 1..n /\ i - m < j - m
          /\ u[i] = t[i - m] /\ u[j] = t[j - m]
      BY <1>3, <1>4, <1>5, <1>6, <2>3
    <3> QED BY <1>1, <3>1 DEF Descends
  <2> QED BY <1>4, <1>6, <2>1, <2>2, <2>3
<1> QED BY <1>2, <1>6 DEF Descends

LEMMA OneDescends ==
    ASSUME NEW b
    PROVE  Descends(<<b>>) /\ Descends(<<>>) /\ DOMAIN <<b>> = {1} /\ <<b>>[1] = b
BY DEF Descends

LEMMA OneBucket ==
    ASSUME NEW d \in Nat, NEW c \in Nat, NEW x, x = <<[maxDegree |-> d, count |-> c]>>
    PROVE  /\ Degrees(x) /\ Descends(x) /\ GetNDV(x) = c
           /\ \A j \in DOMAIN x : x[j].maxDegree = d
<1>1. Degrees(x) /\ GetNDV(x) = c
  BY CardOfOne
<1>2. PICK b : b = [maxDegree |-> d, count |-> c] /\ b.maxDegree = d
  OBVIOUS
<1>3. Descends(<<b>>) /\ DOMAIN <<b>> = {1} /\ <<b>>[1] = b
  BY OneDescends
<1>4. x = <<b>>
  BY <1>2
<1> QED BY <1>1, <1>2, <1>3, <1>4

LEMMA FinishDescends ==
    ASSUME NEW s, Collecting(s), PositiveDegrees(s) \/ PositiveCounts(s), Placed(s)
    PROVE  Descends(FinishCollection(s))
<1>1. s \in Seq(Bucket)
  BY DEF Collecting
<1>2. PICK n \in Nat : DOMAIN s = 1..n
  BY <1>1, AddedFacts
<1>3. PICK h : h = FinishIter(s)
  OBVIOUS
<1>4. PICK S : S = 1..n
  OBVIOUS
<1>5. \A K \in SUBSET S :
         /\ h[K] \in Seq(FinishedBucket)
         /\ h[K] = IF K = {} THEN NoDegrees ELSE FinishStep(h[K \ {Max(K)}], s[Max(K)])
  BY <1>2, <1>3, <1>4, FinishIterFacts
<1>6. PICK pick : Picks(pick, S) /\ \A K \in SUBSET S : pick[K] = Max(K)
  BY <1>4, MaxOfPicks
<1>7. PICK Good : Good = {K \in SUBSET S :
         /\ Descends(h[K])
         /\ \A j \in DOMAIN h[K] : \E i \in K : h[K][j].maxDegree = s[i].maxDegree}
  OBVIOUS
<1>8. {} \in Good
  <2>1. h[{}] = NoDegrees /\ DOMAIN NoDegrees = {}
    BY <1>5, CardOfNone
  <2> QED BY <1>7, <2>1 DEF Descends
<1>9. ASSUME NEW K \in SUBSET S, K # {}, K \ {pick[K]} \in Good PROVE K \in Good
  <2>1. PICK i \in K : i = pick[K] /\ i = Max(K) /\ i \in 1..n
    BY <1>4, <1>6, <1>9 DEF Picks
  <2>2. \A x \in K : x <= i
    BY <1>4, <1>9, <2>1, LargestIndex
  <2>3. PICK k : k = h[K \ {i}]
    OBVIOUS
  <2>4. /\ k \in Seq(FinishedBucket) /\ Descends(k)
        /\ \A j \in DOMAIN k : \E x \in K \ {i} : k[j].maxDegree = s[x].maxDegree
    <3>1. PICK L : L = K \ {i} /\ L \in Good /\ L \in SUBSET S /\ k = h[L]
      BY <1>9, <2>1, <2>3
    <3>2. /\ Descends(h[L])
          /\ \A j \in DOMAIN h[L] : \E x \in L : h[L][j].maxDegree = s[x].maxDegree
      BY <1>7, <3>1
    <3> QED BY <1>5, <3>1, <3>2
  <2>5. h[K] = FinishStep(k, s[i])
    BY <1>5, <1>9, <2>1, <2>3
  <2>6. CASE s[i].count # 0 /\ s[i].maxDegree # 0
    <3>1. PICK b : b = Tightened(s[i])
      OBVIOUS
    <3>2. h[K] = <<b>> \o k /\ b.maxDegree = s[i].maxDegree
      BY <2>5, <2>6, <3>1 DEF FinishStep, Tightened
    <3>3. h[K] \in Seq(FinishedBucket)
      BY <1>5
    <3>4. /\ DOMAIN <<b>> = {1} /\ <<b>>[1] = b /\ Descends(<<b>>)
      BY OneDescends
    <3>5. s[i].maxDegree \in Nat /\ s[i].maxDegree > 0 /\ Position(s[i].maxDegree) = i
      BY <1>1, <1>2, <2>1, <2>6, AddedFacts DEF Placed
    <3>6. ASSUME NEW j \in DOMAIN k PROVE k[j].maxDegree <= b.maxDegree
      <4>1. PICK x \in K \ {i} : k[j].maxDegree = s[x].maxDegree
        BY <2>4
      <4>2. x \in 1..n /\ x < i
        BY <1>4, <2>1, <2>2
      <4>3. k[j] \in FinishedBucket
        BY <2>4, ElementOfSeq
      <4>4. PICK d \in Nat : d = s[x].maxDegree /\ d > 0 /\ Position(d) = x
        <5>1. k[j].maxDegree \in Nat /\ k[j].maxDegree > 0
          BY <4>3 DEF FinishedBucket
        <5> QED BY <1>2, <4>1, <4>2, <5>1 DEF Placed
      <4>5. PICK e \in Nat : e = s[i].maxDegree /\ Position(e) = i
        BY <3>5
      <4>6. e <= d => i <= x
        BY <4>4, <4>5, PositionGrows
      <4> QED BY <2>1, <3>2, <4>1, <4>2, <4>4, <4>5, <4>6
    <3>7. b \in FinishedBucket
      <4>1. s[i] \in Bucket /\ s[i].sum <= s[i].count * s[i].maxDegree
        BY <1>1, <1>2, <2>1, AddedFacts DEF Collecting
      <4>2. s[i].sum > 0 /\ s[i].count > 0
        BY <1>1, <1>2, <2>1, <2>6, <3>5, AddedFacts DEF PositiveDegrees, PositiveCounts
      <4> QED BY <3>1, <3>5, <4>1, <4>2, TightenedFacts
    <3>8. Degrees(<<b>>) /\ Degrees(k)
      <4>1. <<b>> \in Seq(FinishedBucket)
        BY <3>7
      <4> QED BY <2>4, <4>1, FinishedDegrees
    <3>9. Descends(h[K])
      BY <2>4, <3>2, <3>4, <3>6, <3>8, ConcatDescends
    <3>10. ASSUME NEW j \in DOMAIN h[K]
           PROVE  \E x \in K : h[K][j].maxDegree = s[x].maxDegree
      <4>1. PICK l \in Nat : l = Len(k) /\ DOMAIN k = 1..l
        BY <3>8, DegreesFacts
      <4>2. /\ DOMAIN h[K] = 1..(1 + l)
            /\ \A y \in 1..(1 + l) : h[K][y] = IF y <= 1 THEN <<b>>[y] ELSE k[y - 1]
        <5>1. <<b>> \in Seq(FinishedBucket) /\ Len(<<b>>) = 1
          BY <3>7
        <5>2. Len(h[K]) = 1 + l
          BY <2>4, <3>2, <4>1, <5>1, ConcatProperties
        <5>3. \A y \in 1..(1 + l) : h[K][y] = IF y <= 1 THEN <<b>>[y] ELSE k[y - 1]
          BY <2>4, <3>2, <4>1, <5>1, ConcatProperties
        <5> QED BY <3>3, <5>2, <5>3
      <4>3. CASE j = 1
        BY <2>1, <3>2, <3>4, <4>2, <4>3
      <4>4. CASE j # 1
        <5>1. j - 1 \in DOMAIN k /\ h[K][j] = k[j - 1]
          BY <4>1, <4>2, <4>4
        <5> QED BY <2>4, <5>1
      <4> QED BY <4>3, <4>4
    <3> QED BY <1>7, <3>9, <3>10
  <2>7. CASE ~(s[i].count # 0 /\ s[i].maxDegree # 0)
    <3>1. h[K] = k
      BY <2>5, <2>7 DEF FinishStep
    <3> QED BY <1>7, <2>4, <3>1
  <2> QED BY <2>6, <2>7
<1>10. IsFiniteSet(S)
  BY <1>4, FS_Interval
<1>11. \A K \in SUBSET S : K \in Good
  BY ONLY <1>6, <1>8, <1>9, <1>10, FoldInduction
<1> QED BY <1>2, <1>3, <1>4, <1>7, <1>11, FinishUnfold

\* Where LimitDsToCard cuts: whole rows of bucket i, and what is left of one.
CutAt(r, s, i, full, rest) ==
    /\ full \in Nat /\ rest \in Nat /\ rest < s[i].maxDegree
    /\ full + If(rest > 0) <= s[i].count
    /\ r = SubSeq(s, 1, i - 1)
           \o (IF full = 0 THEN <<>> ELSE <<[maxDegree |-> s[i].maxDegree, count |-> full]>>)
           \o (IF rest = 0 THEN <<>> ELSE <<[maxDegree |-> rest, count |-> 1]>>)

LEMMA LimitCut ==
    ASSUME NEW s, Degrees(s), NEW card \in Nat
    PROVE  \/ LimitDsToCard(s, card) = s
           \/ \E i \in 1..Len(s), full, rest \in Nat :
                 CutAt(LimitDsToCard(s, card), s, i, full, rest)
<1>1. PICK n \in Nat : n = Len(s) /\ DOMAIN s = 1..n
  BY DegreesFacts
<1>2. PICK over : over = {i \in DOMAIN s : CardUpTo(s, i) > card}
  OBVIOUS
<1>3. PICK r : r = LimitDsToCard(s, card)
  OBVIOUS
<1>4. CASE over = {}
  BY <1>2, <1>4 DEF LimitDsToCard
<1>5. CASE over # {}
  <2>1. PICK i \in 1..n : /\ i = Min(over) /\ CardUpTo(s, i) > card
                          /\ \A j \in over : i <= j
    <3>1. over \in SUBSET (1..n)
      BY <1>1, <1>2
    <3> QED BY <1>2, <1>5, <3>1, SmallestIndex
  <2>2. i \in 1..Len(s) /\ i - 1 \in 0..Len(s)
    BY <1>1
  <2>3. PICK before \in Nat : before = CardUpTo(s, i - 1) /\ before <= card
    <3>1. CardUpTo(s, i - 1) \in Nat
      BY <2>2, UpToFacts
    <3>2. CASE i = 1
      BY <3>1, <3>2, UpToEnds
    <3>3. CASE i # 1
      <4>1. i - 1 \in DOMAIN s /\ ~(i <= i - 1)
        BY <1>1, <3>3
      <4>2. i - 1 \notin over
        BY <2>1, <4>1
      <4>3. ~(CardUpTo(s, i - 1) > card)
        BY <1>2, <4>1, <4>2
      <4> QED BY <3>1, <4>3
    <3> QED BY <3>2, <3>3
  <2>4. PICK d \in Nat, c \in Nat : /\ d = s[i].maxDegree /\ c = s[i].count
                                    /\ s[i] = [maxDegree |-> d, count |-> c]
    BY <1>1, DegreesFacts
  <2>5. PICK left \in Nat : left = card - before
    BY <2>3
  <2>6. left < c * d
    <3>1. CardUpTo(s, i) = before + c * d /\ CardUpTo(s, i) \in Nat
      BY <2>2, <2>3, <2>4, UpToNext
    <3>2. c * d \in Nat
      BY TimesNat
    <3> QED BY <2>1, <2>3, <2>5, <3>1, <3>2
  <2>7. d \in Nat \ {0}
    BY <2>4, <2>6
  <2>8. PICK full \in Nat, rest \in Nat : /\ full = left \div d /\ rest = left % d
                                          /\ rest < d /\ left = d * full + rest
    BY <2>7, DivFacts
  <2>9. full + If(rest > 0) <= c
    <3>1. full < c
      <4> SUFFICES ASSUME c <= full PROVE FALSE
        OBVIOUS
      <4>1. d * c <= d * full /\ d * c = c * d /\ d * full \in Nat /\ c * d \in Nat
        BY TimesMonotone, TimesNat
      <4> QED BY <2>6, <2>8, <4>1
    <3> QED BY <3>1 DEF If
  <2>10. r = SubSeq(s, 1, i - 1)
             \o (IF full = 0 THEN <<>> ELSE <<[s[i] EXCEPT !.count = full]>>)
             \o (IF rest = 0 THEN <<>> ELSE <<[maxDegree |-> rest, count |-> 1]>>)
    BY <1>2, <1>3, <1>5, <2>1, <2>3, <2>4, <2>5, <2>8 DEF LimitDsToCard
  <2>11. [s[i] EXCEPT !.count = full] = [maxDegree |-> s[i].maxDegree, count |-> full]
    BY <2>4
  <2>12. CutAt(r, s, i, full, rest)
    BY <2>4, <2>8, <2>9, <2>10, <2>11 DEF CutAt
  <2> QED BY <1>3, <2>2, <2>12
<1> QED BY <1>4, <1>5

\* A cut leaves the order and adds no rows.
LEMMA LimitDescends ==
    ASSUME NEW s, Degrees(s), Descends(s), NEW card \in Nat
    PROVE  /\ Descends(LimitDsToCard(s, card))
           /\ GetNDV(LimitDsToCard(s, card)) <= GetNDV(s)
<1>1. PICK n \in Nat : n = Len(s) /\ DOMAIN s = 1..n
  BY DegreesFacts
<1>2. PICK r : r = LimitDsToCard(s, card)
  OBVIOUS
<1>3. CASE r = s
  <2>1. GetNDV(s) \in Nat
    BY DegreesFacts
  <2> QED BY <1>2, <1>3, <2>1
<1>4. CASE r # s
  <2>1. PICK i \in 1..n, full \in Nat, rest \in Nat : CutAt(r, s, i, full, rest)
    BY <1>1, <1>2, <1>4, LimitCut
  <2>2. PICK d \in Nat, c \in Nat : d = s[i].maxDegree /\ c = s[i].count
    BY <1>1, DegreesFacts
  <2>3. PICK a, f, e :
          /\ a = SubSeq(s, 1, i - 1)
          /\ f = IF full = 0 THEN <<>> ELSE <<[maxDegree |-> d, count |-> full]>>
          /\ e = IF rest = 0 THEN <<>> ELSE <<[maxDegree |-> rest, count |-> 1]>>
    OBVIOUS
  <2>4. r = a \o f \o e /\ rest < d /\ full + If(rest > 0) <= c
    BY <2>1, <2>2, <2>3 DEF CutAt
  <2>5. i \in 1..Len(s) /\ i - 1 \in 0..Len(s) /\ i \in 0..Len(s) /\ Len(s) \in 0..Len(s)
    BY <1>1
  <2>6. /\ Degrees(a) /\ DOMAIN a = 1..(i - 1) /\ \A j \in 1..(i - 1) : a[j] = s[j]
        /\ GetNDV(a) = NDVUpTo(s, i - 1)
    <3>1. Degrees(a) /\ Len(a) = i - 1 /\ \A j \in 1..(i - 1) : a[j] = s[j]
      BY <2>3, <2>5, UpToFacts
    <3> QED BY <2>3, <3>1, DegreesFacts DEF NDVUpTo
  <2>7. Descends(a)
    BY <1>1, <2>6 DEF Descends
  <2>8. /\ Degrees(f) /\ Descends(f) /\ GetNDV(f) = full
        /\ \A j \in DOMAIN f : f[j].maxDegree = d
    <3>1. CASE full = 0
      BY <2>3, <3>1, CardOfNone, OneDescends DEF NoDegrees
    <3>2. CASE full # 0
      <4>1. f = <<[maxDegree |-> d, count |-> full]>>
        BY <2>3, <3>2
      <4> QED BY <4>1, OneBucket
    <3> QED BY <3>1, <3>2
  <2>9. /\ Degrees(e) /\ Descends(e) /\ GetNDV(e) = If(rest > 0)
        /\ \A j \in DOMAIN e : e[j].maxDegree = rest
    <3>1. CASE rest = 0
      <4>1. If(rest > 0) = 0 /\ e = NoDegrees /\ e = <<>>
        BY <2>3, <3>1 DEF If, NoDegrees
      <4> QED BY <4>1, CardOfNone, OneDescends
    <3>2. CASE rest # 0
      <4>1. e = <<[maxDegree |-> rest, count |-> 1]>> /\ If(rest > 0) = 1 /\ 1 \in Nat
        BY <2>3, <3>2 DEF If
      <4>2. /\ Degrees(e) /\ Descends(e) /\ GetNDV(e) = 1
            /\ \A j \in DOMAIN e : e[j].maxDegree = rest
        BY <4>1, OneBucket
      <4> QED BY <4>1, <4>2
    <3> QED BY <3>1, <3>2
  <2>10. \A x \in DOMAIN a : d <= a[x].maxDegree /\ a[x].maxDegree \in Nat
    <3>1. \A x \in 1..(i - 1) : x \in DOMAIN s /\ x < i /\ i \in DOMAIN s
      BY <1>1
    <3> QED BY <2>2, <2>6, <3>1, DegreesFacts DEF Descends
  <2>11. Descends(a \o f) /\ Degrees(a \o f)
    <3>1. \A x \in DOMAIN a, y \in DOMAIN f : f[y].maxDegree <= a[x].maxDegree
      BY <2>8, <2>10
    <3> QED BY <2>6, <2>7, <2>8, <3>1, ConcatDescends, CardOfConcat
  <2>12. \A x \in DOMAIN (a \o f) : d <= (a \o f)[x].maxDegree
    <3>1. PICK l \in Nat, m \in Nat : /\ l = Len(a) /\ m = Len(f)
                                      /\ DOMAIN a = 1..l /\ DOMAIN f = 1..m
      BY <2>6, <2>8, DegreesFacts
    <3>2. PICK u : u = a \o f
      OBVIOUS
    <3>3. /\ u \in Seq(AnyBucket) /\ Len(u) = l + m
          /\ \A x \in 1..(l + m) : u[x] = IF x <= l THEN a[x] ELSE f[x - l]
      BY <2>6, <2>8, <3>1, <3>2, ConcatProperties DEF Degrees
    <3>4. ASSUME NEW x \in 1..(l + m) PROVE d <= u[x].maxDegree
      <4>1. CASE x <= l
        BY <2>10, <3>1, <3>3, <4>1
      <4>2. CASE ~(x <= l)
        <5>1. x - l \in DOMAIN f /\ u[x] = f[x - l]
          BY <3>1, <3>3, <4>2
        <5> QED BY <2>8, <5>1
      <4> QED BY <4>1, <4>2
    <3> QED BY <3>2, <3>3, <3>4
  <2>13. Descends(r)
    <3>1. PICK u : u = a \o f
      OBVIOUS
    <3>2. Degrees(u) /\ Descends(u) /\ \A x \in DOMAIN u : d <= u[x].maxDegree
      BY <2>11, <2>12, <3>1
    <3>3. \A x \in DOMAIN u : u[x].maxDegree \in Nat
      BY <3>2, DegreesFacts
    <3>4. \A x \in DOMAIN u, y \in DOMAIN e : e[y].maxDegree <= u[x].maxDegree
      BY <2>4, <2>9, <3>2, <3>3
    <3> QED BY <2>4, <2>9, <3>1, <3>2, <3>4, ConcatDescends
  <2>14. GetNDV(r) = (NDVUpTo(s, i - 1) + full) + If(rest > 0)
    BY <2>4, <2>6, <2>8, <2>9, <2>11, CardOfConcat
  <2>15. /\ NDVUpTo(s, i) = NDVUpTo(s, i - 1) + c
         /\ NDVUpTo(s, i) \in Nat /\ NDVUpTo(s, i - 1) \in Nat
    BY <2>2, <2>5, UpToNext
  <2>16. NDVUpTo(s, i) <= GetNDV(s) /\ GetNDV(s) \in Nat
    <3>1. NDVUpTo(s, i) <= NDVUpTo(s, Len(s))
      BY <1>1, <2>5, UpToGrows
    <3> QED BY <3>1, UpToEnds, DegreesFacts
  <2>17. GetNDV(r) <= GetNDV(s)
    <3>1. If(rest > 0) \in Nat
      BY DEF If
    <3> QED BY <2>4, <2>14, <2>15, <2>16, <3>1
  <2> QED BY <1>2, <2>13, <2>17
<1> QED BY <1>3, <1>4

-----------------------------------------------------------------------------
(***************************************************************************)
(* Rows.  A collected sequence of a table has no more rows than the table. *)
(***************************************************************************)
LEMMA CountsFacts ==
    ASSUME NEW s \in Seq(Bucket)
    PROVE  /\ Nats(Counts(s), DOMAIN s) /\ GetNDV(s) \in Nat
           /\ \A i \in DOMAIN s : Counts(s)[i] = s[i].count
<1>1. Len(s) \in Nat /\ DOMAIN s = 1..Len(s) /\ \A i \in DOMAIN s : s[i].count \in Nat
  BY AddedFacts
<1>2. \A i \in DOMAIN s : Counts(s)[i] = s[i].count
  BY DEF Counts
<1>3. Nats(Counts(s), DOMAIN s)
  <2>1. IsFiniteSet(DOMAIN s)
    BY <1>1, FS_Interval
  <2> QED BY <1>1, <1>2, <2>1 DEF Nats
<1> QED BY <1>2, <1>3, NDVIsSum, SumNat DEF Nats

\* Buckets without rows do not count.
LEMMA SumOfPositive ==
    ASSUME NEW S, NEW f, Nats(f, S), NEW T \in SUBSET S, \A x \in S \ T : f[x] = 0
    PROVE  SumOf(f, S) = SumOf(f, T)
<1>a. PICK B : B = S \ T
  OBVIOUS
<1>1. B = S \ T /\ B \in SUBSET S /\ T \cap B = {} /\ T \cup B = S
  BY <1>a
<1>2. SumOf(f, S) = SumOf(f, T) + SumOf(f, B)
  <2>1. SumOf(f, T \cup B) = SumOf(f, T) + SumOf(f, B)
    BY <1>1, SumUnion
  <2> QED BY <1>1, <2>1
<1>3. SumOf(f, B) = 0
  BY <1>1, NatsOfPart, SumZero DEF Nats
<1>4. SumOf(f, T) \in Nat
  BY NatsOfPart
<1> QED BY <1>1, <1>2, <1>3, <1>4

LEMMA AddDegreeRows ==
    ASSUME NEW s \in Seq(Bucket), NEW degree \in Nat, NEW count \in Nat
    PROVE  GetNDV(AddDegree(s, degree, count)) = GetNDV(s) + count
<1>1. PICK pos \in Nat \ {0} : pos = Position(degree)
  BY PositionType
<1>2. PICK g : g = Grown(s, pos)
  OBVIOUS
<1>3. /\ g \in Seq(Bucket) /\ pos \in DOMAIN g
      /\ \A i \in DOMAIN g : (i \in DOMAIN s /\ g[i] = s[i]) \/ g[i] = EmptyBucket
  BY <1>1, <1>2, GrownFacts
<1>4. \A i \in DOMAIN s : i \in DOMAIN g /\ g[i] = s[i]
  BY <1>1, <1>2, GrownFacts
<1>5. /\ Nats(Counts(g), DOMAIN g) /\ Nats(Counts(s), DOMAIN s) /\ GetNDV(s) \in Nat
      /\ \A i \in DOMAIN g : Counts(g)[i] = g[i].count
      /\ \A i \in DOMAIN s : Counts(s)[i] = s[i].count
  BY <1>3, CountsFacts
<1>6. GetNDV(g) = GetNDV(s)
  <2>1. \A i \in DOMAIN g \ DOMAIN s : Counts(g)[i] = 0
    BY <1>3, <1>5, EmptyBucketFacts
  <2>2. DOMAIN s \in SUBSET DOMAIN g
    BY <1>4
  <2>3. SumOf(Counts(g), DOMAIN g) = SumOf(Counts(g), DOMAIN s)
    BY <1>5, <2>1, <2>2, SumOfPositive
  <2>4. SumOf(Counts(g), DOMAIN s) = SumOf(Counts(s), DOMAIN s)
    BY <1>4, <1>5, SumExtensional
  <2> QED BY <2>3, <2>4, NDVIsSum
<1>7. PICK r : r = AddDegree(s, degree, count)
  OBVIOUS
<1>8. r = [g EXCEPT ![pos] = [maxDegree |-> Max({@.maxDegree, degree}),
                              count |-> @.count + count,
                              sum |-> @.sum + degree * count]]
  BY <1>1, <1>2, <1>7 DEF AddDegree, Grown
<1>9. /\ DOMAIN r = DOMAIN g /\ \A i \in DOMAIN g : i # pos => r[i] = g[i]
      /\ r[pos].count = g[pos].count + count
  <2>1. PICK b : b = [maxDegree |-> Max({g[pos].maxDegree, degree}),
                      count |-> g[pos].count + count,
                      sum |-> g[pos].sum + degree * count]
    OBVIOUS
  <2>2. r = [g EXCEPT ![pos] = b] /\ b.count = g[pos].count + count
    BY <1>3, <1>8, <2>1
  <2> QED BY <1>3, <2>2
<1>10. PICK c \in Nat : c = g[pos].count
  BY <1>3, AddedFacts
<1>11. /\ \A i \in DOMAIN g \ {pos} : Counts(g)[i] = Counts(r)[i]
       /\ Counts(g)[pos] = c /\ Counts(r)[pos] = c + count
       /\ \A i \in DOMAIN g : Counts(r)[i] \in Nat
  <2>1. \A i \in DOMAIN g : Counts(r)[i] = r[i].count
    BY <1>9 DEF Counts
  <2>2. Counts(r)[pos] = c + count /\ c + count \in Nat
    BY <1>3, <1>9, <1>10, <2>1
  <2>3. \A i \in DOMAIN g \ {pos} : Counts(r)[i] = Counts(g)[i] /\ Counts(g)[i] \in Nat
    BY <1>5, <1>9, <2>1 DEF Nats
  <2> QED BY <1>3, <1>5, <1>10, <2>2, <2>3
<1>12. Nats(Counts(r), DOMAIN g)
  BY <1>5, <1>11 DEF Nats
<1>13. SumOf(Counts(g), DOMAIN g) + Counts(r)[pos] = SumOf(Counts(r), DOMAIN g) + Counts(g)[pos]
  BY <1>3, <1>5, <1>11, <1>12, SumChanged
<1>14. SumOf(Counts(r), DOMAIN g) \in Nat
  BY <1>12, SumNat DEF Nats
<1>15. SumOf(Counts(r), DOMAIN g) = GetNDV(r) /\ SumOf(Counts(g), DOMAIN g) = GetNDV(s)
  BY <1>6, <1>9, NDVIsSum
<1>16. PICK x \in Nat, y \in Nat : x = GetNDV(r) /\ y = GetNDV(s)
  BY <1>5, <1>14, <1>15
<1>17. y + (c + count) = x + c
  BY <1>11, <1>13, <1>15, <1>16
<1>18. x = y + count
  BY <1>17
<1> QED BY <1>7, <1>16, <1>18

LEMMA FinishRows ==
    ASSUME NEW s, Collecting(s), PositiveDegrees(s) \/ PositiveCounts(s)
    PROVE  GetNDV(FinishCollection(s)) <= GetNDV(s)
<1>1. s \in Seq(Bucket)
  BY DEF Collecting
<1>2. PICK n \in Nat : DOMAIN s = 1..n
  BY <1>1, AddedFacts
<1>3. PICK h : h = FinishIter(s)
  OBVIOUS
<1>4. PICK S : S = 1..n
  OBVIOUS
<1>5. \A K \in SUBSET S :
         /\ h[K] \in Seq(FinishedBucket)
         /\ h[K] = IF K = {} THEN NoDegrees ELSE FinishStep(h[K \ {Max(K)}], s[Max(K)])
  BY <1>2, <1>3, <1>4, FinishIterFacts
<1>6. PICK pick : Picks(pick, S) /\ \A K \in SUBSET S : pick[K] = Max(K)
  BY <1>4, MaxOfPicks
<1>7. PICK Good : Good = {K \in SUBSET S : GetNDV(h[K]) <= SumOf(Counts(s), K)}
  OBVIOUS
<1>8. {} \in Good
  <2>1. h[{}] = NoDegrees
    BY <1>5
  <2> QED BY <1>7, <2>1, CardOfNone, SumEmpty
<1>9. ASSUME NEW K \in SUBSET S, K # {}, K \ {pick[K]} \in Good PROVE K \in Good
  <2>1. PICK i \in K : i = pick[K] /\ i = Max(K) /\ i \in 1..n
    BY <1>4, <1>6, <1>9 DEF Picks
  <2>2. PICK L, k : L = K \ {i} /\ L \in SUBSET S /\ L \in Good /\ k = h[L]
    BY <1>9, <2>1
  <2>3. /\ k \in Seq(FinishedBucket) /\ GetNDV(k) <= SumOf(Counts(s), L)
    BY <1>5, <1>7, <2>2
  <2>4. h[K] = FinishStep(k, s[i]) /\ h[K] \in Seq(FinishedBucket)
    BY <1>5, <1>9, <2>1, <2>2
  <2>5. /\ SumOf(Counts(s), K) = s[i].count + SumOf(Counts(s), L)
        /\ s[i].count \in Nat /\ SumOf(Counts(s), L) \in Nat
    <3>1. Nats(Counts(s), S) /\ Counts(s)[i] = s[i].count
      BY <1>1, <1>2, <1>4, <2>1, CountsFacts
    <3>2. Nats(Counts(s), K)
      BY <3>1, NatsOfPart
    <3> QED BY <2>2, <3>1, <3>2, SumTakeOut
  <2>6. Degrees(k) /\ GetNDV(k) \in Nat
    BY <2>3, FinishedDegrees, DegreesFacts
  <2>7. GetNDV(h[K]) <= s[i].count + GetNDV(k)
    <3>1. CASE s[i].count # 0 /\ s[i].maxDegree # 0
      <4>1. s[i] \in Bucket /\ s[i].sum <= s[i].count * s[i].maxDegree /\ s[i].maxDegree \in Nat
        BY <1>1, <1>2, <2>1, AddedFacts DEF Collecting
      <4>2. s[i].sum > 0 /\ s[i].count > 0 /\ s[i].maxDegree > 0
        BY <1>1, <1>2, <2>1, <2>5, <3>1, <4>1, AddedFacts DEF PositiveDegrees, PositiveCounts
      <4>3. PICK b \in FinishedBucket : b = Tightened(s[i])
        BY <4>1, <4>2, TightenedFacts
      <4>4. PICK x \in Nat, d \in Nat : b = [maxDegree |-> d, count |-> x] /\ x <= s[i].count
        <5>1. PICK q \in Nat : q = CeilDiv(s[i].sum, s[i].maxDegree)
          <6>1. PICK y \in Nat, z \in Nat \ {0} : y = s[i].sum /\ z = s[i].maxDegree
            BY <4>1, <4>2, BucketFacts
          <6> QED BY <6>1, CeilDivFacts
        <5>2. PICK c \in Nat : c = s[i].count
          BY <2>5
        <5>3. b = [maxDegree |-> s[i].maxDegree, count |-> Min({c, q})]
          BY <4>3, <5>1, <5>2 DEF Tightened
        <5>4. Min({c, q}) \in Nat /\ Min({c, q}) <= c
          BY MinOfTwo
        <5> QED BY <4>1, <5>2, <5>3, <5>4
      <4>5. h[K] = <<b>> \o k
        BY <2>4, <3>1, <4>3 DEF FinishStep
      <4>6. Degrees(<<b>>) /\ GetNDV(<<b>>) = x
        BY <4>4, CardOfOne
      <4>7. GetNDV(h[K]) = x + GetNDV(k)
        BY <2>6, <4>5, <4>6, CardOfConcat
      <4> QED BY <2>5, <2>6, <4>4, <4>7
    <3>2. CASE ~(s[i].count # 0 /\ s[i].maxDegree # 0)
      <4>1. h[K] = k
        BY <2>4, <3>2 DEF FinishStep
      <4> QED BY <2>5, <2>6, <4>1
    <3> QED BY <3>1, <3>2
  <2>8. GetNDV(h[K]) \in Nat
    BY <2>4, FinishedDegrees, DegreesFacts
  <2>9. GetNDV(h[K]) <= SumOf(Counts(s), K)
    BY <2>3, <2>5, <2>6, <2>7, <2>8
  <2> QED BY <1>7, <2>9
<1>10. IsFiniteSet(S)
  BY <1>4, FS_Interval
<1>11. \A K \in SUBSET S : K \in Good
  BY ONLY <1>6, <1>8, <1>9, <1>10, FoldInduction
<1> QED BY <1>2, <1>3, <1>4, <1>7, <1>11, FinishUnfold, NDVIsSum

\* The sum over a set is the sum over the fibres of h.
LEMMA SumFibres ==
    ASSUME NEW R, NEW f, Nats(f, R), NEW W, IsFiniteSet(W), NEW h \in [R -> W],
           NEW g, \A v \in W : g[v] = SumOf(f, {r \in R : h[r] = v})
    PROVE  SumOf(f, R) = SumOf(g, W) /\ Nats(g, W)
<1>1. PICK pick : pick = AnyOf(W) /\ Picks(pick, W)
  BY AnyOfPicks
<1>2. \A v \in W : g[v] \in Nat
  <2> SUFFICES ASSUME NEW v \in W PROVE g[v] \in Nat
    OBVIOUS
  <2>1. PICK A : A = {r \in R : h[r] = v}
    OBVIOUS
  <2>2. A \in SUBSET R /\ g[v] = SumOf(f, A)
    BY <2>1
  <2> QED BY <2>2, NatsOfPart
<1>3. Nats(g, W)
  BY <1>2 DEF Nats
<1>4. PICK Good : Good = {s \in SUBSET W : SumOf(f, {r \in R : h[r] \in s}) = SumOf(g, s)}
  OBVIOUS
<1>5. {} \in Good
  <2>1. {r \in R : h[r] \in {}} = {}
    OBVIOUS
  <2> QED BY <1>4, <2>1, SumEmpty
<1>6. ASSUME NEW s \in SUBSET W, s # {}, s \ {pick[s]} \in Good PROVE s \in Good
  <2>1. PICK v \in s : v = pick[s]
    BY <1>1, <1>6 DEF Picks
  <2>2. PICK A, B, C : /\ A = {r \in R : h[r] = v} /\ B = {r \in R : h[r] \in s \ {v}}
                       /\ C = {r \in R : h[r] \in s}
    OBVIOUS
  <2>3. A \in SUBSET R /\ B \in SUBSET R /\ A \cap B = {} /\ C = A \cup B
    BY <2>2
  <2>4. SumOf(f, C) = SumOf(f, A) + SumOf(f, B)
    <3>1. SumOf(f, A \cup B) = SumOf(f, A) + SumOf(f, B)
      BY <2>3, SumUnion
    <3> QED BY <2>3, <3>1
  <2>5. SumOf(f, A) = g[v] /\ SumOf(f, B) = SumOf(g, s \ {v})
    BY <1>4, <1>6, <2>1, <2>2
  <2>6. SumOf(g, s) = g[v] + SumOf(g, s \ {v})
    BY <1>3, NatsOfPart, SumTakeOut
  <2> QED BY <1>4, <2>2, <2>4, <2>5, <2>6
<1>7. \A s \in SUBSET W : s \in Good
  BY ONLY <1>1, <1>5, <1>6, IsFiniteSet(W), FoldInduction
<1>8. {r \in R : h[r] \in W} = R
  OBVIOUS
<1> QED BY <1>3, <1>4, <1>7, <1>8

LEMMA RowTotalIsSum ==
    ASSUME NEW g, NEW t, NEW R, NEW f, \A r \in R : f[r] = g[<<t, r>>]
    PROVE  RowTotal(g, t, R) = SumOf(f, R)
<1>1. RowTotal(g, t, R) = (CHOOSE iter : iter = RowsBody(g, t, R, iter))[R]
  BY DEF RowTotal, MapThenSumSet, MapThenFoldSet, Pick, RowsBody
<1>2. \A s \in SUBSET R : s # {} => f[Pick(s)] = g[<<t, Pick(s)>>]
  BY PickIn
<1>3. \A iter : RowsBody(g, t, R, iter) = SumBody(f, R, iter)
  BY <1>2 DEF RowsBody, SumBody
<1>4. (CHOOSE iter : iter = RowsBody(g, t, R, iter)) = SumIter(f, R)
  BY <1>3 DEF SumIter
<1> QED BY <1>1, <1>4, SumUnfold

\* Every row of a table has a key.
LEMMA KeysOfRows ==
    ASSUME DBOK, NEW t \in DOMAIN plan.cols, NEW attr \in plan.cols[t],
           NEW w, w = [v \in Value |-> CountOf(t, attr, v)]
    PROVE  TableRows(t) = SumOf(w, Value) /\ Nats(w, Value)
<1>1. PICK R, f, h : /\ R = Rows(plan, t) /\ f = [r \in R |-> db[<<t, r>>]]
                     /\ h = [r \in R |-> r[attr]]
  OBVIOUS
<1>2. h \in [R -> Value]
  BY <1>1 DEF Rows
<1>3. Nats(f, R)
  <2>1. IsFiniteSet(R)
    BY <1>1, PlanFacts DEF DBOK
  <2>2. ASSUME NEW r \in R PROVE db[<<t, r>>] \in Nat
    <3>1. <<t, r>> \in Cells(plan)
      BY <1>1 DEF Cells
    <3>2. plan.mult \subseteq Nat
      BY PlanFacts DEF DBOK
    <3> QED BY <3>1, <3>2 DEF DBOK
  <2> QED BY <1>1, <2>1, <2>2 DEF Nats
<1>4. ASSUME NEW v \in Value PROVE w[v] = SumOf(f, {r \in R : h[r] = v})
  <2>1. PICK Q : Q = {r \in R : h[r] = v}
    OBVIOUS
  <2>2. Q = {r \in Rows(plan, t) : r[attr] = v}
    BY <1>1, <2>1
  <2>3. w[v] = RowTotal(db, t, Q)
    BY <2>2 DEF CountOf, RowTotal
  <2>4. \A r \in Q : f[r] = db[<<t, r>>]
    BY <1>1, <2>1
  <2> QED BY <2>1, <2>3, <2>4, RowTotalIsSum
<1>5. SumOf(f, R) = SumOf(w, Value) /\ Nats(w, Value)
  BY <1>2, <1>3, <1>4, ValueAssumption, SumFibres
<1>6. TableRows(t) = RowTotal(db, t, R)
  BY <1>1 DEF TableRows, RowTotal
<1>7. \A r \in R : f[r] = db[<<t, r>>]
  BY <1>1
<1> QED BY <1>5, <1>6, <1>7, RowTotalIsSum

(***************************************************************************)
(* While a star is collected, the sequence of a table descends when it is  *)
(* closed, and has the rows of the count vectors that were added.          *)
(***************************************************************************)
RowsOf(piece, t) == [m \in Vectors(piece) |-> Sharing(piece, m) * m[t]]

LEMMA RowsOfFacts ==
    ASSUME DBOK, NEW piece, Star(plan, piece), NEW t \in piece.tables
    PROVE  /\ Nats(RowsOf(piece, t), Vectors(piece))
           /\ SumOf(RowsOf(piece, t), Vectors(piece)) = TableRows(t)
<1>1. t \in DOMAIN plan.cols /\ piece.attr \in plan.cols[t]
  BY DEF Star
<1>2. PICK V, h, g, w, f :
        /\ V = Vectors(piece) /\ h = [v \in Value |-> CountVector(piece, v)]
        /\ g = [m \in V |-> m[t]] /\ w = [v \in Value |-> CountOf(t, piece.attr, v)]
        /\ f = RowsOf(piece, t)
  OBVIOUS
<1>3. /\ IsFiniteSet(V) /\ IsFiniteSet(Value)
      /\ \A m \in V : m \in [piece.tables -> Nat] /\ Sharing(piece, m) \in Nat
  BY <1>2, VectorFacts, ValueAssumption
<1>4. \A m \in V : g[m] \in Nat /\ f[m] \in Nat /\ f[m] = Sharing(piece, m) * g[m]
  <2> SUFFICES ASSUME NEW m \in V
               PROVE  g[m] \in Nat /\ f[m] \in Nat /\ f[m] = Sharing(piece, m) * g[m]
    OBVIOUS
  <2>1. g[m] = m[t] /\ m[t] \in Nat /\ f[m] = Sharing(piece, m) * m[t]
    BY <1>2, <1>3 DEF RowsOf
  <2> QED BY <1>3, <2>1, TimesNat
<1>5. \A v \in Value : h[v] \in V /\ w[v] = g[h[v]]
  BY <1>2 DEF Vectors, CountVector
<1>6. DependsOn(w, Value, h, g, V)
  BY <1>5 DEF DependsOn
<1>7. CountsGroups(f, Value, h, g, V)
  <2> SUFFICES ASSUME NEW m \in V PROVE f[m] = Cardinality({v \in Value : h[v] = m}) * g[m]
    BY DEF CountsGroups
  <2>1. {v \in Value : h[v] = m} = {v \in Value : CountVector(piece, v) = m}
    BY <1>2
  <2> QED BY <1>4, <2>1 DEF Sharing
<1>8. \A m \in V : g[m] \in Nat
  BY <1>4
<1>9. SumOf(w, Value) = SumOf(f, V)
  BY ONLY <1>3, <1>6, <1>7, <1>8, SumByGroups
<1>10. TableRows(t) = SumOf(w, Value)
  BY <1>1, <1>2, KeysOfRows
<1> QED BY <1>2, <1>3, <1>4, <1>9, <1>10 DEF Nats

LEMMA AddDegreesRows ==
    ASSUME NEW T, IsFiniteSet(T), NEW st \in Growing(T), NEW m \in [T -> Nat], NEW n \in Nat,
           NEW t \in T, Placed(st.ds[t])
    PROVE  /\ Placed(AddDegrees(st, m, n).ds[t])
           /\ GetNDV(AddDegrees(st, m, n).ds[t]) <= GetNDV(st.ds[t]) + n * m[t]
           /\ GetNDV(st.ds[t]) \in Nat
<1>1. PICK d : d \in Seq(Bucket) /\ d = st.ds[t] /\ Placed(d) /\ DOMAIN st.ds = T
  BY DEF Growing
<1>2. PICK c \in Nat, x \in Nat : c = m[t] /\ x = c * n /\ x = n * c
  BY TimesNat
<1>3. GetNDV(d) \in Nat
  BY <1>1, CountsFacts
<1>4. CASE Product(m) = 0
  BY <1>1, <1>2, <1>3, <1>4 DEF AddDegrees
<1>5. CASE Product(m) # 0
  <2>1. PICK P \in Nat \ {0}, q \in Nat : P = Product(m) /\ P = c * q
    BY <1>2, <1>5, ProductMultiple
  <2>2. c # 0
    BY <2>1
  <2>3. PICK e \in Nat : e = P \div c
    BY <2>1, <2>2, DivFacts
  <2>4. AddDegrees(st, m, n).ds[t] = AddDegree(d, e, x)
    BY <1>1, <1>2, <1>5, <2>1, <2>3 DEF AddDegrees, Tables
  <2>5. Placed(AddDegree(d, e, x)) /\ GetNDV(AddDegree(d, e, x)) = GetNDV(d) + x
    BY <1>1, AddDegreePlaced, AddDegreeRows
  <2> QED BY <1>1, <1>2, <1>3, <2>4, <2>5
<1> QED BY <1>4, <1>5

LEMMA PieceRows ==
    ASSUME DBOK, NEW piece, Star(plan, piece), NEW t \in piece.tables
    PROVE  /\ Placed(PieceIter(piece)[Vectors(piece)].ds[t])
           /\ GetNDV(PieceIter(piece)[Vectors(piece)].ds[t]) <= TableRows(t)
<1>1. PICK T, V, I, f : /\ T = piece.tables /\ V = Vectors(piece) /\ I = PieceIter(piece)
                        /\ f = RowsOf(piece, t)
  OBVIOUS
<1>2. /\ IsFiniteSet(T) /\ IsFiniteSet(V)
      /\ \A m \in V : m \in [T -> Nat] /\ Sharing(piece, m) \in Nat
  BY <1>1, VectorFacts
<1>3. PICK pick : pick = AnyOf(V) /\ Picks(pick, V) /\ \A s \in SUBSET V : pick[s] = Pick(s)
  BY AnyOfPicks
<1>4. \A s \in SUBSET V :
         /\ I[s] \in Growing(T)
         /\ I[s] = IF s = {} THEN NewStat(T)
                   ELSE AddDegrees(I[s \ {Pick(s)}], Pick(s), Sharing(piece, Pick(s)))
  BY <1>1, PieceIterFacts
<1>5. Nats(f, V) /\ SumOf(f, V) = TableRows(t) /\ \A m \in V : f[m] = Sharing(piece, m) * m[t]
  BY <1>1, RowsOfFacts DEF RowsOf
<1>6. PICK Good : Good = {s \in SUBSET V : Placed(I[s].ds[t]) /\ GetNDV(I[s].ds[t]) <= SumOf(f, s)}
  OBVIOUS
<1>7. {} \in Good
  <2>1. I[{}].ds[t] = NoDegrees
    <3>1. {} \in SUBSET V
      OBVIOUS
    <3>2. I[{}] = NewStat(T) /\ t \in T
      BY <1>1, <1>4, <3>1
    <3> QED BY <3>2 DEF NewStat
  <2>2. Placed(NoDegrees) /\ GetNDV(NoDegrees) = 0
    <3>1. DOMAIN NoDegrees = {}
      BY DEF NoDegrees
    <3> QED BY <3>1, CardOfNone DEF Placed
  <2> QED BY <1>6, <2>1, <2>2, SumEmpty
<1>8. ASSUME NEW s \in SUBSET V, s # {}, s \ {pick[s]} \in Good PROVE s \in Good
  <2>1. PICK m \in s : m = pick[s] /\ m = Pick(s)
    BY <1>3, <1>8 DEF Picks
  <2>a. PICK L : L = s \ {m} /\ L \in SUBSET V /\ L \in Good
    BY <1>8, <2>1
  <2>2. PICK st \in Growing(T) : st = I[L]
    BY <1>4, <2>a
  <2>3. PICK n \in Nat : n = Sharing(piece, m)
    BY <1>2
  <2>4. I[s] = AddDegrees(st, m, n)
    BY <1>4, <1>8, <2>1, <2>a, <2>2, <2>3
  <2>5. Placed(st.ds[t]) /\ GetNDV(st.ds[t]) <= SumOf(f, L)
    BY <1>6, <2>a, <2>2
  <2>6. m \in [T -> Nat] /\ t \in T
    BY <1>1, <1>2
  <2>7. /\ Placed(I[s].ds[t]) /\ GetNDV(I[s].ds[t]) <= GetNDV(st.ds[t]) + n * m[t]
        /\ GetNDV(st.ds[t]) \in Nat
    BY ONLY <1>2, <2>2, <2>3, <2>4, <2>5, <2>6, AddDegreesRows
  <2>8. /\ SumOf(f, s) = f[m] + SumOf(f, L) /\ f[m] \in Nat /\ f[m] = n * m[t]
        /\ SumOf(f, L) \in Nat
    <3>1. Nats(f, s)
      BY <1>5, NatsOfPart
    <3> QED BY <1>5, <2>a, <2>3, <3>1, SumTakeOut
  <2>9. GetNDV(I[s].ds[t]) \in Nat
    <3>1. I[s].ds[t] \in Seq(Bucket)
      BY <1>4, <2>6 DEF Growing
    <3> QED BY <3>1, CountsFacts
  <2>10. GetNDV(I[s].ds[t]) <= SumOf(f, s)
    BY <2>5, <2>7, <2>8, <2>9
  <2> QED BY <1>6, <2>7, <2>10
<1>9. \A s \in SUBSET V : s \in Good
  BY ONLY <1>2, <1>3, <1>7, <1>8, FoldInduction
<1> QED BY <1>1, <1>5, <1>6, <1>9

Ordered(s, rows) == Descends(s) /\ GetNDV(s) <= rows

LEMMA CollectedOrdered ==
    ASSUME DBOK, NEW piece, Star(plan, piece), NEW t \in piece.tables
    PROVE  Ordered(CollectPiece(piece).ds[t], TableRows(t))
<1>1. PICK st, T : st = PieceIter(piece)[Vectors(piece)] /\ T = piece.tables
  OBVIOUS
<1>2. /\ st \in [card : Nat, centralDs : Seq(Bucket), ds : [T -> Seq(Bucket)]]
      /\ Adding(st.ds[t], st.card)
  BY <1>1, PieceGrows DEF Growing
<1>3. PICK d, c : d = st.ds[t] /\ c = st.card /\ c \in Nat /\ d \in Seq(Bucket)
  BY <1>1, <1>2
<1>4. Collecting(d) /\ PositiveDegrees(d) /\ Placed(d) /\ GetNDV(d) <= TableRows(t)
  BY <1>1, <1>2, <1>3, PieceRows DEF Adding
<1>5. PICK e : e = FinishCollection(d)
  OBVIOUS
<1>6. e \in Seq(FinishedBucket) /\ Descends(e) /\ GetNDV(e) <= GetNDV(d)
  BY <1>4, <1>5, FinishFacts, FinishDescends, FinishRows
<1>7. Degrees(e)
  BY <1>6, FinishedDegrees
<1>8. PICK r : r = LimitDsToCard(e, c)
  OBVIOUS
<1>9. Descends(r) /\ GetNDV(r) <= GetNDV(e)
  BY <1>3, <1>6, <1>7, <1>8, LimitDescends
<1>10. r \in Seq(FinishedBucket)
  <2>1. GetCard(e) \in Nat
    BY <1>7, DegreesFacts
  <2> QED BY <1>3, <1>6, <1>7, <1>8, <2>1, LimitFacts
<1>11. GetNDV(r) \in Nat /\ GetNDV(e) \in Nat /\ GetNDV(d) \in Nat
  BY <1>3, <1>7, <1>10, FinishedDegrees, DegreesFacts, CountsFacts
<1>12. TableRows(t) \in Nat
  <2>1. Nats(RowsOf(piece, t), Vectors(piece))
        /\ SumOf(RowsOf(piece, t), Vectors(piece)) = TableRows(t)
    BY RowsOfFacts
  <2> QED BY <2>1, SumNat DEF Nats
<1>13. GetNDV(r) <= TableRows(t)
  BY <1>4, <1>6, <1>9, <1>11, <1>12
<1>14. FinishStat(st).ds[t] = r
  BY <1>1, <1>2, <1>3, <1>5, <1>8 DEF FinishStat, LimitAllDsToCard, Tables
<1> QED BY <1>1, <1>9, <1>13, <1>14, CollectUnfold DEF Ordered

-----------------------------------------------------------------------------
(***************************************************************************)
(* Collected summaries descend and have no more rows than their tables.    *)
(***************************************************************************)
OrderedInv ==
    pc = "ready" /\ next = 1 =>
        \A i \in DOMAIN stats : \A t \in Tables(stats[i]) :
            Ordered(stats[i].ds[t], TableRows(t))

LEMMA SameRows ==
    ASSUME UNCHANGED input, NEW t
    PROVE  TableRows(t)' = TableRows(t)
<1>1. plan' = plan /\ db' = db
  BY DEF input
<1> QED BY <1>1 DEF TableRows, Rows, MapThenSumSet, MapThenFoldSet

LEMMA OrderedStep ==
    ASSUME DSInv, OrderedInv, [Next]_vars
    PROVE  OrderedInv'
<1>1. CASE CollectStatistics
  <2>1. /\ UNCHANGED input /\ DOMAIN stats' = DOMAIN plan.pieces
        /\ \A i \in DOMAIN plan.pieces : stats'[i] = CollectPiece(plan.pieces[i])
    BY <1>1 DEF CollectStatistics
  <2>2. DBOK /\ plan \in Plans
    BY DEF DSInv, TypeOK, DBOK
  <2>3. ASSUME NEW i \in DOMAIN plan.pieces, NEW t \in Tables(stats[i])'
        PROVE  Ordered(stats[i].ds[t], TableRows(t))'
    <3>1. PICK piece : piece = plan.pieces[i] /\ Star(plan, piece)
      BY <2>2, PlanFacts
    <3>2. stats'[i] = CollectPiece(piece)
      BY <2>1, <3>1
    <3>3. t \in piece.tables
      BY <2>2, <3>1, <3>2, CollectPieceFacts DEF Tables
    <3>4. Ordered(stats'[i].ds[t], TableRows(t))
      BY <2>2, <3>1, <3>2, <3>3, CollectedOrdered
    <3>5. TableRows(t)' = TableRows(t)
      BY <2>1, SameRows
    <3> QED BY <3>4, <3>5 DEF Ordered, Descends
  <2> QED BY <2>1, <2>3 DEF OrderedInv
<1>2. CASE UNCHANGED <<input, pc, next, stats>>
  <2>1. \A t : TableRows(t)' = TableRows(t)
    BY <1>2, SameRows
  <2> QED BY <1>2, <2>1 DEF OrderedInv, Ordered, Descends, Tables
<1>3. CASE BeginMerge \/ Iterate \/ EdgesDone
  <2>1. pc' # "ready"
    BY <1>3 DEF BeginMerge, Iterate, EdgesDone
  <2> QED BY <2>1 DEF OrderedInv
<1>4. CASE BeyondBuckets \/ CompleteRow \/ ExtendRow \/ TakeBucket \/ PartOfBucket
  <2>1. pc' # "ready"
    BY <1>4 DEF BeyondBuckets, CompleteRow, ExtendRow, TakeBucket, PartOfBucket, Frame, AtBucket, Visiting
  <2> QED BY <2>1 DEF OrderedInv
<1>5. CASE EndMerge
  <2>1. next' = next + 1 /\ next \in 1..(Len(plan.steps) + 1)
    BY <1>5 DEF EndMerge, DSInv, TypeOK
  <2>2. Len(plan.steps) \in Nat
    BY PlanFacts DEF DSInv, TypeOK
  <2>3. next' # 1
    BY <2>1, <2>2
  <2> QED BY <2>3 DEF OrderedInv
<1>6. CASE Terminated \/ UNCHANGED vars
  BY <1>2, <1>6 DEF Terminated, vars
<1> QED BY <1>1, <1>3, <1>4, <1>5, <1>6 DEF Next

(***************************************************************************)
(* When a star has been collected, the sequence of each of its tables      *)
(* gives the degrees in descending order, in spite of the remainder that   *)
(* LimitDsToCard appends, and has no more rows than the table.             *)
(***************************************************************************)
THEOREM CollectedDescend == Spec => []OrderedInv
<1>1. Init => OrderedInv
  BY DEF Init, OrderedInv
<1>2. DSInv /\ OrderedInv /\ [Next]_vars => OrderedInv'
  BY OrderedStep
<1> QED BY <1>1, <1>2, Invariant, PTL DEF Spec

-----------------------------------------------------------------------------
(***************************************************************************)
(* The largest degrees.  Top(s, n) as a function of n is concave when s    *)
(* descends.                                                               *)
(***************************************************************************)
\* A sum whose partial sums are known.
Totals(f, P, n) == P[0] = 0 /\ \A i \in 1..n : f[i] \in Nat /\ P[i] = P[i - 1] + f[i]

LEMMA Telescope ==
    ASSUME NEW n \in Nat, NEW f, NEW P, Totals(f, P, n), NEW p \in 0..n
    PROVE  SumOf(f, 1..p) = P[p] /\ P[p] \in Nat
<1> DEFINE Bad == {k \in 0..n : ~(SumOf(f, 1..k) = P[k] /\ P[k] \in Nat)}
<1>1. ASSUME Bad # {} PROVE FALSE
  <2>1. PICK k \in Bad : \A l \in Bad : k <= l
    <3>1. Bad \in SUBSET Nat
      OBVIOUS
    <3> HIDE DEF Bad
    <3> QED BY <1>1, <3>1, LeastNat
  <2>2. k \in 0..n /\ ~(SumOf(f, 1..k) = P[k] /\ P[k] \in Nat)
    OBVIOUS
  <2>3. k # 0
    <3>1. 1..0 = {}
      OBVIOUS
    <3> QED BY <2>2, <3>1, SumEmpty DEF Totals
  <2>4. PICK l \in Nat : l = k - 1 /\ k = l + 1 /\ l \in 0..n /\ ~(k <= l) /\ k \in 1..n
    <3>1. k - 1 \in Nat /\ k = (k - 1) + 1 /\ k - 1 \in 0..n /\ ~(k <= k - 1) /\ k \in 1..n
      BY <2>2, <2>3
    <3> QED BY <3>1
  <2>5. SumOf(f, 1..l) = P[l] /\ P[l] \in Nat
    <3>1. l \notin Bad
      <4> HIDE DEF Bad
      <4> QED BY <2>1, <2>4
    <3> QED BY <2>4, <3>1
  <2>6. \A i \in 1..(l + 1) : f[i] \in Nat
    BY <2>4 DEF Totals
  <2>7. SumOf(f, 1..(l + 1)) = SumOf(f, 1..l) + f[l + 1]
    BY <2>6, SumNext
  <2>8. P[k] = P[l] + f[k] /\ f[k] \in Nat
    BY <2>4 DEF Totals
  <2> QED BY <2>2, <2>4, <2>5, <2>7, <2>8
<1>2. p \notin Bad
  BY <1>1
<1> QED BY <1>2

\* How many of the first n rows are in bucket i.
Taken(s, n) == [i \in DOMAIN s |-> Max({0, Min({s[i].count, n - NDVUpTo(s, i - 1)})})]
Shares(s, n) == [i \in DOMAIN s |-> s[i].maxDegree * Taken(s, n)[i]]

TakenIs(x, n, u, c) ==
    /\ u \in Nat /\ c \in Nat /\ x \in Nat
    /\ x = IF n <= u THEN 0 ELSE IF n <= u + c THEN n - u ELSE c

LEMMA TakenFacts ==
    ASSUME NEW s, Degrees(s), NEW n \in Nat, NEW i \in DOMAIN s
    PROVE  /\ TakenIs(Taken(s, n)[i], n, NDVUpTo(s, i - 1), s[i].count)
           /\ NDVUpTo(s, i) = NDVUpTo(s, i - 1) + s[i].count
<1>1. i \in 1..Len(s)
  BY DegreesFacts
<1>2. PICK u \in Nat, w \in Nat, c \in Nat :
         u = NDVUpTo(s, i - 1) /\ w = NDVUpTo(s, i) /\ c = s[i].count /\ w = u + c
  BY <1>1, DegreesFacts, UpToNext
<1>3. PICK y \in Int : y = n - u
  OBVIOUS
<1>4. PICK z \in Int : z = Min({c, y}) /\ z = IF c <= y THEN c ELSE y
  BY <1>2, <1>3, MinOfTwo
<1>5. PICK x \in Nat : x = Max({0, z}) /\ x = IF z <= 0 THEN 0 ELSE z
  <2>1. Max({0, z}) = IF 0 >= z THEN 0 ELSE z
    BY <1>4, MaxOfTwo
  <2>2. (IF z <= 0 THEN 0 ELSE z) \in Nat
    BY <1>4
  <2> QED BY <2>1, <2>2
<1>6. Taken(s, n)[i] = x
  BY <1>2, <1>3, <1>4, <1>5 DEF Taken
<1>7. x = IF n <= u THEN 0 ELSE IF n <= u + c THEN n - u ELSE c
  <2>1. (z = IF c <= y THEN c ELSE y) /\ (x = IF z <= 0 THEN 0 ELSE z)
    BY <1>4, <1>5
  <2>2. CASE n <= u
    BY ONLY <1>3, <2>1, <2>2, n \in Nat, u \in Nat, c \in Nat
  <2>3. CASE n > u /\ n <= u + c
    BY ONLY <1>3, <2>1, <2>3, n \in Nat, u \in Nat, c \in Nat
  <2>4. CASE n > u /\ n > u + c
    BY ONLY <1>3, <2>1, <2>4, n \in Nat, u \in Nat, c \in Nat
  <2> QED BY <2>2, <2>3, <2>4
<1> QED BY <1>2, <1>6, <1>7 DEF TakenIs

LEMMA SharesFacts ==
    ASSUME NEW s, Degrees(s), NEW n \in Nat
    PROVE  /\ Nats(Taken(s, n), DOMAIN s) /\ Nats(Shares(s, n), DOMAIN s)
           /\ \A i \in DOMAIN s : Shares(s, n)[i] = s[i].maxDegree * Taken(s, n)[i]
<1>1. IsFiniteSet(DOMAIN s)
  BY DegreesFacts DEF Nats
<1>2. \A i \in DOMAIN s : Taken(s, n)[i] \in Nat
  BY TakenFacts DEF TakenIs
<1>3. \A i \in DOMAIN s : Shares(s, n)[i] = s[i].maxDegree * Taken(s, n)[i]
  BY DEF Shares
<1>4. \A i \in DOMAIN s : Shares(s, n)[i] \in Nat
  BY <1>2, <1>3, DegreesFacts, TimesNat
<1> QED BY <1>1, <1>2, <1>3, <1>4 DEF Nats

TopBody(s, n, iter) ==
    [d \in SUBSET DOMAIN s |->
        IF d = {} THEN 0
        ELSE s[Pick(d)].maxDegree
               * Max({0, Min({s[Pick(d)].count, n - NDVUpTo(s, Pick(d) - 1)})})
             + iter[d \ {Pick(d)}]]

LEMMA TopIsSum ==
    ASSUME NEW s, NEW n
    PROVE  Top(s, n) = SumOf(Shares(s, n), DOMAIN s)
<1>1. Top(s, n) = (CHOOSE iter : iter = TopBody(s, n, iter))[DOMAIN s]
  BY DEF Top, MapThenSumSet, MapThenFoldSet, Pick, TopBody
<1>2. \A d \in SUBSET DOMAIN s :
         d # {} => Shares(s, n)[Pick(d)] =
                     s[Pick(d)].maxDegree
                       * Max({0, Min({s[Pick(d)].count, n - NDVUpTo(s, Pick(d) - 1)})})
  BY PickIn DEF Shares, Taken
<1>3. \A iter : TopBody(s, n, iter) = SumBody(Shares(s, n), DOMAIN s, iter)
  BY <1>2 DEF TopBody, SumBody
<1>4. (CHOOSE iter : iter = TopBody(s, n, iter)) = SumIter(Shares(s, n), DOMAIN s)
  BY <1>3 DEF SumIter
<1> QED BY <1>1, <1>4, SumUnfold

LEMMA TopNat ==
    ASSUME NEW s, Degrees(s), NEW n \in Nat
    PROVE  Top(s, n) \in Nat
BY SharesFacts, TopIsSum, SumNat DEF Nats

\* The first n rows are n rows, unless there are fewer.
LEMMA TakenTotal ==
    ASSUME NEW s, Degrees(s), NEW n \in Nat
    PROVE  /\ SumOf(Taken(s, n), DOMAIN s) \in Nat
           /\ SumOf(Taken(s, n), DOMAIN s) = IF n <= GetNDV(s) THEN n ELSE GetNDV(s)
<1>1. PICK m \in Nat : m = Len(s) /\ DOMAIN s = 1..m
  BY DegreesFacts
<1>2. PICK N : N = [i \in 0..m |-> NDVUpTo(s, i)]
  OBVIOUS
<1>3. N[0] = 0 /\ N[m] = GetNDV(s) /\ \A i \in 0..m : N[i] = NDVUpTo(s, i) /\ N[i] \in Nat
  BY <1>1, <1>2, UpToEnds, UpToFacts
<1>4. PICK P : P = [i \in 0..m |-> IF n <= N[i] THEN n ELSE N[i]]
  OBVIOUS
<1>5. PICK f : f = Taken(s, n)
  OBVIOUS
<1>6. P[0] = 0 /\ P[m] = IF n <= GetNDV(s) THEN n ELSE GetNDV(s)
  <2>1. 0 \in 0..m /\ m \in 0..m
    OBVIOUS
  <2> QED BY <1>3, <1>4, <2>1
<1>7. ASSUME NEW i \in 1..m PROVE f[i] \in Nat /\ P[i] = P[i - 1] + f[i]
  <2>1. i \in DOMAIN s /\ i \in 0..m /\ i - 1 \in 0..m
    BY <1>1
  <2>2. PICK u \in Nat, w \in Nat, c \in Nat, x \in Nat :
              /\ u = NDVUpTo(s, i - 1) /\ w = NDVUpTo(s, i) /\ w = u + c /\ x = f[i]
              /\ x = IF n <= u THEN 0 ELSE IF n <= w THEN n - u ELSE c
    <3>1. PICK u, w, c, x : /\ u = NDVUpTo(s, i - 1) /\ w = NDVUpTo(s, i)
                            /\ c = s[i].count /\ x = f[i]
      OBVIOUS
    <3>2. w = u + c /\ TakenIs(x, n, u, c)
      BY <1>5, <2>1, <3>1, TakenFacts
    <3> QED BY <3>1, <3>2 DEF TakenIs
  <2>3. P[i] = (IF n <= w THEN n ELSE w) /\ P[i - 1] = IF n <= u THEN n ELSE u
    BY <1>3, <1>4, <2>1, <2>2
  <2> QED BY <2>2, <2>3
<1>8. Totals(f, P, m)
  BY <1>6, <1>7 DEF Totals
<1>9. m \in 0..m
  OBVIOUS
<1>10. SumOf(f, 1..m) = P[m] /\ P[m] \in Nat
  BY ONLY <1>8, <1>9, m \in Nat, Telescope
<1> QED BY <1>1, <1>5, <1>6, <1>10

LEMMA TopEnds ==
    ASSUME NEW s, Degrees(s)
    PROVE  Top(s, 0) = 0 /\ \A n \in Nat : n >= GetNDV(s) => Top(s, n) = GetCard(s)
<1>1. PICK m \in Nat : m = Len(s) /\ DOMAIN s = 1..m
  BY DegreesFacts
<1>2. Top(s, 0) = 0
  <2>1. ASSUME NEW i \in DOMAIN s PROVE Shares(s, 0)[i] = 0
    <3>1. PICK x, u, c : x = Taken(s, 0)[i] /\ u = NDVUpTo(s, i - 1) /\ c = s[i].count
      OBVIOUS
    <3>2. TakenIs(x, 0, u, c)
      BY <3>1, TakenFacts
    <3>3. x = 0
      BY <3>2 DEF TakenIs
    <3> QED BY <3>1, <3>3, SharesFacts, DegreesFacts
  <2>2. IsFiniteSet(DOMAIN s)
    BY DegreesFacts DEF Nats
  <2> QED BY <2>1, <2>2, SumZero, TopIsSum
<1>3. ASSUME NEW n \in Nat, n >= GetNDV(s) PROVE Top(s, n) = GetCard(s)
  <2>1. ASSUME NEW i \in DOMAIN s PROVE Shares(s, n)[i] = Amounts(s)[i]
    <3>1. PICK x, u, c : x = Taken(s, n)[i] /\ u = NDVUpTo(s, i - 1) /\ c = s[i].count
      OBVIOUS
    <3>2. TakenIs(x, n, u, c) /\ NDVUpTo(s, i) = u + c
      BY <3>1, TakenFacts
    <3>3. NDVUpTo(s, i) <= GetNDV(s) /\ GetNDV(s) \in Nat
      <4>1. i \in 0..Len(s) /\ Len(s) \in 0..Len(s) /\ i <= Len(s)
        BY <1>1
      <4> QED BY <4>1, UpToGrows, UpToEnds, DegreesFacts
    <3>4. x = c
      BY <1>3, <3>2, <3>3 DEF TakenIs
    <3>a. PICK e \in Nat : e = s[i].maxDegree
      BY DegreesFacts
    <3>5. Amounts(s)[i] = c * e /\ c \in Nat
      <4>1. Amounts(s)[i] = s[i].count * s[i].maxDegree /\ s[i].count \in Nat
        BY DegreesFacts
      <4> QED BY <3>1, <3>a, <4>1
    <3>6. Shares(s, n)[i] = e * c
      <4>1. Shares(s, n)[i] = s[i].maxDegree * Taken(s, n)[i]
        BY SharesFacts
      <4> QED BY <3>1, <3>4, <3>a, <4>1
    <3> QED BY <3>5, <3>6, TimesNat
  <2> QED BY <2>1, SumExtensional, TopIsSum, CardIsSum
<1> QED BY <1>2, <1>3

\* Where rows are exchanged for others at no loss.
Favours(s, a, b, d) ==
    \A i \in DOMAIN s : s[i].maxDegree * Taken(s, b)[i] + d * Taken(s, a)[i]
                        <= s[i].maxDegree * Taken(s, a)[i] + d * Taken(s, b)[i]

LEMMA SlopeSum ==
    ASSUME NEW s, Degrees(s), NEW a \in Nat, NEW b \in Nat, NEW d \in Nat, Favours(s, a, b, d)
    PROVE  Top(s, b) + d * SumOf(Taken(s, a), DOMAIN s)
           <= Top(s, a) + d * SumOf(Taken(s, b), DOMAIN s)
<1>1. PICK S, fa, fb, ta, tb : /\ S = DOMAIN s /\ fa = Shares(s, a) /\ fb = Shares(s, b)
                               /\ ta = Taken(s, a) /\ tb = Taken(s, b)
  OBVIOUS
<1>2. /\ Nats(fa, S) /\ Nats(fb, S) /\ Nats(ta, S) /\ Nats(tb, S)
      /\ \A i \in S : fa[i] = s[i].maxDegree * ta[i] /\ fb[i] = s[i].maxDegree * tb[i]
  BY <1>1, SharesFacts
<1>3. PICK g, h : /\ g = [i \in S |-> 1 * fb[i] + d * ta[i]]
                  /\ h = [i \in S |-> 1 * fa[i] + d * tb[i]]
  OBVIOUS
<1>4. ASSUME NEW i \in S PROVE g[i] \in Nat /\ h[i] \in Nat /\ g[i] <= h[i]
  <2>1. PICK x \in Nat, y \in Nat, p \in Nat, q \in Nat :
           x = fa[i] /\ y = fb[i] /\ p = d * ta[i] /\ q = d * tb[i]
    BY <1>2, TimesNat DEF Nats
  <2>2. g[i] = y + p /\ h[i] = x + q
    BY <1>3, <2>1
  <2>3. y + p <= x + q
    BY <1>1, <1>2, <2>1 DEF Favours
  <2> QED BY <2>1, <2>2, <2>3
<1>5. Nats(g, S) /\ Nats(h, S)
  BY <1>2, <1>4 DEF Nats
<1>6. SumOf(g, S) <= SumOf(h, S)
  BY <1>4, <1>5, SumMonotone
<1>7. SumOf(g, S) = 1 * SumOf(fb, S) + d * SumOf(ta, S)
  BY <1>2, <1>3, <1>5, SumLinear
<1>8. SumOf(h, S) = 1 * SumOf(fa, S) + d * SumOf(tb, S)
  BY <1>2, <1>3, <1>5, SumLinear
<1>9. SumOf(fa, S) \in Nat /\ SumOf(fb, S) \in Nat
  BY <1>2, SumNat DEF Nats
<1>10. 1 * SumOf(fa, S) = Top(s, a) /\ 1 * SumOf(fb, S) = Top(s, b)
  BY <1>1, <1>9, TopIsSum
<1> QED BY <1>1, <1>6, <1>7, <1>8, <1>10

\* The degree of row c.
SlopeAt(s, c, d) ==
    /\ d \in Nat
    /\ \A r \in Nat : r <= c => Top(s, r) + d * c <= Top(s, c) + d * r
    /\ \A q \in Nat : c <= q => Top(s, q) + d * c <= Top(s, c) + d * q

\* Before row c degrees are at least d, from there on at most d.
Splits(s, c, d) ==
    /\ d \in Nat /\ (c <= GetNDV(s) \/ d = 0)
    /\ \A i \in DOMAIN s : /\ s[i].maxDegree >= d \/ Taken(s, c)[i] = 0
                           /\ s[i].maxDegree <= d \/ Taken(s, c)[i] = s[i].count

LEMMA SplitsExist ==
    ASSUME NEW s, Degrees(s), Descends(s), NEW c \in Nat
    PROVE  \E d \in Nat : Splits(s, c, d)
<1>1. PICK m \in Nat : m = Len(s) /\ DOMAIN s = 1..m
  BY DegreesFacts
<1>2. PICK J : J = {j \in 1..m : NDVUpTo(s, j) >= c}
  OBVIOUS
<1>3. CASE J = {}
  <2>1. ASSUME NEW i \in DOMAIN s
        PROVE  s[i].maxDegree >= 0 /\ Taken(s, c)[i] = s[i].count
    <3>1. PICK x, u, n : x = Taken(s, c)[i] /\ u = NDVUpTo(s, i - 1) /\ n = s[i].count
      OBVIOUS
    <3>2. TakenIs(x, c, u, n) /\ NDVUpTo(s, i) = u + n
      BY <3>1, TakenFacts
    <3>3. ~(u + n >= c)
      BY <1>1, <1>2, <1>3, <3>2
    <3>4. x = n
      BY <3>2, <3>3 DEF TakenIs
    <3> QED BY <3>1, <3>4, DegreesFacts
  <2>2. Splits(s, c, 0)
    BY <2>1 DEF Splits
  <2> QED BY <2>2
<1>4. CASE J # {}
  <2>1. PICK j \in J : \A k \in J : j <= k
    <3>1. J \in SUBSET Nat
      BY <1>2
    <3> QED BY <1>4, <3>1, LeastNat
  <2>2. j \in 1..m /\ NDVUpTo(s, j) >= c
    BY <1>2, <2>1
  <2>3. PICK d \in Nat : d = s[j].maxDegree
    BY <1>1, <2>2, DegreesFacts
  <2>4. c <= GetNDV(s)
    <3>1. j \in 0..Len(s) /\ Len(s) \in 0..Len(s) /\ j <= Len(s)
      BY <1>1, <2>2
    <3>2. NDVUpTo(s, j) <= GetNDV(s) /\ NDVUpTo(s, j) \in Nat /\ GetNDV(s) \in Nat
      BY <3>1, UpToGrows, UpToEnds, UpToFacts, DegreesFacts
    <3> QED BY <2>2, <3>2
  <2>5. ASSUME NEW i \in DOMAIN s
        PROVE  /\ s[i].maxDegree >= d \/ Taken(s, c)[i] = 0
               /\ s[i].maxDegree <= d \/ Taken(s, c)[i] = s[i].count
    <3>1. PICK x, u, n : x = Taken(s, c)[i] /\ u = NDVUpTo(s, i - 1) /\ n = s[i].count
      OBVIOUS
    <3>2. TakenIs(x, c, u, n) /\ NDVUpTo(s, i) = u + n
      BY <3>1, TakenFacts
    <3>3. PICK e \in Nat : e = s[i].maxDegree
      BY DegreesFacts
    <3>4. CASE i = j
      BY <2>3, <3>3, <3>4
    <3>5. CASE i < j
      <4>1. d <= e
        BY <1>1, <2>2, <2>3, <3>3, <3>5 DEF Descends
      <4>2. ~(j <= i) /\ i \in 1..m
        BY <1>1, <2>2, <3>5
      <4>3. ~(NDVUpTo(s, i) >= c)
        BY <1>2, <2>1, <4>2
      <4>4. x = n
        BY <3>2, <4>3 DEF TakenIs
      <4> QED BY <3>1, <3>3, <4>1, <4>4
    <3>6. CASE j < i
      <4>1. e <= d
        BY <1>1, <2>2, <2>3, <3>3, <3>6 DEF Descends
      <4>2. j \in 0..Len(s) /\ i - 1 \in 0..Len(s) /\ j <= i - 1
        BY <1>1, <2>2, <3>6
      <4>3. NDVUpTo(s, j) <= u /\ NDVUpTo(s, j) \in Nat
        BY <3>1, <4>2, UpToGrows, UpToFacts
      <4>4. x = 0
        BY <2>2, <3>2, <4>3 DEF TakenIs
      <4> QED BY <3>1, <3>3, <4>1, <4>4
    <3> QED BY <1>1, <2>2, <3>4, <3>5, <3>6
  <2>6. Splits(s, c, d)
    BY <2>4, <2>5 DEF Splits
  <2> QED BY <2>6
<1> QED BY <1>3, <1>4

LEMMA MoreTaken ==
    ASSUME NEW a \in Nat, NEW b \in Nat, a <= b, NEW x, NEW y, NEW u, NEW n,
           TakenIs(x, a, u, n), TakenIs(y, b, u, n)
    PROVE  x <= y /\ y <= n
BY DEF TakenIs

LEMMA SlopeExists ==
    ASSUME NEW s, Degrees(s), Descends(s), NEW c \in Nat
    PROVE  \E d \in Nat : SlopeAt(s, c, d)
<1>1. PICK d \in Nat : Splits(s, c, d)
  BY SplitsExist
<1>2. PICK tot : tot = [n \in Nat |-> SumOf(Taken(s, n), DOMAIN s)]
  OBVIOUS
<1>3. PICK N \in Nat : N = GetNDV(s)
  BY DegreesFacts
<1>4. \A n \in Nat : tot[n] \in Nat /\ tot[n] = (IF n <= N THEN n ELSE N)
                     /\ tot[n] = SumOf(Taken(s, n), DOMAIN s)
  BY <1>2, <1>3, TakenTotal
<1>5. d * tot[c] = d * c \/ d = 0
  BY <1>1, <1>3, <1>4 DEF Splits
<1>6. ASSUME NEW r \in Nat, r <= c PROVE Top(s, r) + d * c <= Top(s, c) + d * r
  <2>1. ASSUME NEW i \in DOMAIN s
        PROVE  s[i].maxDegree * Taken(s, r)[i] + d * Taken(s, c)[i]
               <= s[i].maxDegree * Taken(s, c)[i] + d * Taken(s, r)[i]
    <3>1. PICK x, y, u, n, e : /\ x = Taken(s, r)[i] /\ y = Taken(s, c)[i]
                               /\ u = NDVUpTo(s, i - 1) /\ n = s[i].count
                               /\ e = s[i].maxDegree /\ e \in Nat
      BY DegreesFacts
    <3>2. TakenIs(x, r, u, n) /\ TakenIs(y, c, u, n)
      BY <3>1, TakenFacts
    <3>3. x <= y /\ x \in Nat /\ y \in Nat
      BY <1>6, <3>2, MoreTaken DEF TakenIs
    <3>4. PICK z \in Nat : y = x + z
      BY <3>3
    <3>5. e >= d \/ y = 0
      BY <1>1, <3>1 DEF Splits
    <3>6. CASE y = 0
      BY <3>1, <3>3, <3>6
    <3>7. CASE e >= d
      <4>1. d * z <= e * z /\ d * z \in Nat /\ e * z \in Nat
        BY <3>1, <3>7, TimesMonotone, TimesNat
      <4>2. e * y = e * x + e * z /\ d * y = d * x + d * z /\ e * x \in Nat /\ d * x \in Nat
        BY <3>1, <3>3, <3>4, Distributes, TimesNat
      <4>3. e * x + d * y <= e * y + d * x
        BY <4>1, <4>2
      <4> QED BY <3>1, <4>3
    <3> QED BY <3>5, <3>6, <3>7
  <2>2. Favours(s, c, r, d)
    BY <2>1 DEF Favours
  <2>3. Top(s, r) + d * tot[c] <= Top(s, c) + d * tot[r]
    BY <1>4, <2>2, SlopeSum
  <2>4. Top(s, r) \in Nat /\ Top(s, c) \in Nat
    BY TopNat
  <2>5. d * tot[r] <= d * r /\ d * tot[r] \in Nat /\ d * r \in Nat
    <3>1. tot[r] \in Nat /\ tot[r] <= r
      BY <1>4
    <3> QED BY <3>1, TimesMonotone, TimesNat
  <2>6. d * c \in Nat /\ d * tot[c] \in Nat
    BY <1>4, TimesNat
  <2>7. CASE d = 0
    <3>1. d * c = 0 /\ d * r = 0 /\ d * tot[c] = 0 /\ d * tot[r] = 0
      BY <1>4, <2>7
    <3> QED BY <2>3, <2>4, <3>1
  <2>8. CASE d * tot[c] = d * c
    BY <2>3, <2>4, <2>5, <2>6, <2>8
  <2> QED BY <1>5, <2>7, <2>8
<1>7. ASSUME NEW q \in Nat, c <= q PROVE Top(s, q) + d * c <= Top(s, c) + d * q
  <2>1. ASSUME NEW i \in DOMAIN s
        PROVE  s[i].maxDegree * Taken(s, q)[i] + d * Taken(s, c)[i]
               <= s[i].maxDegree * Taken(s, c)[i] + d * Taken(s, q)[i]
    <3>1. PICK x, y, u, n, e : /\ x = Taken(s, c)[i] /\ y = Taken(s, q)[i]
                               /\ u = NDVUpTo(s, i - 1) /\ n = s[i].count
                               /\ e = s[i].maxDegree /\ e \in Nat
      BY DegreesFacts
    <3>2. TakenIs(x, c, u, n) /\ TakenIs(y, q, u, n)
      BY <3>1, TakenFacts
    <3>3. x <= y /\ y <= n /\ x \in Nat /\ y \in Nat /\ n \in Nat
      BY <1>7, <3>2, MoreTaken DEF TakenIs
    <3>4. PICK z \in Nat : y = x + z
      BY <3>3
    <3>5. e <= d \/ x = n
      BY <1>1, <3>1 DEF Splits
    <3>6. CASE x = n
      <4>1. x = y
        BY <3>3, <3>6
      <4>2. e * x \in Nat /\ d * x \in Nat
        BY <3>1, <3>3, TimesNat
      <4> QED BY <3>1, <4>1, <4>2
    <3>7. CASE e <= d
      <4>1. e * z <= d * z /\ d * z \in Nat /\ e * z \in Nat
        BY <3>1, <3>7, TimesMonotone, TimesNat
      <4>2. e * y = e * x + e * z /\ d * y = d * x + d * z /\ e * x \in Nat /\ d * x \in Nat
        BY <3>1, <3>3, <3>4, Distributes, TimesNat
      <4>3. e * y + d * x <= e * x + d * y
        BY <4>1, <4>2
      <4> QED BY <3>1, <4>3
    <3> QED BY <3>5, <3>6, <3>7
  <2>2. Favours(s, c, q, d)
    BY <2>1 DEF Favours
  <2>3. Top(s, q) + d * tot[c] <= Top(s, c) + d * tot[q]
    BY <1>4, <2>2, SlopeSum
  <2>4. Top(s, q) \in Nat /\ Top(s, c) \in Nat
    BY TopNat
  <2>5. d * tot[q] <= d * q /\ d * tot[q] \in Nat /\ d * q \in Nat
    <3>1. tot[q] \in Nat /\ tot[q] <= q
      BY <1>4
    <3> QED BY <3>1, TimesMonotone, TimesNat
  <2>6. d * c \in Nat /\ d * tot[c] \in Nat
    BY <1>4, TimesNat
  <2>7. CASE d = 0
    <3>1. d * c = 0 /\ d * q = 0 /\ d * tot[c] = 0 /\ d * tot[q] = 0
      BY <1>4, <2>7
    <3> QED BY <2>3, <2>4, <3>1
  <2>8. CASE d * tot[c] = d * c
    BY <2>3, <2>4, <2>5, <2>6, <2>8
  <2> QED BY <1>5, <2>7, <2>8
<1>8. SlopeAt(s, c, d)
  BY <1>6, <1>7 DEF SlopeAt
<1> QED BY <1>8

(***************************************************************************)
(* The chord from r to q lies below Top at c.                              *)
(***************************************************************************)
LEMMA Chord ==
    ASSUME NEW x \in Nat, NEW y \in Nat, NEW d \in Nat, NEW u \in Nat, NEW v \in Nat,
           d * x <= u, v <= d * y
    PROVE  x * (u + v) <= (x + y) * u
<1>1. PICK p \in Nat, q \in Nat : p = d * x /\ q = d * y
  BY TimesNat
<1>2. x * v <= x * q /\ p * y <= u * y
  BY <1>1, TimesMonotone
<1>3. x * q = p * y
  BY <1>1
<1>4. x * v \in Nat /\ u * y \in Nat /\ x * u \in Nat /\ x * q \in Nat /\ p * y \in Nat
  BY TimesNat
<1>5. x * (u + v) = x * u + x * v /\ (x + y) * u = x * u + u * y
  OBVIOUS
<1> QED BY <1>2, <1>3, <1>4, <1>5

LEMMA TopConcave ==
    ASSUME NEW s, Degrees(s), Descends(s),
           NEW r \in Nat, NEW c \in Nat, NEW q \in Nat, r <= c, c <= q
    PROVE  /\ Top(s, r) <= Top(s, c) /\ Top(s, c) <= Top(s, q)
           /\ (c - r) * (Top(s, q) - Top(s, r)) <= (q - r) * (Top(s, c) - Top(s, r))
<1>1. PICK a \in Nat, b \in Nat, e \in Nat : a = Top(s, r) /\ b = Top(s, c) /\ e = Top(s, q)
  BY TopNat
<1>2. PICK d \in Nat : SlopeAt(s, c, d)
  BY SlopeExists
<1>3. a + d * c <= b + d * r /\ e + d * c <= b + d * q
  BY <1>1, <1>2 DEF SlopeAt
<1>4. PICK x \in Nat, y \in Nat : c = r + x /\ q = c + y
  OBVIOUS
<1>5. /\ d * c = d * r + d * x /\ d * q = d * c + d * y
      /\ d * r \in Nat /\ d * x \in Nat /\ d * y \in Nat /\ d * c \in Nat
  BY <1>4, Distributes, TimesNat
<1>6. a + d * x <= b /\ e <= b + d * y
  BY <1>3, <1>5
<1>7. b <= e
  <2>1. PICK f \in Nat : SlopeAt(s, q, f)
    BY SlopeExists
  <2>2. b + f * q <= e + f * c
    BY <1>1, <2>1 DEF SlopeAt
  <2>3. f * q = f * c + f * y /\ f * c \in Nat /\ f * y \in Nat
    BY <1>4, Distributes, TimesNat
  <2> QED BY <2>2, <2>3
<1>8. PICK u \in Nat, v \in Nat : b = a + u /\ e = b + v /\ d * x <= u /\ v <= d * y
  <2>1. b - a \in Nat /\ e - b \in Nat /\ b = a + (b - a) /\ e = b + (e - b)
        /\ d * x <= b - a /\ e - b <= d * y
    BY <1>5, <1>6, <1>7
  <2> QED BY <2>1
<1>9. x * (u + v) <= (x + y) * u
  BY <1>8, Chord
<1>10. c - r = x /\ q - r = x + y /\ e - a = u + v /\ b - a = u
  BY <1>4, <1>8
<1> QED BY <1>1, <1>7, <1>8, <1>9, <1>10

\* The first c of n rows have at least their share.
LEMMA TopShare ==
    ASSUME NEW s, Degrees(s), Descends(s), NEW n \in Nat, GetNDV(s) <= n,
           NEW c \in Nat, c <= n
    PROVE  c * GetCard(s) <= n * Top(s, c)
<1>1. Top(s, 0) = 0 /\ Top(s, n) = GetCard(s)
  BY TopEnds
<1>2. (c - 0) * (Top(s, n) - Top(s, 0)) <= (n - 0) * (Top(s, c) - Top(s, 0))
  BY TopConcave
<1>3. GetCard(s) \in Nat /\ Top(s, c) \in Nat
  BY DegreesFacts, TopNat
<1>4. c - 0 = c /\ n - 0 = n /\ GetCard(s) - 0 = GetCard(s) /\ Top(s, c) - 0 = Top(s, c)
  BY <1>3
<1> QED BY <1>1, <1>2, <1>4

-----------------------------------------------------------------------------
(***************************************************************************)
(* What two sequences merge to: each bucket of t meets the rows of s from  *)
(* where it begins to where it ends.                                       *)
(***************************************************************************)
Meets(s, t) ==
    [p \in (DOMAIN s) \X (DOMAIN t) |->
        Max({0, Overlap(s, p[1], t, p[2])}) * s[p[1]].maxDegree * t[p[2]].maxDegree]

MergedBody(s, t, iter) ==
    [d \in SUBSET ((DOMAIN s) \X (DOMAIN t)) |->
        IF d = {} THEN 0
        ELSE Max({0, Overlap(s, Pick(d)[1], t, Pick(d)[2])})
               * s[Pick(d)[1]].maxDegree * t[Pick(d)[2]].maxDegree
             + iter[d \ {Pick(d)}]]

LEMMA MergedIsSum ==
    ASSUME NEW s, NEW t
    PROVE  MergedCard(s, t) = SumOf(Meets(s, t), (DOMAIN s) \X (DOMAIN t))
<1>1. PICK S : S = (DOMAIN s) \X (DOMAIN t)
  OBVIOUS
<1>2. MergedCard(s, t) = (CHOOSE iter : iter = MergedBody(s, t, iter))[S]
  BY <1>1 DEF MergedCard, MapThenSumSet, MapThenFoldSet, Pick, MergedBody
<1>3. \A d \in SUBSET S :
         d # {} => Meets(s, t)[Pick(d)] =
                     Max({0, Overlap(s, Pick(d)[1], t, Pick(d)[2])})
                       * s[Pick(d)[1]].maxDegree * t[Pick(d)[2]].maxDegree
  BY <1>1, PickIn DEF Meets
<1>4. \A iter : MergedBody(s, t, iter) = SumBody(Meets(s, t), S, iter)
  BY <1>1, <1>3 DEF MergedBody, SumBody
<1>5. (CHOOSE iter : iter = MergedBody(s, t, iter)) = SumIter(Meets(s, t), S)
  BY <1>4 DEF SumIter
<1> QED BY <1>1, <1>2, <1>5, SumUnfold

LEMMA OverlapArithmetic ==
    ASSUME NEW u \in Nat, NEW c \in Nat, NEW a \in Nat, NEW e \in Nat, NEW x, NEW y,
           TakenIs(x, a, u, c), TakenIs(y, a + e, u, c)
    PROVE  Max({0, Min({u + c, a + e}) - Max({u, a})}) = y - x /\ y - x \in Nat
<1>1. PICK lo \in Nat : lo = Max({u, a}) /\ lo = IF u >= a THEN u ELSE a
  BY MaxOfTwo
<1>2. PICK hi \in Nat : hi = Min({u + c, a + e}) /\ hi = IF u + c <= a + e THEN u + c ELSE a + e
  <2>1. u + c \in Nat /\ a + e \in Nat
    OBVIOUS
  <2> QED BY <2>1, MinOfTwo
<1>3. PICK d \in Int : d = hi - lo
  OBVIOUS
<1>4. Max({0, d}) = IF 0 >= d THEN 0 ELSE d
  BY MaxOfTwo
<1>5. (IF 0 >= d THEN 0 ELSE d) = y - x /\ y - x \in Nat
  <2>1. lo = (IF u >= a THEN u ELSE a) /\ hi = IF u + c <= a + e THEN u + c ELSE a + e
    BY <1>1, <1>2
  <2> QED BY <1>3, <2>1 DEF TakenIs
<1> QED BY <1>1, <1>2, <1>3, <1>4, <1>5

LEMMA RowsUpTo ==
    ASSUME NEW s, Degrees(s), NEW i \in DOMAIN s
    PROVE  /\ NDVUpTo(s, i - 1) \in Nat /\ s[i].count \in Nat /\ s[i].maxDegree \in Nat
           /\ NDVUpTo(s, i) = NDVUpTo(s, i - 1) + s[i].count /\ NDVUpTo(s, i) \in Nat
<1>1. i \in 1..Len(s) /\ s[i].count \in Nat /\ s[i].maxDegree \in Nat
  BY DegreesFacts
<1> QED BY <1>1, UpToNext

LEMMA OverlapIs ==
    ASSUME NEW s, NEW t, Degrees(s), Degrees(t), NEW i \in DOMAIN s, NEW j \in DOMAIN t
    PROVE  /\ NDVUpTo(t, j) \in Nat /\ NDVUpTo(t, j - 1) \in Nat
           /\ Taken(s, NDVUpTo(t, j))[i] \in Nat /\ Taken(s, NDVUpTo(t, j - 1))[i] \in Nat
           /\ Max({0, Overlap(s, i, t, j)}) \in Nat
           /\ Taken(s, NDVUpTo(t, j))[i]
                = Taken(s, NDVUpTo(t, j - 1))[i] + Max({0, Overlap(s, i, t, j)})
<1>2. PICK u \in Nat, c \in Nat : /\ u = NDVUpTo(s, i - 1) /\ c = s[i].count
                                  /\ NDVUpTo(s, i) = u + c
  BY RowsUpTo
<1>3. PICK a \in Nat, e \in Nat : /\ a = NDVUpTo(t, j - 1) /\ e = t[j].count
                                  /\ NDVUpTo(t, j) = a + e
  BY RowsUpTo
<1>4. PICK b \in Nat : b = a + e /\ b = NDVUpTo(t, j)
  BY <1>3
<1>5. PICK x, y : x = Taken(s, a)[i] /\ y = Taken(s, b)[i]
  OBVIOUS
<1>6. TakenIs(x, a, u, c) /\ TakenIs(y, a + e, u, c)
  BY <1>2, <1>4, <1>5, TakenFacts
<1>7. Max({0, Min({u + c, a + e}) - Max({u, a})}) = y - x /\ y - x \in Nat
  BY <1>6, OverlapArithmetic
<1>8. Overlap(s, i, t, j) = Min({u + c, a + e}) - Max({u, a})
  BY <1>2, <1>3 DEF Overlap
<1>9. x \in Nat /\ y \in Nat
  BY <1>6 DEF TakenIs
<1> QED BY <1>3, <1>4, <1>5, <1>7, <1>8, <1>9

Gains(s, t) ==
    [j \in DOMAIN t |->
        t[j].maxDegree * (Top(s, NDVUpTo(t, j)) - Top(s, NDVUpTo(t, j - 1)))]

LEMMA MeetsAt ==
    ASSUME NEW s, NEW t, Degrees(s), Degrees(t), NEW i \in DOMAIN s, NEW j \in DOMAIN t
    PROVE  /\ Meets(s, t)[<<i, j>>]
                = Max({0, Overlap(s, i, t, j)}) * s[i].maxDegree * t[j].maxDegree
           /\ Meets(s, t)[<<i, j>>] \in Nat
<1>1. <<i, j>> \in (DOMAIN s) \X (DOMAIN t) /\ <<i, j>>[1] = i /\ <<i, j>>[2] = j
  OBVIOUS
<1>2. PICK p : p = <<i, j>>
  OBVIOUS
<1>3. Meets(s, t)[p] = Max({0, Overlap(s, p[1], t, p[2])}) * s[p[1]].maxDegree * t[p[2]].maxDegree
  BY <1>1, <1>2 DEF Meets
<1>4. PICK z \in Nat, d \in Nat, e \in Nat :
         z = Max({0, Overlap(s, i, t, j)}) /\ d = s[i].maxDegree /\ e = t[j].maxDegree
  BY OverlapIs, DegreesFacts
<1>5. z * d * e \in Nat
  BY TimesNat
<1> QED BY <1>1, <1>2, <1>3, <1>4, <1>5

LEMMA MeetsFacts ==
    ASSUME NEW s, NEW t, Degrees(s), Degrees(t)
    PROVE  Nats(Meets(s, t), (DOMAIN s) \X (DOMAIN t))
<1>1. PICK S, T, f : S = DOMAIN s /\ T = DOMAIN t /\ f = Meets(s, t)
  OBVIOUS
<1>2. IsFiniteSet(S) /\ IsFiniteSet(T)
  BY <1>1, DegreesFacts DEF Nats
<1>3. IsFiniteSet(S \X T)
  BY <1>2, FS_Product
<1>4. ASSUME NEW p \in S \X T PROVE f[p] \in Nat
  <2>1. PICK i \in S, j \in T : p = <<i, j>>
    OBVIOUS
  <2>2. f[<<i, j>>] \in Nat
    BY <1>1, MeetsAt
  <2> QED BY <2>1, <2>2
<1> QED BY <1>1, <1>3, <1>4 DEF Nats

LEMMA MergedGains ==
    ASSUME NEW s, NEW t, Degrees(s), Degrees(t)
    PROVE  MergedCard(s, t) = SumOf(Gains(s, t), DOMAIN t) /\ Nats(Gains(s, t), DOMAIN t)
<1>1. PICK S, T, f, g : /\ S = DOMAIN s /\ T = DOMAIN t /\ f = Meets(s, t)
                        /\ g = Gains(s, t)
  OBVIOUS
<1>2. IsFiniteSet(S) /\ IsFiniteSet(T)
  BY <1>1, DegreesFacts DEF Nats
<1>3. ASSUME NEW i \in S, NEW j \in T
      PROVE  /\ f[<<i, j>>] = Max({0, Overlap(s, i, t, j)}) * s[i].maxDegree * t[j].maxDegree
             /\ f[<<i, j>>] \in Nat
  BY <1>1, MeetsAt
<1>4. Nats(f, S \X T)
  BY <1>1, MeetsFacts
<1>5. ASSUME NEW j \in T PROVE g[j] = SumOf([i \in S |-> f[<<i, j>>]], S)
  <2>1. PICK a \in Nat, b \in Nat, e \in Nat :
           a = NDVUpTo(t, j - 1) /\ b = NDVUpTo(t, j) /\ e = t[j].maxDegree
    BY <1>1, RowsUpTo
  <2>2. PICK h, fa, fb, k : /\ h = [i \in S |-> f[<<i, j>>]]
                            /\ fa = Shares(s, a) /\ fb = Shares(s, b)
                            /\ k = [i \in S |-> e * fb[i] + 0 * fb[i]]
    OBVIOUS
  <2>3. Nats(fa, S) /\ Nats(fb, S)
    BY <1>1, <2>2, SharesFacts
  <2>4. ASSUME NEW i \in S PROVE /\ h[i] \in Nat /\ k[i] \in Nat /\ k[i] = 1 * h[i] + e * fa[i]
                                 /\ k[i] = e * fb[i] + 0 * fb[i]
    <3>1. PICK x \in Nat, y \in Nat, z \in Nat, d \in Nat :
             /\ x = Taken(s, a)[i] /\ y = Taken(s, b)[i] /\ y = x + z
             /\ z = Max({0, Overlap(s, i, t, j)}) /\ d = s[i].maxDegree
      <4>1. s[i].maxDegree \in Nat
        BY <1>1, DegreesFacts
      <4>2. PICK z : z = Max({0, Overlap(s, i, t, j)})
        OBVIOUS
      <4>3. /\ Taken(s, b)[i] \in Nat /\ Taken(s, a)[i] \in Nat /\ z \in Nat
            /\ Taken(s, b)[i] = Taken(s, a)[i] + z
        BY <1>1, <2>1, <4>2, OverlapIs
      <4> QED BY <4>1, <4>2, <4>3
    <3>2. h[i] = z * d * e /\ h[i] \in Nat
      BY <1>3, <2>1, <2>2, <3>1
    <3>3. fa[i] = d * x /\ fb[i] = d * y
      <4>1. fa[i] = s[i].maxDegree * Taken(s, a)[i] /\ fb[i] = s[i].maxDegree * Taken(s, b)[i]
        BY <1>1, <2>2, SharesFacts
      <4> QED BY <3>1, <4>1
    <3>4. k[i] = e * (d * y) + 0 * (d * y) /\ e * (d * y) \in Nat /\ d * y \in Nat
      BY <2>2, <3>3, TimesNat
    <3>5. e * (d * (x + z)) = 1 * (z * d * e) + e * (d * x)
      OBVIOUS
    <3>6. k[i] = e * (d * y)
      BY <3>4
    <3> QED BY <3>1, <3>2, <3>3, <3>4, <3>5, <3>6
  <2>5. Nats(h, S) /\ Nats(k, S)
    BY <1>2, <2>4 DEF Nats
  <2>6. SumOf(k, S) = 1 * SumOf(h, S) + e * SumOf(fa, S)
    BY <2>3, <2>4, <2>5, SumLinear
  <2>7. SumOf(k, S) = e * SumOf(fb, S) + 0 * SumOf(fb, S)
    BY <2>3, <2>4, <2>5, SumLinear
  <2>8. PICK A \in Nat, B \in Nat, H \in Nat : /\ A = SumOf(fa, S) /\ B = SumOf(fb, S)
                                               /\ H = SumOf(h, S)
    BY <2>3, <2>5, SumNat DEF Nats
  <2>9. A = Top(s, a) /\ B = Top(s, b)
    BY <1>1, <2>2, <2>8, TopIsSum
  <2>10. g[j] = e * (B - A)
    BY <1>1, <2>1, <2>9 DEF Gains
  <2>11. e * B + 0 * B = 1 * H + e * A
    BY <2>6, <2>7, <2>8
  <2>12. e * (B - A) = H
    BY <2>11
  <2> QED BY <2>2, <2>8, <2>10, <2>12
<1>6. SumOf(f, S \X T) = SumOf(g, T) /\ Nats(g, T)
  <2>1. LineSums(f, g, S, T)
    BY <1>5 DEF LineSums
  <2> QED BY ONLY <1>2, <1>4, <2>1, SumPairs
<1> QED BY <1>1, <1>6, MergedIsSum

LEMMA MergedWithOne ==
    ASSUME NEW s, Degrees(s), NEW d \in Nat, NEW c \in Nat
    PROVE  MergedCard(s, <<[maxDegree |-> d, count |-> c]>>) = d * Top(s, c)
<1>1. PICK t : t = <<[maxDegree |-> d, count |-> c]>>
  OBVIOUS
<1>2. Degrees(t) /\ GetNDV(t) = c /\ DOMAIN t = {1} /\ t[1].maxDegree = d /\ Len(t) = 1
  BY <1>1, CardOfOne
<1>3. NDVUpTo(t, 1) = c /\ NDVUpTo(t, 1 - 1) = 0
  <2>1. NDVUpTo(t, 0) = 0 /\ NDVUpTo(t, Len(t)) = GetNDV(t)
    BY <1>2, UpToEnds
  <2> QED BY <1>2, <2>1
<1>4. PICK g : g = Gains(s, t)
  OBVIOUS
<1>5. g[1] = d * (Top(s, c) - Top(s, 0)) /\ Top(s, 0) = 0 /\ Top(s, c) \in Nat
  BY <1>2, <1>3, <1>4, TopEnds, TopNat DEF Gains
<1>6. g[1] = d * Top(s, c)
  BY <1>5
<1>7. MergedCard(s, t) = SumOf(g, {1}) /\ Nats(g, {1})
  BY <1>2, <1>4, MergedGains
<1>8. SumOf(g, {1}) = g[1] + SumOf(g, {1} \ {1}) /\ g[1] \in Nat
  BY <1>7, SumTakeOut
<1>9. {1} \ {1} = {}
  OBVIOUS
<1>10. SumOf(g, {}) = 0
  BY SumEmpty
<1> QED BY <1>1, <1>6, <1>7, <1>8, <1>9, <1>10

LEMMA MergedWithNone ==
    ASSUME NEW s, Degrees(s)
    PROVE  MergedCard(s, NoDegrees) = 0
<1>1. Degrees(NoDegrees) /\ DOMAIN NoDegrees = {}
  BY CardOfNone DEF NoDegrees, Degrees
<1> QED BY <1>1, MergedGains, SumEmpty

LEMMA Cancel ==
    ASSUME NEW y \in Nat, y > 0, NEW p \in Nat, NEW q \in Nat, y * p <= y * q
    PROVE  p <= q
<1> SUFFICES ASSUME q + 1 <= p PROVE FALSE
  OBVIOUS
<1>1. y * (q + 1) <= y * p /\ y * q \in Nat /\ y * p \in Nat
  BY TimesMonotone, TimesNat
<1>2. y * (q + 1) = y * q + y
  OBVIOUS
<1> QED BY <1>1, <1>2

\* The larger factor of the filter makes up for the rows that are dropped.
LEMMA MakesUp ==
    ASSUME NEW x \in Nat, NEW y \in Nat, y > 0, NEW u \in Nat, NEW w \in Nat,
           NEW f \in Nat, NEW g \in Nat, x * w <= y * u, g * y <= f * x
    PROVE  g * w <= f * u
<1>1. PICK p \in Nat, q \in Nat : p = x * w /\ q = y * u
  BY TimesNat
<1>2. PICK a \in Nat, b \in Nat : a = g * y /\ b = f * x
  BY TimesNat
<1>3. f * p <= f * q /\ a * w <= b * w
  BY <1>1, <1>2, TimesMonotone
<1>4. f * p = b * w /\ a * w = y * (g * w) /\ f * q = y * (f * u)
  BY <1>1, <1>2
<1>5. PICK l \in Nat, h \in Nat : l = g * w /\ h = f * u
  BY TimesNat
<1>6. y * l <= y * h
  <2>1. a * w \in Nat /\ b * w \in Nat /\ f * q \in Nat
    BY TimesNat
  <2> QED BY <1>3, <1>4, <1>5, <2>1
<1> QED BY <1>5, <1>6, Cancel

\* What is left of the two factors of the filter: c rows at the larger one.
LEMMA FilterBucket ==
    ASSUME NEW f \in Nat, f > 0, NEW g \in Nat, g <= f, NEW ov \in Nat, NEW tail \in Nat
    PROVE  \E c \in Nat :
              /\ Tightened([maxDegree |-> f, count |-> ov + tail, sum |-> f * ov + g * tail])
                   = [maxDegree |-> f, count |-> c]
              /\ ov <= c /\ c <= ov + tail /\ f * ov + g * tail <= f * c
<1>1. PICK p \in Nat, q \in Nat : p = f * ov /\ q = g * tail
  BY TimesNat
<1>2. PICK n \in Nat, t \in Nat : n = ov + tail /\ t = p + q
  BY <1>1
<1>3. PICK b : b = [maxDegree |-> f, count |-> n, sum |-> t]
  OBVIOUS
<1>4. b.maxDegree = f /\ b.count = n /\ b.sum = t
  BY <1>3
<1>5. PICK z \in Nat : z = CeilDiv(t, f) /\ t <= f * z
  BY CeilDivFacts
<1>6. PICK c \in Nat : c = Min({n, z}) /\ c = IF n <= z THEN n ELSE z
  BY MinOfTwo
<1>7. Tightened(b) = [maxDegree |-> f, count |-> c]
  BY <1>4, <1>5, <1>6 DEF Tightened
<1>8. t <= f * c
  <2>1. f * n = p + f * tail /\ q <= f * tail /\ f * tail \in Nat
    BY <1>1, <1>2, Distributes, TimesMonotone, TimesNat
  <2>2. t <= f * n
    BY <1>2, <2>1
  <2> QED BY <1>5, <1>6, <2>2
<1>9. ov <= c
  <2>1. f * ov <= f * c
    <3>1. f * c \in Nat
      BY TimesNat
    <3> QED BY <1>1, <1>2, <1>8, <3>1
  <2> QED BY <2>1, Cancel
<1>10. c <= ov + tail
  BY <1>2, <1>6
<1> QED BY <1>1, <1>2, <1>3, <1>7, <1>8, <1>9, <1>10

LEMMA WeightedFilterSum ==
    ASSUME NEW s, Degrees(s), Descends(s), NEW rows \in Nat, NEW ndv \in Nat,
           rows > 0, ndv > 0, NEW k \in 0..RateDen
    PROVE  k * ndv * Top(s, rows) + (RateDen - k) * rows * GetCard(s)
           <= MergedCard(s, WeightedFilter(GetNDV(s), rows, ndv, k))
<1>1. PICK N \in Nat, X \in Nat : N = GetNDV(s) /\ X = GetCard(s) /\ X = Top(s, N)
  BY DegreesFacts, TopEnds
<1>2. PICK q \in Nat : q = RateDen - k /\ k \in Nat /\ (k > 0 \/ q > 0)
  <2>1. RateDen \in Nat \ {0}
    BY RateAssumption
  <2> QED BY <2>1
<1>3. PICK g \in Nat, a \in Nat, f \in Nat :
         /\ g = rows * q /\ g = q * rows /\ a = k * ndv /\ f = g + a /\ f > 0
  <2>1. rows * q \in Nat /\ rows * q = q * rows /\ (q > 0 => rows * q > 0)
    BY TimesNat
  <2>2. k * ndv \in Nat /\ (k > 0 => k * ndv > 0)
    BY <1>2, TimesNat
  <2> QED BY <1>2, <2>1, <2>2
<1>4. PICK T \in Nat : T = Top(s, rows)
  BY TopNat
<1>5. PICK w : w = WeightedFilter(N, rows, ndv, k)
  OBVIOUS
<1>6. PICK ov \in Nat : ov = Min({rows, N}) /\ ov = IF rows <= N THEN rows ELSE N
  BY MinOfTwo
<1>7. PICK tail \in Nat : tail = IF g > 0 THEN N - ov ELSE 0
  BY <1>6
<1>8. w = IF ov = 0 THEN NoDegrees
          ELSE <<Tightened([maxDegree |-> f, count |-> ov + tail, sum |-> f * ov + g * tail])>>
  BY <1>2, <1>3, <1>5, <1>6, <1>7 DEF WeightedFilter
<1>9. a * T + g * X <= MergedCard(s, w)
  <2>1. CASE ov = 0
    <3>1. N = 0
      BY <1>6, <2>1
    <3>2. X = 0 /\ T = 0
      <4>1. Top(s, 0) = 0
        BY TopEnds
      <4>2. rows >= GetNDV(s)
        BY <1>1, <3>1
      <4>3. Top(s, rows) = GetCard(s)
        BY <4>2, TopEnds
      <4> QED BY <1>1, <1>4, <3>1, <4>1, <4>3
    <3>3. MergedCard(s, w) = 0
      BY <1>8, <2>1, MergedWithNone
    <3> QED BY <3>2, <3>3
  <2>2. CASE ov # 0
    <3>1. g <= f
      BY <1>3
    <3>2. PICK c \in Nat :
             /\ Tightened([maxDegree |-> f, count |-> ov + tail, sum |-> f * ov + g * tail])
                  = [maxDegree |-> f, count |-> c]
             /\ ov <= c /\ c <= ov + tail /\ f * ov + g * tail <= f * c
      BY <1>3, <3>1, FilterBucket
    <3>3. w = <<[maxDegree |-> f, count |-> c]>>
      BY <1>8, <2>2, <3>2
    <3>4. MergedCard(s, w) = f * Top(s, c)
      BY <3>3, MergedWithOne
    <3>5. CASE N <= rows
      <4>1. ov = N /\ tail = 0
        BY <1>6, <1>7, <3>5
      <4>2. c = N
        BY <3>2, <4>1
      <4>3. T = X
        BY <1>1, <1>4, <3>5, TopEnds
      <4>4. f * X = g * X + a * X /\ g * X \in Nat /\ a * X \in Nat
        BY <1>3, Distributes, TimesNat
      <4> QED BY <1>1, <3>4, <4>2, <4>3, <4>4
    <3>6. CASE rows < N
      <4>1. ov = rows /\ tail = IF g > 0 THEN N - rows ELSE 0
        BY <1>6, <1>7, <3>6
      <4>2. PICK x \in Nat, y \in Nat : c = rows + x /\ N = rows + y /\ x <= y /\ y > 0
        BY <3>2, <3>6, <4>1
      <4>3. g * tail = g * y
        BY <4>1, <4>2
      <4>4. g * y <= f * x
        <5>1. f * c = f * rows + f * x /\ f * rows \in Nat /\ f * x \in Nat /\ g * y \in Nat
          BY <4>2, Distributes, TimesNat
        <5> QED BY <3>2, <4>1, <4>3, <5>1
      <4>5. /\ T <= Top(s, c) /\ Top(s, c) <= X
            /\ (c - rows) * (X - T) <= (N - rows) * (Top(s, c) - T)
        <5>1. rows <= c /\ c <= N
          BY <4>2
        <5>2. /\ Top(s, rows) <= Top(s, c) /\ Top(s, c) <= Top(s, N)
              /\ (c - rows) * (Top(s, N) - Top(s, rows)) <= (N - rows) * (Top(s, c) - Top(s, rows))
          BY <5>1, TopConcave
        <5> QED BY <1>1, <1>4, <5>2
      <4>6. PICK u \in Nat, v \in Nat : Top(s, c) = T + u /\ X = T + v
        <5>1. PICK b \in Nat : b = Top(s, c)
          BY TopNat
        <5>2. T <= b /\ b <= X
          BY <4>5, <5>1
        <5>3. b - T \in Nat /\ X - T \in Nat /\ b = T + (b - T) /\ X = T + (X - T)
          BY <5>2
        <5> QED BY <5>1, <5>3
      <4>7. x * v <= y * u
        <5>1. c - rows = x /\ N - rows = y /\ X - T = v /\ Top(s, c) - T = u
          BY <4>2, <4>6
        <5> QED BY <4>5, <5>1
      <4>8. g * v <= f * u
        BY <4>2, <4>4, <4>7, MakesUp
      <4>9. /\ f * (T + u) = f * T + f * u /\ g * (T + v) = g * T + g * v
            /\ f * T = g * T + a * T
            /\ g * T \in Nat /\ a * T \in Nat /\ f * u \in Nat /\ g * v \in Nat
        BY <1>3, Distributes, TimesNat
      <4>10. a * T + g * (T + v) <= f * (T + u)
        BY <4>8, <4>9
      <4> QED BY <3>4, <4>6, <4>10
    <3> QED BY <3>5, <3>6
  <2> QED BY <2>1, <2>2
<1>10. k * ndv * Top(s, rows) = a * T /\ (RateDen - k) * rows * GetCard(s) = g * X
  BY <1>1, <1>2, <1>3, <1>4
<1> QED BY <1>1, <1>5, <1>9, <1>10

LEMMA CollectedIsOrdered ==
    ASSUME DSInv, OrderedInv, NEW i \in Collected, NEW t \in Covered(i)
    PROVE  /\ Descends(stats[i].ds[t]) /\ GetNDV(stats[i].ds[t]) <= TableRows(t)
           /\ stats[i].ds[t] \in Seq(FinishedBucket) /\ Degrees(stats[i].ds[t])
           /\ GetCard(stats[i].ds[t]) = stats[i].card /\ stats[i].card \in Nat
           /\ TableRows(t) \in Nat
<1>1. i \in DOMAIN stats /\ pc = "ready" /\ next = 1
  BY DEF Collected
<1>2. t \in Tables(stats[i])
  BY <1>1 DEF DSInv, TypeOK
<1>3. Ordered(stats[i].ds[t], TableRows(t))
  BY <1>1, <1>2 DEF OrderedInv
<1> QED BY <1>3, CollectedStats, FinishedDegrees DEF Ordered

(***************************************************************************)
(* The filter of PredMethod 2 covers the weighted mean it is meant as, for *)
(* every collected sequence, every number of rows that pass and every      *)
(* rate, although FinishCollection drops the last of its rows.             *)
(***************************************************************************)
THEOREM WeightedFilterCorrect == Spec => []WeightedFilterCovers
<1>1. DSInv /\ OrderedInv => WeightedFilterCovers
  <2> SUFFICES ASSUME DSInv, OrderedInv, NEW i \in Collected, NEW t \in Covered(i),
                      NEW k \in Rates, NEW rows \in 1..TableRows(t)
               PROVE  MergedCard(stats[i].ds[t],
                                 WeightedFilter(GetNDV(stats[i].ds[t]), rows, TableRows(t), k))
                      >= k * TableRows(t) * Top(stats[i].ds[t], rows)
                         + (RateDen - k) * rows * stats[i].card
    BY DEF WeightedFilterCovers
  <2>1. PICK s, c, n : s = stats[i].ds[t] /\ c = stats[i].card /\ n = TableRows(t)
    OBVIOUS
  <2>2. Degrees(s) /\ Descends(s) /\ GetCard(s) = c /\ n \in Nat /\ c \in Nat
    BY <2>1, CollectedIsOrdered
  <2>3. rows \in Nat /\ rows > 0 /\ n > 0 /\ k \in 0..RateDen
    BY <2>1, <2>2 DEF Rates
  <2>4. k * n * Top(s, rows) + (RateDen - k) * rows * GetCard(s)
        <= MergedCard(s, WeightedFilter(GetNDV(s), rows, n, k))
    BY <2>2, <2>3, WeightedFilterSum
  <2>5. PICK x, y : /\ x = MergedCard(s, WeightedFilter(GetNDV(s), rows, n, k))
                    /\ y = k * n * Top(s, rows) + (RateDen - k) * rows * c
    OBVIOUS
  <2>6. y <= x
    BY <2>2, <2>4, <2>5
  <2>7. x >= y
    BY <2>6
  <2> QED BY <2>1, <2>5, <2>7
<1> QED BY <1>1, Invariant, CollectedDescend, PTL

-----------------------------------------------------------------------------
(***************************************************************************)
(* Two descending sequences over n rows merge to at least the product of   *)
(* their sums divided by n (Chebyshev's sum inequality): the larger        *)
(* degrees of one side meet the larger degrees of the other.               *)
(***************************************************************************)
LEMMA ChebyshevStep ==
    ASSUME NEW n \in Nat, NEW B \in Nat, NEW A \in Nat, NEW N \in Nat, NEW T \in Nat,
           NEW M \in Nat, NEW e \in Nat, NEW c \in Nat, NEW U \in Nat, NEW d \in Nat,
           B * A + d * (n * T) <= n * M + d * (N * B),
           (N + c) * B <= n * (T + U), e <= d
    PROVE  B * (A + c * d) + e * (n * (T + U)) <= n * (M + d * U) + e * ((N + c) * B)
<1>1. PICK x \in Nat, y \in Nat : x = n * (T + U) /\ y = (N + c) * B /\ y <= x
  <2>1. T + U \in Nat /\ N + c \in Nat
    OBVIOUS
  <2> QED BY <2>1, TimesNat
<1>2. PICK z \in Nat, f \in Nat : x = y + z /\ d = e + f
  BY <1>1
<1>3. B * (A + c * d) + d * x <= n * (M + d * U) + d * y
  <2>1. PICK p \in Nat, q \in Nat, r \in Nat, v \in Nat :
           p = B * A /\ q = d * (n * T) /\ r = n * M /\ v = d * (N * B)
    BY TimesNat
  <2>2. PICK g \in Nat, h \in Nat : g = d * (n * U) /\ h = B * (c * d)
    BY TimesNat
  <2>3. B * (A + c * d) = p + h
    BY <2>1, <2>2
  <2>4. d * x = q + g
    BY <1>1, <2>1, <2>2
  <2>5. n * (M + d * U) = r + g
    BY <2>1, <2>2
  <2>6. d * y = v + h
    BY <1>1, <2>1, <2>2
  <2>7. p + q <= r + v
    BY <2>1
  <2> QED BY <2>3, <2>4, <2>5, <2>6, <2>7
<1>4. d * x = e * x + f * x /\ d * y = e * y + f * y /\ f * x = f * y + f * z
  BY <1>2, Distributes
<1>5. e * x \in Nat /\ f * x \in Nat /\ e * y \in Nat /\ f * y \in Nat /\ f * z \in Nat
  BY TimesNat
<1>6. PICK l \in Nat, h \in Nat : l = B * (A + c * d) /\ h = n * (M + d * U)
  <2>1. A + c * d \in Nat /\ M + d * U \in Nat
    BY TimesNat
  <2> QED BY <2>1, TimesNat
<1>7. l + e * x <= h + e * y
  BY <1>3, <1>4, <1>5, <1>6
<1> QED BY <1>1, <1>6, <1>7

\* The sums of the first p buckets: amounts A, rows N, tuples T of the other
\* side, tuples M of the merge.
ChebyshevSums(m, n, B, A, N, T, M, E, C) ==
    /\ A[0] = 0 /\ N[0] = 0 /\ T[0] = 0 /\ M[0] = 0
    /\ \A p \in 0..m : A[p] \in Nat /\ N[p] \in Nat /\ T[p] \in Nat /\ M[p] \in Nat
    /\ \A p \in 1..m : /\ C[p] \in Nat /\ E[p] \in Nat
                       /\ A[p] = A[p - 1] + C[p] * E[p] /\ N[p] = N[p - 1] + C[p]
                       /\ T[p - 1] <= T[p]
                       /\ M[p] = M[p - 1] + E[p] * (T[p] - T[p - 1])
                       /\ N[p] * B <= n * T[p]
    /\ \A p, q \in 1..m : p < q => E[q] <= E[p]

LEMMA ChebyshevInduction ==
    ASSUME NEW m \in Nat, NEW n \in Nat, NEW B \in Nat, NEW A, NEW N, NEW T, NEW M,
           NEW E, NEW C, ChebyshevSums(m, n, B, A, N, T, M, E, C)
    PROVE  B * A[m] <= n * M[m]
<1> DEFINE Holds(p, e) == B * A[p] + e * (n * T[p]) <= n * M[p] + e * (N[p] * B)
           Bad == {p \in 0..m : ~ \A e \in Nat : (p = 0 \/ e <= E[p]) => Holds(p, e)}
<1>1. ASSUME Bad # {} PROVE FALSE
  <2>1. PICK p \in Bad : \A l \in Bad : p <= l
    <3>1. Bad \in SUBSET Nat
      OBVIOUS
    <3> HIDE DEF Bad
    <3> QED BY <1>1, <3>1, LeastNat
  <2>2. PICK e \in Nat : p \in 0..m /\ (p = 0 \/ e <= E[p]) /\ ~Holds(p, e)
    OBVIOUS
  <2>3. p # 0
    <3>1. CASE p = 0
      <4>1. A[p] = 0 /\ N[p] = 0 /\ T[p] = 0 /\ M[p] = 0
        BY <3>1 DEF ChebyshevSums
      <4>2. B * A[p] = 0 /\ n * T[p] = 0 /\ n * M[p] = 0 /\ N[p] * B = 0
        BY <4>1
      <4>3. Holds(p, e)
        BY <4>2
      <4> QED BY <2>2, <4>3
    <3> QED BY <3>1
  <2>4. PICK l \in Nat : l = p - 1 /\ l \in 0..m /\ ~(p <= l) /\ p \in 1..m
    <3>1. p - 1 \in Nat /\ p - 1 \in 0..m /\ ~(p <= p - 1) /\ p \in 1..m
      BY <2>2, <2>3
    <3> QED BY <3>1
  <2>5. PICK a \in Nat, u \in Nat, t \in Nat, w \in Nat, c \in Nat, d \in Nat :
           a = A[l] /\ u = N[l] /\ t = T[l] /\ w = M[l] /\ c = C[p] /\ d = E[p]
    BY <2>4 DEF ChebyshevSums
  <2>6. /\ A[p] = a + c * d /\ N[p] = u + c /\ t <= T[p] /\ T[p] \in Nat
        /\ M[p] = w + d * (T[p] - t) /\ N[p] * B <= n * T[p]
    BY <2>2, <2>4, <2>5 DEF ChebyshevSums
  <2>7. PICK U \in Nat : T[p] = t + U /\ M[p] = w + d * U
    <3>1. T[p] - t \in Nat /\ T[p] = t + (T[p] - t)
      BY <2>6
    <3> QED BY <2>6, <3>1
  <2>8. l = 0 \/ d <= E[l]
    <3>1. CASE l = 0
      BY <3>1
    <3>2. CASE l # 0
      <4>1. l \in 1..m /\ l < p
        BY <2>4, <3>2
      <4> QED BY <2>4, <2>5, <4>1 DEF ChebyshevSums
    <3> QED BY <3>1, <3>2
  <2>9. Holds(l, d)
    <3>1. l \notin Bad
      <4> HIDE DEF Bad
      <4> QED BY <2>1, <2>4
    <3>2. \A x \in Nat : (l = 0 \/ x <= E[l]) => Holds(l, x)
      BY <2>4, <3>1
    <3> HIDE DEF Holds
    <3> QED BY <2>8, <3>2
  <2>10. B * a + d * (n * t) <= n * w + d * (u * B)
    BY <2>5, <2>9
  <2>11. (u + c) * B <= n * (t + U) /\ e <= d
    BY <2>2, <2>3, <2>5, <2>6, <2>7
  <2>12. B * (a + c * d) + e * (n * (t + U)) <= n * (w + d * U) + e * ((u + c) * B)
    BY ONLY <2>10, <2>11, ChebyshevStep, n \in Nat, B \in Nat, a \in Nat, u \in Nat, t \in Nat,
            w \in Nat, e \in Nat, c \in Nat, U \in Nat, d \in Nat
  <2>13. Holds(p, e)
    BY <2>6, <2>7, <2>12
  <2> QED BY <2>2, <2>13
<1>2. Holds(m, 0)
  <2>1. m \notin Bad /\ m \in 0..m
    BY <1>1
  <2>2. \A x \in Nat : (m = 0 \/ x <= E[m]) => Holds(m, x)
    BY <2>1
  <2>3. m = 0 \/ 0 <= E[m]
    BY DEF ChebyshevSums
  <2> HIDE DEF Holds
  <2> QED BY <2>2, <2>3
<1>3. PICK a \in Nat, u \in Nat, t \in Nat, w \in Nat :
         a = A[m] /\ u = N[m] /\ t = T[m] /\ w = M[m]
  BY DEF ChebyshevSums
<1>4. B * a + 0 * (n * t) <= n * w + 0 * (u * B)
  BY <1>2, <1>3
<1>5. B * a <= n * w
  <2>1. B * a \in Nat /\ n * w \in Nat /\ n * t \in Nat /\ u * B \in Nat
    BY TimesNat
  <2> QED BY <1>4, <2>1
<1> QED BY <1>3, <1>5

LEMMA Chebyshev ==
    ASSUME NEW s, NEW t, Degrees(s), Degrees(t), Descends(s), Descends(t),
           NEW n \in Nat, GetNDV(s) <= n, GetNDV(t) <= n
    PROVE  /\ GetCard(s) * GetCard(t) <= n * MergedCard(s, t) /\ MergedCard(s, t) \in Nat
<1>1. PICK m \in Nat : m = Len(t) /\ DOMAIN t = 1..m
  BY DegreesFacts
<1>2. PICK A, N, T, M, E, C, g :
        /\ g = Gains(s, t)
        /\ A = [p \in 0..m |-> CardUpTo(t, p)] /\ N = [p \in 0..m |-> NDVUpTo(t, p)]
        /\ T = [p \in 0..m |-> Top(s, N[p])] /\ M = [p \in 0..m |-> SumOf(g, 1..p)]
        /\ E = [p \in 1..m |-> t[p].maxDegree] /\ C = [p \in 1..m |-> t[p].count]
  <2>1. PICK N : N = [p \in 0..m |-> NDVUpTo(t, p)]
    OBVIOUS
  <2>2. PICK T : T = [p \in 0..m |-> Top(s, N[p])]
    OBVIOUS
  <2>3. PICK g : g = Gains(s, t)
    OBVIOUS
  <2>4. PICK M : M = [p \in 0..m |-> SumOf(g, 1..p)]
    OBVIOUS
  <2> QED BY <2>1, <2>2, <2>3, <2>4
<1>3. PICK B \in Nat : B = GetCard(s)
  BY DegreesFacts
<1>4. MergedCard(s, t) = SumOf(g, 1..m) /\ Nats(g, 1..m)
  BY <1>1, <1>2, MergedGains
<1>5. 0 \in 0..m /\ m \in 0..m
  OBVIOUS
<1>6. A[0] = 0 /\ N[0] = 0 /\ T[0] = 0 /\ M[0] = 0
  <2>1. 1..0 = {}
    OBVIOUS
  <2>2. A[0] = 0 /\ N[0] = 0
    BY <1>2, <1>5, UpToEnds
  <2>3. T[0] = 0
    BY <1>2, <1>5, <2>2, TopEnds
  <2>4. M[0] = 0
    BY <1>2, <1>5, <2>1, SumEmpty
  <2> QED BY <2>2, <2>3, <2>4
<1>7. ASSUME NEW p \in 0..m PROVE /\ A[p] \in Nat /\ N[p] \in Nat /\ T[p] \in Nat /\ M[p] \in Nat
                                  /\ N[p] <= n /\ T[p] = Top(s, N[p])
  <2>1. A[p] \in Nat /\ N[p] \in Nat
    BY <1>1, <1>2, UpToFacts
  <2>2. N[p] <= n
    <3>1. p \in 0..Len(t) /\ Len(t) \in 0..Len(t) /\ p <= Len(t)
      BY <1>1
    <3>2. NDVUpTo(t, p) <= GetNDV(t) /\ GetNDV(t) \in Nat
      BY <3>1, UpToGrows, UpToEnds, DegreesFacts
    <3> QED BY <1>2, <2>1, <3>2
  <2>3. T[p] = Top(s, N[p]) /\ T[p] \in Nat
    BY <1>2, <2>1, TopNat
  <2>4. M[p] \in Nat
    <3>1. 1..p \in SUBSET (1..m)
      OBVIOUS
    <3>2. SumOf(g, 1..p) \in Nat
      BY <1>4, <3>1, NatsOfPart
    <3> QED BY <1>2, <3>2
  <2> QED BY <2>1, <2>2, <2>3, <2>4
<1>8. ASSUME NEW p \in 1..m
      PROVE  /\ C[p] \in Nat /\ E[p] \in Nat
             /\ A[p] = A[p - 1] + C[p] * E[p] /\ N[p] = N[p - 1] + C[p]
             /\ T[p - 1] <= T[p]
             /\ M[p] = M[p - 1] + E[p] * (T[p] - T[p - 1])
             /\ N[p] * B <= n * T[p]
  <2>1. PICK l \in Nat : l = p - 1 /\ p = l + 1 /\ l \in 0..m /\ p \in 0..m
    <3>1. p - 1 \in Nat /\ p = (p - 1) + 1 /\ p - 1 \in 0..m /\ p \in 0..m
      OBVIOUS
    <3> QED BY <3>1
  <2>2. C[p] = t[p].count /\ E[p] = t[p].maxDegree /\ C[p] \in Nat /\ E[p] \in Nat
    BY <1>1, <1>2, DegreesFacts
  <2>3. A[p] = CardUpTo(t, p) /\ A[l] = CardUpTo(t, l) /\ N[p] = NDVUpTo(t, p) /\ N[l] = NDVUpTo(t, l)
    BY <1>2, <2>1
  <2>4. A[p] = A[l] + C[p] * E[p] /\ N[p] = N[l] + C[p]
    <3>1. /\ CardUpTo(t, p) = CardUpTo(t, l) + t[p].count * t[p].maxDegree
          /\ NDVUpTo(t, p) = NDVUpTo(t, l) + t[p].count
      BY <1>1, <2>1, UpToNext
    <3> QED BY <2>2, <2>3, <3>1
  <2>5. N[l] \in Nat /\ N[p] \in Nat /\ N[p] <= n /\ T[l] = Top(s, N[l]) /\ T[p] = Top(s, N[p])
    BY <1>7, <2>1
  <2>6. T[l] <= T[p]
    <3>1. N[l] <= N[p] /\ N[p] <= N[p]
      BY <2>2, <2>4, <2>5
    <3>2. Top(s, N[l]) <= Top(s, N[p])
      BY <2>5, <3>1, TopConcave
    <3> QED BY <2>5, <3>2
  <2>7. M[p] = M[l] + E[p] * (T[p] - T[l])
    <3>1. \A i \in 1..(l + 1) : g[i] \in Nat
      BY <1>4, <2>1 DEF Nats
    <3>2. SumOf(g, 1..(l + 1)) = SumOf(g, 1..l) + g[l + 1]
      BY <3>1, SumNext
    <3>3. g[p] = E[p] * (T[p] - T[l])
      BY <1>1, <1>2, <2>1, <2>2, <2>3, <2>5 DEF Gains
    <3>4. M[p] = SumOf(g, 1..p) /\ M[l] = SumOf(g, 1..l)
      BY <1>2, <2>1
    <3> QED BY <2>1, <3>2, <3>3, <3>4
  <2>8. N[p] * B <= n * T[p]
    BY <1>3, <2>5, TopShare
  <2> QED BY <2>1, <2>2, <2>4, <2>6, <2>7, <2>8
<1>9. \A p, q \in 1..m : p < q => E[q] <= E[p]
  BY <1>1, <1>2 DEF Descends
<1>10. ChebyshevSums(m, n, B, A, N, T, M, E, C)
  BY <1>6, <1>7, <1>8, <1>9 DEF ChebyshevSums
<1>11. B * A[m] <= n * M[m]
  BY <1>10, ChebyshevInduction
<1>12. A[m] = GetCard(t) /\ M[m] = MergedCard(s, t) /\ M[m] \in Nat
  BY <1>1, <1>2, <1>4, <1>5, <1>7, UpToEnds
<1> QED BY <1>3, <1>11, <1>12

-----------------------------------------------------------------------------
(***************************************************************************)
(* Averages of a sequence with no more rows than its table: nothing is     *)
(* cut, every degree becomes d * a + b, and z rows are added with the      *)
(* degree b if that is above 0.                                            *)
(***************************************************************************)
AverageOf(x, s, a, b, z) ==
    /\ Degrees(x) /\ a \in Nat /\ b \in Nat /\ z \in Nat
    /\ Len(x) = IF z > 0 /\ b > 0 THEN Len(s) + 1 ELSE Len(s)
    /\ \A i \in DOMAIN s : x[i].maxDegree = s[i].maxDegree * a + b /\ x[i].count = s[i].count
    /\ z > 0 /\ b > 0 => x[Len(s) + 1].maxDegree = b /\ x[Len(s) + 1].count = z

LEMMA NothingCut ==
    ASSUME NEW s, Degrees(s), NEW card \in Nat, GetCard(s) <= card
    PROVE  LimitDsToCard(s, card) = s
<1>1. ASSUME NEW i \in DOMAIN s PROVE ~(CardUpTo(s, i) > card)
  <2>1. i \in 0..Len(s) /\ Len(s) \in 0..Len(s) /\ i <= Len(s)
    BY DegreesFacts
  <2>2. CardUpTo(s, i) <= GetCard(s) /\ CardUpTo(s, i) \in Nat /\ GetCard(s) \in Nat
    BY <2>1, UpToGrows, UpToEnds, UpToFacts, DegreesFacts
  <2> QED BY <2>2
<1>2. {i \in DOMAIN s : CardUpTo(s, i) > card} = {}
  BY <1>1
<1> QED BY <1>2 DEF LimitDsToCard

LEMMA AverageIs ==
    ASSUME NEW s, Degrees(s), NEW ndv \in Nat, GetNDV(s) <= ndv, NEW k \in 0..RateDen
    PROVE  AverageOf(AdjustToAverage(s, GetCard(s), ndv, k), s,
                     k * ndv, GetCard(s) * (RateDen - k), ndv - GetNDV(s))
<1>1. PICK card \in Nat, r \in Nat : card = GetCard(s) /\ r = GetNDV(s)
  BY DegreesFacts
<1>2. PICK q \in Nat : q = RateDen - k /\ RateDen = k + q /\ k \in Nat
  BY RateAssumption
<1>3. PICK b \in Nat : b = card * q
  BY TimesNat
<1>4. PICK m : m = Moved(s, card, ndv, k)
  OBVIOUS
<1>5. PICK z \in Nat : z = ndv - r /\ ndv = r + z
  BY <1>1
<1>6. PICK tail : /\ tail = IF z > 0 /\ b > 0 THEN <<[maxDegree |-> b, count |-> z]>> ELSE <<>>
                  /\ AdjustToAverage(s, card, ndv, k) = LimitDsToCard(m \o tail, card * Unit(ndv))
  <2>1. PICK zeros \in Int : zeros = ndv - r
    OBVIOUS
  <2>2. PICK tail : tail = IF zeros > 0 /\ b > 0
                           THEN <<[maxDegree |-> b, count |-> zeros]>> ELSE <<>>
    OBVIOUS
  <2>3. AdjustToAverage(s, card, ndv, k) = LimitDsToCard(m \o tail, card * Unit(ndv))
    BY <1>1, <1>2, <1>3, <1>4, <2>1, <2>2 DEF AdjustToAverage, Moved
  <2>4. zeros = z
    BY <1>5, <2>1
  <2> QED BY <2>2, <2>3, <2>4
<1>7. AdjustToAverage(s, card, ndv, k) = LimitDsToCard(m \o tail, card * Unit(ndv))
  BY <1>6
<1>8. Degrees(m) /\ GetCard(m) = (k * ndv) * card + b * r
  BY <1>1, <1>2, <1>3, <1>4, MovedFacts
<1>9. PICK a \in Nat : a = k * ndv
  BY <1>2, TimesNat
<1>10. PICK u \in Nat : u = card * Unit(ndv) /\ u = a * card + b * ndv
  <2>1. (k * ndv) * card + (card * q) * ndv = card * ((k + q) * ndv)
    BY <1>2
  <2>2. a * card \in Nat /\ b * ndv \in Nat
    BY TimesNat
  <2> QED BY <1>2, <1>3, <1>9, <2>1, <2>2 DEF Unit
<1>11. Degrees(tail) /\ GetCard(tail) = b * z
  <2>1. CASE z > 0 /\ b > 0
    <3>1. Degrees(tail) /\ GetCard(tail) = z * b
      BY <1>6, <2>1, CardOfOne
    <3> QED BY <3>1, TimesNat
  <2>2. CASE ~(z > 0 /\ b > 0)
    <3>1. tail = NoDegrees
      BY <1>6, <2>2 DEF NoDegrees
    <3>2. b * z = 0
      BY <2>2
    <3> QED BY <3>1, <3>2, CardOfNone
  <2> QED BY <2>1, <2>2
<1>12. PICK x : x = m \o tail
  OBVIOUS
<1>13. Degrees(x) /\ GetCard(x) = u
  <2>1. Degrees(x) /\ GetCard(x) = (a * card + b * r) + b * z
    BY <1>8, <1>9, <1>11, <1>12, CardOfConcat
  <2>2. b * ndv = b * r + b * z /\ b * r \in Nat /\ b * z \in Nat /\ a * card \in Nat
    BY <1>5, Distributes, TimesNat
  <2> QED BY <1>10, <2>1, <2>2
<1>14. AdjustToAverage(s, card, ndv, k) = x
  <2>1. GetCard(x) <= u
    BY <1>13
  <2>2. LimitDsToCard(x, u) = x
    BY <1>13, <2>1, NothingCut
  <2>3. AdjustToAverage(s, card, ndv, k) = LimitDsToCard(x, u)
    BY <1>7, <1>10, <1>12
  <2> QED BY <2>2, <2>3
<1>15. PICK n \in Nat : n = Len(s) /\ DOMAIN s = 1..n
  BY DegreesFacts
<1>16. Len(m) = n /\ m \in Seq(AnyBucket) /\ tail \in Seq(AnyBucket)
  <2>1. DOMAIN m = 1..n
    BY <1>4, <1>15 DEF Moved
  <2>2. m \in Seq(AnyBucket) /\ tail \in Seq(AnyBucket)
    BY <1>8, <1>11 DEF Degrees
  <2> QED BY <2>1, <2>2, LenProperties
<1>17. /\ Len(x) = n + Len(tail)
       /\ \A i \in 1..(n + Len(tail)) : x[i] = IF i <= n THEN m[i] ELSE tail[i - n]
  BY <1>12, <1>16, ConcatProperties
<1>18. Len(tail) = IF z > 0 /\ b > 0 THEN 1 ELSE 0
  BY <1>6
<1>19. Len(x) = IF z > 0 /\ b > 0 THEN n + 1 ELSE n
  BY <1>17, <1>18
<1>20. ASSUME NEW i \in DOMAIN s
       PROVE  x[i].maxDegree = s[i].maxDegree * a + b /\ x[i].count = s[i].count
  <2>1. i \in 1..(n + Len(tail)) /\ i <= n
    BY <1>15, <1>18
  <2>2. x[i] = m[i]
    BY <1>17, <2>1
  <2>3. PICK d \in Nat, c \in Nat : d = s[i].maxDegree /\ c = s[i].count
    BY DegreesFacts
  <2>4. m[i] = [maxDegree |-> d * k * ndv + b, count |-> c]
    BY <1>2, <1>3, <1>4, <2>3 DEF Moved
  <2>5. d * k * ndv = d * a
    <3>1. (d * k) * ndv = d * (k * ndv)
      BY <1>2
    <3> QED BY <1>9, <3>1
  <2> QED BY <2>2, <2>3, <2>4, <2>5
<1>21. ASSUME z > 0, b > 0 PROVE x[n + 1].maxDegree = b /\ x[n + 1].count = z
  <2>1. tail = <<[maxDegree |-> b, count |-> z]>> /\ Len(tail) = 1
    BY <1>6, <1>18, <1>21
  <2>2. n + 1 \in 1..(n + Len(tail)) /\ ~(n + 1 <= n) /\ (n + 1) - n = 1
    BY <2>1
  <2>3. x[n + 1] = tail[1]
    BY <1>17, <2>2
  <2> QED BY <2>1, <2>3
<1>22. AverageOf(x, s, a, b, z)
  BY <1>13, <1>15, <1>19, <1>20, <1>21 DEF AverageOf
<1> QED BY <1>1, <1>2, <1>3, <1>5, <1>9, <1>14, <1>22

\* The rows of the average: as before, and then those that were added.
LEMMA AverageRows ==
    ASSUME NEW s, Degrees(s), NEW x, NEW a, NEW b, NEW z, AverageOf(x, s, a, b, z)
    PROVE  /\ \A p \in 0..Len(s) : NDVUpTo(x, p) = NDVUpTo(s, p)
           /\ GetNDV(x) = IF z > 0 /\ b > 0 THEN GetNDV(s) + z ELSE GetNDV(s)
           /\ DOMAIN x = 1..Len(x) /\ DOMAIN s = 1..Len(s) /\ DOMAIN s \subseteq DOMAIN x
           /\ z > 0 /\ b > 0 => NDVUpTo(x, Len(s) + 1) = GetNDV(s) + z
<1>1. PICK n \in Nat : n = Len(s) /\ DOMAIN s = 1..n
  BY DegreesFacts
<1>2. /\ Degrees(x) /\ a \in Nat /\ b \in Nat /\ z \in Nat
      /\ Len(x) = IF z > 0 /\ b > 0 THEN n + 1 ELSE n
      /\ \A i \in 1..n : x[i].count = s[i].count
      /\ z > 0 /\ b > 0 => x[n + 1].count = z
  BY <1>1 DEF AverageOf
<1>3. DOMAIN x = 1..Len(x)
  BY <1>2, DegreesFacts
<1>4. 1..n \subseteq DOMAIN x /\ n \in 0..Len(x) /\ n \in 0..n
  BY <1>2, <1>3
<1>5. ASSUME NEW p \in 0..n PROVE NDVUpTo(x, p) = NDVUpTo(s, p)
  <2>1. p \in 0..Len(x) /\ p \in 0..Len(s)
    BY <1>1, <1>2
  <2>2. NDVUpTo(x, p) = SumOf(Counts(x), 1..p) /\ NDVUpTo(s, p) = SumOf(Counts(s), 1..p)
    BY <1>2, <2>1, UpToFacts
  <2>3. \A i \in 1..p : Counts(x)[i] = Counts(s)[i]
    <3>1. \A i \in 1..p : i \in 1..n /\ i \in DOMAIN x /\ i \in DOMAIN s
      BY <1>1, <1>4
    <3> QED BY <1>2, <3>1 DEF Counts
  <2> QED BY <2>2, <2>3, SumExtensional
<1>6. NDVUpTo(x, n) = GetNDV(s) /\ GetNDV(s) \in Nat
  BY <1>1, <1>4, <1>5, UpToEnds, DegreesFacts
<1>7. GetNDV(x) = NDVUpTo(x, Len(x))
  BY <1>2, UpToEnds
<1>8. CASE z > 0 /\ b > 0
  <2>1. Len(x) = n + 1 /\ n + 1 \in DOMAIN x /\ (n + 1) - 1 = n /\ x[n + 1].count = z
    BY <1>2, <1>3, <1>8
  <2>2. NDVUpTo(x, n + 1) = NDVUpTo(x, (n + 1) - 1) + x[n + 1].count
    BY <1>2, <2>1, RowsUpTo
  <2> QED BY <1>1, <1>3, <1>4, <1>5, <1>6, <1>7, <1>8, <2>1, <2>2
<1>9. CASE ~(z > 0 /\ b > 0)
  <2>1. Len(x) = n
    BY <1>2, <1>9
  <2> QED BY <1>1, <1>3, <1>4, <1>5, <1>6, <1>7, <1>9, <2>1
<1> QED BY <1>8, <1>9

\* The average of a finished sequence, as an operand of Merge.
Operand(x, n) == Degrees(x) /\ Descends(x) /\ GetNDV(x) <= n

LEMMA AverageOrdered ==
    ASSUME NEW s \in Seq(FinishedBucket), Descends(s), NEW ndv \in Nat, GetNDV(s) <= ndv,
           NEW k \in 0..RateDen
    PROVE  /\ Operand(AdjustToAverage(s, GetCard(s), ndv, k), ndv)
           /\ \A i \in DOMAIN AdjustToAverage(s, GetCard(s), ndv, k) :
                  AdjustToAverage(s, GetCard(s), ndv, k)[i].count > 0
<1>1. Degrees(s) /\ GetNDV(s) \in Nat /\ \A i \in DOMAIN s : s[i].count > 0
  BY FinishedDegrees, DegreesFacts DEF FinishedBucket
<1>2. PICK x, a, b, z : /\ x = AdjustToAverage(s, GetCard(s), ndv, k)
                        /\ a = k * ndv /\ b = GetCard(s) * (RateDen - k)
                        /\ z = ndv - GetNDV(s)
  OBVIOUS
<1>3. AverageOf(x, s, a, b, z)
  BY <1>1, <1>2, AverageIs
<1>4. PICK n \in Nat : n = Len(s) /\ DOMAIN s = 1..n
  BY <1>1, DegreesFacts
<1>5. /\ Degrees(x) /\ a \in Nat /\ b \in Nat /\ z \in Nat
      /\ Len(x) = IF z > 0 /\ b > 0 THEN n + 1 ELSE n
      /\ \A i \in 1..n : x[i].maxDegree = s[i].maxDegree * a + b /\ x[i].count = s[i].count
      /\ z > 0 /\ b > 0 => x[n + 1].maxDegree = b /\ x[n + 1].count = z
  BY <1>3, <1>4 DEF AverageOf
<1>6. DOMAIN x = 1..Len(x)
  BY <1>5, DegreesFacts
<1>7. GetNDV(x) <= ndv
  <2>1. GetNDV(x) = IF z > 0 /\ b > 0 THEN GetNDV(s) + z ELSE GetNDV(s)
    BY <1>1, <1>3, AverageRows
  <2> QED BY <1>1, <1>2, <2>1
<1>8. ASSUME NEW i \in DOMAIN x
      PROVE  \/ i \in 1..n
             \/ i = n + 1 /\ z > 0 /\ b > 0
  BY <1>5, <1>6
<1>9. \A i \in DOMAIN x : x[i].count > 0
  BY <1>1, <1>4, <1>5, <1>8
<1>10. ASSUME NEW i \in 1..n
       PROVE  /\ s[i].maxDegree \in Nat /\ s[i].maxDegree * a \in Nat
              /\ x[i].maxDegree >= b
  <2>1. s[i].maxDegree \in Nat
    BY <1>1, <1>4, DegreesFacts
  <2>2. s[i].maxDegree * a \in Nat
    BY <1>5, <2>1, TimesNat
  <2> QED BY <1>5, <2>1, <2>2
<1>11. Descends(x)
  <2> SUFFICES ASSUME NEW i \in DOMAIN x, NEW j \in DOMAIN x, i < j
               PROVE  x[j].maxDegree <= x[i].maxDegree
    BY DEF Descends
  <2>1. i \in 1..n
    BY <1>8
  <2>2. CASE j \in 1..n
    <3>1. PICK d \in Nat, e \in Nat : d = s[i].maxDegree /\ e = s[j].maxDegree /\ e <= d
      BY <1>4, <1>10, <2>1, <2>2 DEF Descends
    <3>2. e * a <= d * a /\ e * a \in Nat /\ d * a \in Nat
      BY <1>5, <3>1, TimesMonotone, TimesNat
    <3>3. x[i].maxDegree = d * a + b /\ x[j].maxDegree = e * a + b
      BY <1>5, <2>1, <2>2, <3>1
    <3> QED BY <1>5, <3>2, <3>3
  <2>3. CASE j = n + 1 /\ z > 0 /\ b > 0
    BY <1>5, <1>10, <2>1, <2>3
  <2> QED BY <1>8, <2>2, <2>3
<1> QED BY <1>2, <1>5, <1>7, <1>9, <1>11 DEF Operand

-----------------------------------------------------------------------------
(***************************************************************************)
(* NormalizeSubOneDegrees keeps the order, adds no rows and loses nothing. *)
(***************************************************************************)
LEMMA NormalizeBucket ==
    ASSUME NEW d \in Nat, NEW c \in Nat, c > 0, NEW u \in Nat, u > 0, d < u,
           NEW n, n = Max({1, CeilDiv(c * d, u)})
    PROVE  n \in Nat /\ n <= c /\ c * d <= n * u
<1>1. PICK p \in Nat : p = c * d
  BY TimesNat
<1>2. u \in Nat \ {0}
  OBVIOUS
<1>3. PICK q : q = CeilDiv(p, u)
  OBVIOUS
<1>4. q \in Nat /\ p <= u * q
  BY <1>2, <1>3, CeilDivFacts
<1>5. p <= c * u
  <2>1. d * c <= u * c /\ c * d <= c * u
    BY TimesMonotone
  <2> QED BY <1>1, <2>1
<1>6. CeilDiv(p, u) <= c
  BY <1>2, <1>5, CeilDivFacts
<1>7. n = IF 1 >= q THEN 1 ELSE q
  <2>1. n = Max({1, q})
    BY <1>1, <1>3
  <2> QED BY <1>4, <2>1, MaxOfTwo
<1>8. n \in Nat /\ n <= c /\ q <= n
  BY <1>3, <1>4, <1>6, <1>7
<1>9. q * u <= n * u /\ q * u = u * q /\ q * u \in Nat /\ n * u \in Nat
  BY <1>4, <1>8, TimesMonotone, TimesNat
<1> QED BY <1>1, <1>4, <1>8, <1>9

\* What becomes of a bucket b.
Rounded(b, r, u) ==
    /\ r \in AnyBucket /\ r.maxDegree \in Nat /\ r.count \in Nat
    /\ b.maxDegree \in Nat /\ b.count \in Nat
    /\ r.count <= b.count /\ b.count * b.maxDegree <= r.count * r.maxDegree
    /\ r.maxDegree = IF b.maxDegree >= u THEN b.maxDegree ELSE u

LEMMA BucketRounded ==
    ASSUME NEW d \in Nat, NEW c \in Nat, c > 0, NEW u \in Nat, u > 0,
           NEW r, r = IF d >= u THEN [maxDegree |-> d, count |-> c]
                      ELSE [maxDegree |-> u, count |-> Max({1, CeilDiv(c * d, u)})]
    PROVE  Rounded([maxDegree |-> d, count |-> c], r, u)
<1>1. CASE d >= u
  <2>1. r = [maxDegree |-> d, count |-> c]
    BY <1>1
  <2>2. c * d \in Nat
    BY TimesNat
  <2>3. r.maxDegree = d /\ r.count = c /\ r \in AnyBucket
    BY <2>1 DEF AnyBucket
  <2> QED BY <1>1, <2>2, <2>3 DEF Rounded
<1>2. CASE d < u
  <2>1. PICK n : n = Max({1, CeilDiv(c * d, u)})
    OBVIOUS
  <2>2. n \in Nat /\ n <= c /\ c * d <= n * u
    BY <1>2, <2>1, NormalizeBucket
  <2>3. r = [maxDegree |-> u, count |-> n]
    BY <1>2, <2>1
  <2>4. r.maxDegree = u /\ r.count = n /\ r \in AnyBucket
    BY <2>2, <2>3 DEF AnyBucket
  <2> QED BY <1>2, <2>2, <2>4 DEF Rounded
<1> QED BY <1>1, <1>2

LEMMA NormalizeFacts ==
    ASSUME NEW x, NEW n \in Nat, Operand(x, n), \A i \in DOMAIN x : x[i].count > 0,
           NEW u \in Nat, u > 0
    PROVE  /\ Operand(NormalizeSubOneDegrees(x, u), n)
           /\ GetCard(x) <= GetCard(NormalizeSubOneDegrees(x, u))
<1>1. Degrees(x) /\ Descends(x) /\ GetNDV(x) <= n
  BY DEF Operand
<1>2. PICK m \in Nat : m = Len(x) /\ DOMAIN x = 1..m
  BY <1>1, DegreesFacts
<1>3. PICK y : y = NormalizeSubOneDegrees(x, u)
  OBVIOUS
<1>4. ASSUME NEW i \in 1..m PROVE Rounded(x[i], y[i], u)
  <2>1. PICK d, c : d = x[i].maxDegree /\ c = x[i].count
    OBVIOUS
  <2>2. d \in Nat /\ c \in Nat /\ x[i] = [maxDegree |-> d, count |-> c] /\ c > 0
    BY <1>1, <1>2, <2>1, DegreesFacts
  <2>3. y[i] = IF d >= u THEN x[i]
               ELSE [maxDegree |-> u, count |-> Max({1, CeilDiv(c * d, u)})]
    BY <1>2, <1>3, <2>1 DEF NormalizeSubOneDegrees
  <2>4. Rounded([maxDegree |-> d, count |-> c], y[i], u)
    BY <2>2, <2>3, BucketRounded
  <2> QED BY <2>2, <2>4
<1>5. Degrees(y) /\ DOMAIN y = 1..m
  <2>1. \A i \in 1..m : y[i] \in AnyBucket
    BY <1>4 DEF Rounded
  <2>2. y = [i \in 1..m |-> y[i]]
    BY <1>2, <1>3 DEF NormalizeSubOneDegrees
  <2>3. y \in [1..m -> AnyBucket]
    BY <2>1, <2>2
  <2> QED BY <2>3, FunctionIsSeq DEF Degrees
<1>6. Descends(y)
  <2> SUFFICES ASSUME NEW i \in 1..m, NEW j \in 1..m, i < j
               PROVE  y[j].maxDegree <= y[i].maxDegree
    BY <1>5 DEF Descends
  <2>1. x[j].maxDegree <= x[i].maxDegree
    BY <1>1, <1>2 DEF Descends
  <2>2. /\ y[i].maxDegree = IF x[i].maxDegree >= u THEN x[i].maxDegree ELSE u
        /\ y[j].maxDegree = IF x[j].maxDegree >= u THEN x[j].maxDegree ELSE u
        /\ x[i].maxDegree \in Nat /\ x[j].maxDegree \in Nat
    BY <1>4 DEF Rounded
  <2> QED BY <2>1, <2>2
<1>7. ASSUME NEW i \in 1..m
      PROVE  Counts(y)[i] <= Counts(x)[i] /\ Amounts(x)[i] <= Amounts(y)[i]
  <2>1. y[i].count <= x[i].count /\ x[i].count * x[i].maxDegree <= y[i].count * y[i].maxDegree
    BY <1>4 DEF Rounded
  <2> QED BY <1>2, <1>5, <2>1 DEF Counts, Amounts
<1>8. PICK S : S = 1..m
  OBVIOUS
<1>9. /\ Nats(Counts(x), S) /\ Nats(Counts(y), S)
      /\ Nats(Amounts(x), S) /\ Nats(Amounts(y), S)
      /\ DOMAIN x = S /\ DOMAIN y = S
  BY <1>1, <1>2, <1>5, <1>8, DegreesFacts
<1>10. SumOf(Counts(y), S) <= SumOf(Counts(x), S)
  BY <1>7, <1>8, <1>9, SumMonotone
<1>11. SumOf(Amounts(x), S) <= SumOf(Amounts(y), S)
  BY <1>7, <1>8, <1>9, SumMonotone
<1>12. GetCard(x) <= GetCard(y) /\ GetNDV(y) <= GetNDV(x)
  BY <1>9, <1>10, <1>11, CardIsSum, NDVIsSum
<1>13. GetNDV(y) <= n
  <2>1. GetNDV(y) \in Nat /\ GetNDV(x) \in Nat
    BY <1>1, <1>5, DegreesFacts
  <2> QED BY <1>1, <1>12, <2>1
<1> QED BY <1>3, <1>5, <1>6, <1>12, <1>13 DEF Operand

(***************************************************************************)
(* What EstimateCardinality merges for a sequence of a collected summary:  *)
(* at least its card, over no more rows than the table has.                *)
(***************************************************************************)
LEMMA OperandOfAverage ==
    ASSUME NEW s \in Seq(FinishedBucket), Descends(s), NEW n \in Nat, n > 0, GetNDV(s) <= n,
           NEW k \in 0..RateDen,
           NEW y, y = NormalizeSubOneDegrees(AdjustToAverage(s, GetCard(s), n, k), Unit(n))
    PROVE  Operand(y, n) /\ GetCard(s) * Unit(n) <= GetCard(y) /\ GetCard(y) \in Nat
<1>1. PICK x : x = AdjustToAverage(s, GetCard(s), n, k)
  OBVIOUS
<1>2. Operand(x, n) /\ \A i \in DOMAIN x : x[i].count > 0
  BY <1>1, AverageOrdered
<1>3. Degrees(s)
  BY FinishedDegrees
<1>4. GetCard(x) = GetCard(s) * Unit(n)
  BY <1>1, <1>3, AverageSum
<1>5. PICK u \in Nat : u = Unit(n) /\ u > 0
  BY RateAssumption, TimesNat DEF Unit
<1>6. Operand(NormalizeSubOneDegrees(x, u), n)
      /\ GetCard(x) <= GetCard(NormalizeSubOneDegrees(x, u))
  BY <1>2, <1>5, NormalizeFacts
<1>7. y = NormalizeSubOneDegrees(x, u)
  BY <1>1, <1>5
<1>8. Operand(y, n) /\ GetCard(x) <= GetCard(y)
  BY <1>6, <1>7
<1>9. GetCard(y) \in Nat
  BY <1>8, DegreesFacts DEF Operand
<1> QED BY <1>4, <1>8, <1>9

LEMMA ProductOfUnits ==
    ASSUME NEW a \in Nat, NEW b \in Nat, NEW r \in Nat, NEW n \in Nat
    PROVE  (a * (r * n)) * (b * (r * n)) = n * (a * b * r * (r * n))
<1>1. PICK u \in Nat : u = r * n
  BY TimesNat
<1>2. (a * u) * (b * u) = (a * b) * (u * u)
  OBVIOUS
<1>3. u * u = (r * n) * u
  BY <1>1
<1>4. (a * b) * ((r * n) * u) = n * (a * b * r * u)
  OBVIOUS
<1> QED BY <1>1, <1>2, <1>3, <1>4

LEMMA MergedOperands ==
    ASSUME NEW x, NEW y, NEW n \in Nat, n > 0, Operand(x, n), Operand(y, n),
           NEW a \in Nat, NEW b \in Nat, GetCard(x) \in Nat, GetCard(y) \in Nat,
           a * Unit(n) <= GetCard(x), b * Unit(n) <= GetCard(y)
    PROVE  a * b * RateDen * Unit(n) <= MergedCard(x, y)
<1>1. PICK u \in Nat : u = Unit(n) /\ u = RateDen * n /\ RateDen \in Nat
  BY RateAssumption, TimesNat DEF Unit
<1>2. PICK p \in Nat, q \in Nat, v \in Nat, w \in Nat :
          p = a * u /\ q = b * u /\ v = GetCard(x) /\ w = GetCard(y) /\ p <= v /\ q <= w
  BY <1>1, TimesNat
<1>3. p * q <= v * w
  <2>1. p * q <= v * q /\ v * q <= v * w
    BY <1>2, TimesMonotone
  <2>2. p * q \in Nat /\ v * q \in Nat /\ v * w \in Nat
    BY TimesNat
  <2> QED BY <2>1, <2>2
<1>4. PICK e \in Nat : e = a * b * RateDen * u
  <2>1. a * b \in Nat
    BY TimesNat
  <2>2. a * b * RateDen \in Nat
    BY <1>1, <2>1, TimesNat
  <2>3. a * b * RateDen * u \in Nat
    BY <2>2, TimesNat
  <2> QED BY <2>3
<1>5. p * q = n * e
  <2>1. (a * (RateDen * n)) * (b * (RateDen * n)) = n * (a * b * RateDen * (RateDen * n))
    BY <1>1, ProductOfUnits
  <2> QED BY <1>1, <1>2, <1>4, <2>1
<1>6. PICK c : c = MergedCard(x, y)
  OBVIOUS
<1>7. v * w <= n * c /\ c \in Nat
  BY <1>2, <1>6, Chebyshev DEF Operand
<1>8. n * e <= n * c
  <2>1. p * q \in Nat /\ v * w \in Nat /\ n * c \in Nat
    BY <1>7, TimesNat
  <2> QED BY <1>3, <1>5, <1>7, <2>1
<1>9. e <= c
  BY <1>7, <1>8, Cancel
<1> QED BY <1>1, <1>4, <1>6, <1>9

LEMMA MeetingFacts ==
    ASSUME DSInv, OrderedInv, NEW m \in Meetings
    PROVE  /\ m[1] \in Collected /\ m[2] \in Collected
           /\ m[3] \in Covered(m[1]) /\ m[3] \in Covered(m[2])
           /\ TableRows(m[3]) \in Nat /\ TableRows(m[3]) > 0
<1>1. /\ m[1] \in Collected /\ m[2] \in Collected
      /\ m[3] \in Covered(m[1]) /\ m[3] \in Covered(m[2]) /\ TableRows(m[3]) > 0
  BY DEF Meetings
<1> QED BY <1>1, CollectedIsOrdered

(***************************************************************************)
(* Rounding never takes an estimate below independence, for every          *)
(* database, rate and precision: NormalizeSubOneDegrees loses no tuples    *)
(* and adds no rows, and sequences in descending order merge to at least   *)
(* the product of their sums divided by the rows.                          *)
(***************************************************************************)
THEOREM NeverBelowCorrect == Spec => []NeverBelowIndependence
<1>1. DSInv /\ OrderedInv => NeverBelowIndependence
  <2> SUFFICES ASSUME DSInv, OrderedInv, NEW m \in Meetings, NEW k \in Rates
               PROVE  MergedCard(Adjusted(m[1], m[3], k), Adjusted(m[2], m[3], k))
                      >= stats[m[1]].card * stats[m[2]].card * RateDen * Unit(TableRows(m[3]))
    BY DEF NeverBelowIndependence
  <2>1. PICK i, j, t, n : i = m[1] /\ j = m[2] /\ t = m[3] /\ n = TableRows(t)
    OBVIOUS
  <2>2. /\ i \in Collected /\ j \in Collected /\ t \in Covered(i) /\ t \in Covered(j)
        /\ n \in Nat /\ n > 0
    BY <2>1, MeetingFacts
  <2>3. k \in 0..RateDen
    BY DEF Rates
  <2>4. PICK a, b : a = stats[i].card /\ b = stats[j].card
    OBVIOUS
  <2>5. PICK s, r : s = stats[i].ds[t] /\ r = stats[j].ds[t]
    OBVIOUS
  <2>6. s \in Seq(FinishedBucket) /\ Descends(s) /\ GetNDV(s) <= n /\ GetCard(s) = a /\ a \in Nat
    BY <2>1, <2>2, <2>4, <2>5, CollectedIsOrdered
  <2>7. r \in Seq(FinishedBucket) /\ Descends(r) /\ GetNDV(r) <= n /\ GetCard(r) = b /\ b \in Nat
    BY <2>1, <2>2, <2>4, <2>5, CollectedIsOrdered
  <2>8. PICK x, y : /\ x = NormalizeSubOneDegrees(AdjustToAverage(s, GetCard(s), n, k), Unit(n))
                    /\ y = NormalizeSubOneDegrees(AdjustToAverage(r, GetCard(r), n, k), Unit(n))
    OBVIOUS
  <2>9. Operand(x, n) /\ a * Unit(n) <= GetCard(x) /\ GetCard(x) \in Nat
    BY <2>2, <2>3, <2>6, <2>8, OperandOfAverage
  <2>10. Operand(y, n) /\ b * Unit(n) <= GetCard(y) /\ GetCard(y) \in Nat
    BY <2>2, <2>3, <2>7, <2>8, OperandOfAverage
  <2>11. a * b * RateDen * Unit(n) <= MergedCard(x, y)
    BY <2>2, <2>6, <2>7, <2>9, <2>10, MergedOperands
  <2>12. PICK v, w : v = a * b * RateDen * Unit(n) /\ w = MergedCard(x, y)
    OBVIOUS
  <2>13. w >= v
    BY <2>11, <2>12
  <2>14. x = Adjusted(i, t, k) /\ y = Adjusted(j, t, k)
    BY <2>1, <2>4, <2>5, <2>6, <2>7, <2>8 DEF Average, Adjusted
  <2> QED BY <2>1, <2>4, <2>12, <2>13, <2>14
<1> QED BY <1>1, Invariant, CollectedDescend, PTL

-----------------------------------------------------------------------------
(***************************************************************************)
(* Either side of Merge may come first.                                    *)
(***************************************************************************)
LEMMA MeetsSwap ==
    ASSUME NEW s, NEW t, Degrees(s), Degrees(t), NEW i \in DOMAIN s, NEW j \in DOMAIN t
    PROVE  Meets(s, t)[<<i, j>>] = Meets(t, s)[<<j, i>>]
<1>1. Overlap(s, i, t, j) = Overlap(t, j, s, i)
  <2>1. PICK a, b, c, d : /\ a = NDVUpTo(s, i) /\ b = NDVUpTo(t, j)
                          /\ c = NDVUpTo(s, i - 1) /\ d = NDVUpTo(t, j - 1)
    OBVIOUS
  <2>2. {a, b} = {b, a} /\ {c, d} = {d, c}
    OBVIOUS
  <2> QED BY <2>1, <2>2 DEF Overlap
<1>2. PICK z \in Nat, d \in Nat, e \in Nat :
         z = Max({0, Overlap(s, i, t, j)}) /\ d = s[i].maxDegree /\ e = t[j].maxDegree
  BY OverlapIs, DegreesFacts
<1>3. Meets(s, t)[<<i, j>>] = z * d * e
  BY <1>2, MeetsAt
<1>4. Meets(t, s)[<<j, i>>] = z * e * d
  BY <1>1, <1>2, MeetsAt
<1>5. z * d * e = z * e * d
  OBVIOUS
<1> QED BY <1>3, <1>4, <1>5

LEMMA MergedSymmetric ==
    ASSUME NEW s, NEW t, Degrees(s), Degrees(t)
    PROVE  MergedCard(s, t) = MergedCard(t, s)
<1>1. PICK S, T, f, g : S = DOMAIN s /\ T = DOMAIN t /\ f = Meets(s, t) /\ g = Meets(t, s)
  OBVIOUS
<1>2. PICK R, W : R = S \X T /\ W = T \X S
  OBVIOUS
<1>3. Nats(f, R) /\ Nats(g, W)
  BY <1>1, <1>2, MeetsFacts
<1>4. PICK h : h = [p \in R |-> <<p[2], p[1]>>]
  OBVIOUS
<1>5. ASSUME NEW i \in S, NEW j \in T
      PROVE  h[<<i, j>>] = <<j, i>> /\ <<i, j>> \in R /\ <<j, i>> \in W
             /\ f[<<i, j>>] = g[<<j, i>>]
  <2>1. f[<<i, j>>] = g[<<j, i>>]
    BY <1>1, MeetsSwap
  <2>2. <<i, j>> \in R /\ <<j, i>> \in W /\ <<i, j>>[1] = i /\ <<i, j>>[2] = j
    BY <1>2
  <2>3. PICK p : p = <<i, j>>
    OBVIOUS
  <2>4. h[p] = <<p[2], p[1]>>
    BY <1>4, <2>2, <2>3
  <2> QED BY <2>1, <2>2, <2>3, <2>4
<1>6. h \in [R -> W]
  <2>1. ASSUME NEW p \in R PROVE h[p] \in W
    <3>1. PICK i \in S, j \in T : p = <<i, j>>
      BY <1>2
    <3> QED BY <1>5, <3>1
  <2> QED BY <1>4, <2>1
<1>7. ASSUME NEW v \in W PROVE g[v] = SumOf(f, {r \in R : h[r] = v})
  <2>1. PICK i \in S, j \in T : v = <<j, i>>
    BY <1>2
  <2>2. PICK r : r = <<i, j>>
    OBVIOUS
  <2>3. ASSUME NEW p \in R, h[p] = v PROVE p = r
    <3>1. PICK a \in S, b \in T : p = <<a, b>>
      BY <1>2
    <3>2. h[p] = <<b, a>>
      BY <1>5, <3>1
    <3>3. b = j /\ a = i
      BY <2>1, <2>3, <3>2
    <3> QED BY <2>2, <3>1, <3>3
  <2>4. r \in R /\ h[r] = v /\ f[r] = g[v]
    BY <1>5, <2>1, <2>2
  <2>5. {p \in R : h[p] = v} = {r}
    BY <2>3, <2>4
  <2>6. Nats(f, {r})
    BY <1>3, <2>4, NatsOfPart
  <2>7. SumOf(f, {r}) = f[r] + SumOf(f, {r} \ {r}) /\ f[r] \in Nat
    BY <2>6, SumTakeOut
  <2>8. {r} \ {r} = {}
    OBVIOUS
  <2>9. SumOf(f, {}) = 0
    BY SumEmpty
  <2> QED BY <2>4, <2>5, <2>7, <2>8, <2>9
<1>8. SumOf(f, R) = SumOf(g, W)
  <2>1. IsFiniteSet(W)
    BY <1>3 DEF Nats
  <2> QED BY ONLY <1>3, <1>6, <1>7, <2>1, SumFibres
<1> QED BY <1>1, <1>2, <1>8, MergedIsSum

(***************************************************************************)
(* What a sequence A merges to with an average of s is the mean of what it *)
(* merges to with s and of all it has.                                     *)
(***************************************************************************)
LEMMA MeanBuckets ==
    ASSUME NEW A, NEW s, Degrees(A), Degrees(s), NEW x, NEW a, NEW b, NEW z,
           AverageOf(x, s, a, b, z), NEW n \in Nat, n = Len(s)
    PROVE  SumOf(Gains(A, x), 1..n) = a * MergedCard(A, s) + b * Top(A, GetNDV(s))
<1>1. PICK g, h : g = Gains(A, x) /\ h = Gains(A, s)
  OBVIOUS
<1>2. DOMAIN s = 1..n /\ DOMAIN s \subseteq DOMAIN x
  BY AverageRows
<1>3. Degrees(x) /\ a \in Nat /\ b \in Nat
  BY DEF AverageOf
<1>4. (\A i \in 1..n : g[i] \in Nat) /\ \A i \in 1..n : h[i] \in Nat
  <2>1. Nats(g, DOMAIN x) /\ Nats(h, DOMAIN s)
    BY <1>1, <1>3, MergedGains
  <2> QED BY <1>2, <2>1 DEF Nats
<1>5. PICK N, T, H, P : /\ N = [p \in 0..n |-> NDVUpTo(s, p)]
                        /\ T = [p \in 0..n |-> Top(A, N[p])]
                        /\ H = [p \in 0..n |-> SumOf(h, 1..p)]
                        /\ P = [p \in 0..n |-> a * H[p] + b * T[p]]
  OBVIOUS
<1>6. ASSUME NEW p \in 0..n
      PROVE  N[p] \in Nat /\ T[p] \in Nat /\ H[p] \in Nat /\ N[p] = NDVUpTo(s, p)
             /\ T[p] = Top(A, N[p]) /\ H[p] = SumOf(h, 1..p) /\ P[p] = a * H[p] + b * T[p]
  <2>1. N[p] \in Nat /\ N[p] = NDVUpTo(s, p)
    BY <1>5, UpToFacts
  <2>2. T[p] \in Nat /\ T[p] = Top(A, N[p])
    BY <1>5, <2>1, TopNat
  <2>3. H[p] = SumOf(h, 1..p) /\ P[p] = a * H[p] + b * T[p]
    BY <1>5
  <2>4. IsFiniteSet(1..p) /\ \A i \in 1..p : h[i] \in Nat
    BY <1>4, FS_Interval
  <2>5. H[p] \in Nat
    BY <2>3, <2>4, SumNat
  <2> QED BY <2>1, <2>2, <2>3, <2>5
<1>7. Totals(g, P, n)
  <2>1. P[0] = 0
    <3>1. 0 \in 0..n /\ 1..0 = {}
      OBVIOUS
    <3>2. N[0] = 0
      BY <1>6, <3>1, UpToEnds
    <3>3. T[0] = 0 /\ H[0] = 0
      BY <1>6, <3>1, <3>2, TopEnds, SumEmpty
    <3> QED BY <1>3, <1>6, <3>1, <3>3
  <2>2. ASSUME NEW p \in 1..n PROVE P[p] = P[p - 1] + g[p]
    <3>1. PICK l \in Nat : l = p - 1 /\ p = l + 1
      OBVIOUS
    <3>2. l \in 0..n /\ p \in 0..n /\ p \in DOMAIN s /\ p \in DOMAIN x
      BY <1>2, <3>1
    <3>3. PICK d \in Nat : d = s[p].maxDegree /\ x[p].maxDegree = d * a + b
      BY <3>2, DegreesFacts DEF AverageOf
    <3>4. NDVUpTo(x, p) = N[p] /\ NDVUpTo(x, l) = N[l]
      BY <1>6, <3>2, AverageRows
    <3>5. g[p] = (d * a + b) * (T[p] - T[l])
      BY <1>1, <1>6, <3>1, <3>2, <3>3, <3>4 DEF Gains
    <3>6. h[p] = d * (T[p] - T[l])
      BY <1>1, <1>6, <3>1, <3>2, <3>3 DEF Gains
    <3>7. H[p] = H[l] + h[p]
      <4>1. \A i \in 1..(l + 1) : h[i] \in Nat
        BY <1>4, <3>1
      <4>2. SumOf(h, 1..(l + 1)) = SumOf(h, 1..l) + h[l + 1]
        BY <4>1, SumNext
      <4> QED BY <1>6, <3>1, <3>2, <4>2
    <3>8. PICK t \in Nat, u \in Nat, v \in Nat : t = T[p] /\ u = T[l] /\ v = H[l]
      BY <1>6, <3>2
    <3>9. a * (v + d * (t - u)) + b * t = (a * v + b * u) + (d * a + b) * (t - u)
      BY <1>3
    <3>10. P[p] = a * H[p] + b * T[p] /\ P[l] = a * H[l] + b * T[l]
      BY <1>6, <3>2
    <3> QED BY <3>1, <3>5, <3>6, <3>7, <3>8, <3>9, <3>10
  <2> QED BY <1>4, <2>1, <2>2 DEF Totals
<1>8. n \in 0..n
  OBVIOUS
<1>9. SumOf(g, 1..n) = P[n]
  BY <1>7, <1>8, Telescope
<1>10. H[n] = MergedCard(A, s) /\ N[n] = GetNDV(s)
  BY <1>1, <1>2, <1>6, <1>8, MergedGains, UpToEnds
<1> QED BY <1>1, <1>6, <1>8, <1>9, <1>10

LEMMA MergedWithMean ==
    ASSUME NEW A, NEW s, Degrees(A), Degrees(s), NEW x, NEW a, NEW b, NEW z,
           AverageOf(x, s, a, b, z), GetNDV(A) <= GetNDV(s) + z
    PROVE  MergedCard(A, x) = a * MergedCard(A, s) + b * GetCard(A)
<1>1. PICK n \in Nat : n = Len(s)
  BY DegreesFacts
<1>2. PICK g : g = Gains(A, x)
  OBVIOUS
<1>3. /\ Degrees(x) /\ a \in Nat /\ b \in Nat /\ z \in Nat
      /\ Len(x) = IF z > 0 /\ b > 0 THEN n + 1 ELSE n
      /\ z > 0 /\ b > 0 => x[n + 1].maxDegree = b
  BY <1>1 DEF AverageOf
<1>4. DOMAIN x = 1..Len(x)
  BY <1>3, DegreesFacts
<1>5. MergedCard(A, x) = SumOf(g, 1..Len(x)) /\ \A i \in 1..Len(x) : g[i] \in Nat
  BY <1>2, <1>3, <1>4, MergedGains DEF Nats
<1>6. PICK r \in Nat, c \in Nat, M \in Nat :
         r = GetNDV(s) /\ c = GetCard(A) /\ M = MergedCard(A, s)
  <2>1. MergedCard(A, s) \in Nat
    <3>1. MergedCard(A, s) = SumOf(Gains(A, s), DOMAIN s) /\ Nats(Gains(A, s), DOMAIN s)
      BY MergedGains
    <3> QED BY <3>1, SumNat DEF Nats
  <2> QED BY <2>1, DegreesFacts
<1>7. SumOf(g, 1..n) = a * M + b * Top(A, r)
  BY <1>1, <1>2, <1>6, MeanBuckets
<1>8. r + z \in Nat /\ Top(A, r + z) = c
  BY <1>3, <1>6, TopEnds
<1>9. CASE z > 0 /\ b > 0
  <2>1. Len(x) = n + 1 /\ n + 1 \in DOMAIN x /\ (n + 1) - 1 = n /\ x[n + 1].maxDegree = b
    BY <1>3, <1>4, <1>9
  <2>2. SumOf(g, 1..(n + 1)) = SumOf(g, 1..n) + g[n + 1]
    BY <1>5, <2>1, SumNext
  <2>3. NDVUpTo(x, n + 1) = r + z /\ NDVUpTo(x, n) = r
    <3>1. NDVUpTo(x, Len(s) + 1) = GetNDV(s) + z
      BY <1>9, AverageRows
    <3>2. n \in 0..Len(s)
      BY <1>1
    <3>3. NDVUpTo(x, n) = NDVUpTo(s, n) /\ NDVUpTo(s, n) = GetNDV(s)
      BY <1>1, <3>2, AverageRows, UpToEnds
    <3> QED BY <1>1, <1>6, <3>1, <3>3
  <2>4. g[n + 1] = b * (c - Top(A, r))
    BY <1>2, <1>8, <2>1, <2>3 DEF Gains
  <2>5. PICK t \in Nat : t = Top(A, r)
    BY TopNat
  <2>6. (a * M + b * t) + b * (c - t) = a * M + b * c
    BY <1>3
  <2> QED BY <1>5, <1>6, <1>7, <2>1, <2>2, <2>4, <2>5, <2>6
<1>10. CASE ~(z > 0 /\ b > 0)
  <2>1. Len(x) = n
    BY <1>3, <1>10
  <2>2. b * Top(A, r) = b * c
    <3>1. CASE z = 0
      BY <1>6, <1>8, <3>1
    <3>2. CASE b = 0
      <4>1. Top(A, r) \in Nat
        BY TopNat
      <4> QED BY <3>2, <4>1
    <3> QED BY <1>3, <1>10, <3>1, <3>2
  <2> QED BY <1>5, <1>6, <1>7, <2>1, <2>2
<1> QED BY <1>9, <1>10

-----------------------------------------------------------------------------
(***************************************************************************)
(* Averages of two sequences, and of a filter, merged: a weighted mean of  *)
(* the merge of the sequences (low at rate 0 and high at rate 1), so that  *)
(* it grows with the rate where low does not exceed high.                  *)
(***************************************************************************)
LEMMA MergedNat ==
    ASSUME NEW s, NEW t, Degrees(s), Degrees(t)
    PROVE  MergedCard(s, t) \in Nat
<1>1. MergedCard(s, t) = SumOf(Gains(s, t), DOMAIN t) /\ Nats(Gains(s, t), DOMAIN t)
  BY MergedGains
<1> QED BY <1>1, SumNat DEF Nats

LEMMA PairOfAverages ==
    ASSUME NEW s, NEW r, Degrees(s), Degrees(r), NEW n \in Nat, GetNDV(s) <= n, GetNDV(r) <= n,
           NEW k \in 0..RateDen, NEW x, x = AdjustToAverage(s, GetCard(s), n, k),
           NEW y, y = AdjustToAverage(r, GetCard(r), n, k)
    PROVE  MergedCard(x, y)
             = (k * n) * ((k * n) * MergedCard(s, r) + (GetCard(s) * (RateDen - k)) * GetCard(r))
               + (GetCard(r) * (RateDen - k)) * (GetCard(s) * Unit(n))
<1>1. PICK a, b, c, d, e : /\ a = k * n
                           /\ b = GetCard(s) * (RateDen - k) /\ c = GetCard(r) * (RateDen - k)
                           /\ d = n - GetNDV(s) /\ e = n - GetNDV(r)
  OBVIOUS
<1>2. AverageOf(x, s, a, b, d) /\ AverageOf(y, r, a, c, e)
  BY <1>1, AverageIs
<1>3. Degrees(x) /\ GetCard(x) = GetCard(s) * Unit(n)
  BY AverageSum
<1>4. GetNDV(s) \in Nat /\ GetNDV(r) \in Nat /\ GetNDV(x) \in Nat
  BY <1>3, DegreesFacts
<1>5. GetNDV(s) + d = n /\ GetNDV(r) + e = n
  BY <1>1, <1>4
<1>6. GetNDV(x) <= n
  <2>1. GetNDV(x) = IF d > 0 /\ b > 0 THEN GetNDV(s) + d ELSE GetNDV(s)
    BY <1>2, AverageRows
  <2> QED BY <1>5, <2>1
<1>7. MergedCard(x, y) = a * MergedCard(x, r) + c * GetCard(x)
  <2>1. GetNDV(x) <= GetNDV(r) + e
    BY <1>5, <1>6
  <2> QED BY <1>2, <1>3, <2>1, MergedWithMean
<1>8. MergedCard(r, x) = a * MergedCard(r, s) + b * GetCard(r)
  <2>1. GetNDV(r) <= GetNDV(s) + d
    BY <1>5
  <2> QED BY <1>2, <2>1, MergedWithMean
<1>9. MergedCard(x, r) = MergedCard(r, x) /\ MergedCard(r, s) = MergedCard(s, r)
  BY <1>3, MergedSymmetric
<1> QED BY <1>1, <1>3, <1>7, <1>8, <1>9

\* low at 0, high at RateDen, and the square of the rate between.
LEMMA MeanOfPair ==
    ASSUME NEW M \in Nat, NEW X \in Nat, NEW Y \in Nat, NEW n \in Nat, X * Y <= n * M,
           NEW R \in Nat, NEW F, NEW G, F = (X * Y) * n, G = (n * n) * M
    PROVE  /\ F \in Nat /\ G \in Nat /\ F <= G
           /\ \A k \in 0..R : (k * n) * ((k * n) * M + (X * (R - k)) * Y)
                                + (Y * (R - k)) * (X * (R * n))
                              = (R * R) * F + (k * k) * (G - F)
<1>1. F \in Nat /\ G \in Nat /\ X * Y \in Nat /\ n * M \in Nat
  <2>1. X * Y \in Nat /\ n * n \in Nat /\ n * M \in Nat
    BY TimesNat
  <2> QED BY <2>1, TimesNat
<1>2. F <= G
  <2>1. (X * Y) * n <= (n * M) * n
    BY <1>1, TimesMonotone
  <2>2. (n * M) * n = (n * n) * M
    OBVIOUS
  <2> QED BY <2>1, <2>2
<1>3. ASSUME NEW k \in 0..R
      PROVE  (k * n) * ((k * n) * M + (X * (R - k)) * Y) + (Y * (R - k)) * (X * (R * n))
             = (R * R) * F + (k * k) * (G - F)
  <2>1. PICK q \in Nat : q = R - k /\ R = k + q /\ k \in Nat
    OBVIOUS
  <2>2. (k * n) * ((k * n) * M) = (k * k) * ((n * n) * M)
    BY <2>1
  <2>3. (k * n) * ((X * q) * Y) = (k * q) * ((X * Y) * n)
    BY <2>1
  <2>4. (Y * q) * (X * (R * n)) = (q * R) * ((X * Y) * n)
    BY <2>1
  <2>5. PICK v \in Nat, w \in Nat : v = (k * n) * M /\ w = (X * q) * Y
    <3>1. k * n \in Nat /\ X * q \in Nat
      BY <2>1, TimesNat
    <3> QED BY <3>1, TimesNat
  <2>6. (k * n) * (v + w) = (k * n) * v + (k * n) * w
    BY <2>1
  <2>7. (k * k) * G + (k * q) * F + (q * R) * F = (R * R) * F + (k * k) * (G - F)
    <3>1. (R * R) * F = (k * k) * F + (k * q) * F + (q * R) * F
      <4>1. R * R = k * k + k * q + q * R
        <5>1. R * R = (k + q) * R /\ (k + q) * R = k * R + q * R /\ k * R = k * (k + q)
          BY <2>1
        <5> QED BY <2>1, <5>1
      <4>2. (k * k + k * q + q * R) * F = (k * k) * F + (k * q) * F + (q * R) * F
        BY <1>1, <2>1
      <4> QED BY <4>1, <4>2
    <3>2. (k * k) * (G - F) = (k * k) * G - (k * k) * F
      BY <1>1, <2>1
    <3>3. PICK a \in Int, b \in Int, c \in Int, d \in Int :
             a = (k * k) * F /\ b = (k * q) * F /\ c = (q * R) * F /\ d = (k * k) * G
      BY <1>1, <2>1
    <3> QED BY <3>1, <3>2, <3>3
  <2> QED BY <2>1, <2>2, <2>3, <2>4, <2>5, <2>6, <2>7
<1> QED BY <1>1, <1>2, <1>3

SquareMean(est, F, G, R) == \A k \in 0..R : est[k] = (R * R) * F + (k * k) * (G - F)

LEMMA MeanGrows ==
    ASSUME NEW F \in Nat, NEW G \in Nat, F <= G, NEW R \in Nat,
           NEW est, SquareMean(est, F, G, R)
    PROVE  /\ est[0] = (R * R) * F /\ est[R] = (R * R) * G
           /\ \A l, k \in 0..R : l <= k => est[l] <= est[k]
<1>1. PICK D \in Nat : D = G - F /\ G = F + D
  OBVIOUS
<1>2. PICK c \in Nat : c = (R * R) * F
  BY TimesNat
<1>3. 0 \in 0..R /\ R \in 0..R
  OBVIOUS
<1>4. est[0] = c
  BY <1>1, <1>2, <1>3 DEF SquareMean
<1>5. est[R] = (R * R) * G
  <2>1. est[R] = (R * R) * F + (R * R) * D
    BY <1>1, <1>3 DEF SquareMean
  <2>2. (R * R) * (F + D) = (R * R) * F + (R * R) * D
    OBVIOUS
  <2> QED BY <1>1, <2>1, <2>2
<1>6. ASSUME NEW l \in 0..R, NEW k \in 0..R, l <= k PROVE est[l] <= est[k]
  <2>1. l \in Nat /\ k \in Nat
    OBVIOUS
  <2>2. PICK p \in Nat, q \in Nat : p = l * l /\ q = k * k
    BY <2>1, TimesNat
  <2>3. p <= q
    <3>1. l * l <= k * l /\ k * l <= k * k
      BY <1>6, <2>1, TimesMonotone
    <3>2. k * l \in Nat
      BY <2>1, TimesNat
    <3> QED BY <2>2, <3>1, <3>2
  <2>4. p * D <= q * D /\ p * D \in Nat /\ q * D \in Nat
    BY <2>3, TimesMonotone, TimesNat
  <2>5. est[l] = c + p * D /\ est[k] = c + q * D
    BY <1>1, <1>2, <2>2 DEF SquareMean
  <2> QED BY <2>4, <2>5
<1> QED BY <1>2, <1>4, <1>5, <1>6

LEMMA StarsInterpolate ==
    ASSUME NEW s, NEW r, NEW n \in Nat, Operand(s, n), Operand(r, n), NEW est,
           est = [k \in Rates |-> MergedCard(AdjustToAverage(s, GetCard(s), n, k),
                                             AdjustToAverage(r, GetCard(r), n, k))]
    PROVE  Interpolates(est, Rates, GetCard(s) * GetCard(r) * RateDen * Unit(n),
                        MergedCard(s, r) * Unit(n) * Unit(n))
<1>1. Degrees(s) /\ Degrees(r) /\ GetNDV(s) <= n /\ GetNDV(r) <= n
  BY DEF Operand
<1>2. PICK X \in Nat, Y \in Nat, M \in Nat, R \in Nat :
         X = GetCard(s) /\ Y = GetCard(r) /\ M = MergedCard(s, r) /\ R = RateDen
  BY <1>1, DegreesFacts, MergedNat, RateAssumption
<1>3. X * Y <= n * M
  BY <1>2, Chebyshev DEF Operand
<1>4. PICK F, G : F = (X * Y) * n /\ G = (n * n) * M
  OBVIOUS
<1>5. /\ F \in Nat /\ G \in Nat /\ F <= G
      /\ \A k \in 0..R : (k * n) * ((k * n) * M + (X * (R - k)) * Y)
                           + (Y * (R - k)) * (X * (R * n))
                         = (R * R) * F + (k * k) * (G - F)
  BY <1>3, <1>4, MeanOfPair
<1>6. ASSUME NEW k \in 0..R PROVE est[k] = (R * R) * F + (k * k) * (G - F)
  <2>1. PICK x, y : /\ x = AdjustToAverage(s, GetCard(s), n, k)
                    /\ y = AdjustToAverage(r, GetCard(r), n, k)
    OBVIOUS
  <2>2. est[k] = MergedCard(x, y)
    BY <1>2, <2>1 DEF Rates
  <2>3. MergedCard(x, y)
             = (k * n) * ((k * n) * MergedCard(s, r) + (GetCard(s) * (RateDen - k)) * GetCard(r))
               + (GetCard(r) * (RateDen - k)) * (GetCard(s) * Unit(n))
    BY <1>1, <1>2, <2>1, PairOfAverages
  <2>4. MergedCard(x, y) = (k * n) * ((k * n) * M + (X * (R - k)) * Y)
                           + (Y * (R - k)) * (X * (R * n))
    BY <1>2, <2>3 DEF Unit
  <2> QED BY <1>5, <2>2, <2>4
<1>7. /\ est[0] = (R * R) * F /\ est[R] = (R * R) * G
      /\ \A l, k \in 0..R : l <= k => est[l] <= est[k]
  <2>1. SquareMean(est, F, G, R)
    BY <1>6 DEF SquareMean
  <2>2. F \in Nat /\ G \in Nat /\ F <= G /\ R \in Nat
    BY <1>5
  <2> QED BY ONLY <2>1, <2>2, MeanGrows
<1>8. (R * R) * ((X * Y) * n) = X * Y * R * (R * n)
  OBVIOUS
<1>9. (R * R) * ((n * n) * M) = M * (R * n) * (R * n)
  OBVIOUS
<1>10. /\ est[0] = X * Y * R * Unit(n) /\ est[R] = M * Unit(n) * Unit(n)
  BY <1>2, <1>4, <1>7, <1>8, <1>9 DEF Unit
<1> QED BY <1>2, <1>7, <1>10 DEF Interpolates, Rates

\* The same for a filter that `rows' of the n rows of a table pass.
LinearMean(est, L, H, R) == \A k \in 0..R : est[k] = k * H + (R - k) * L

LEMMA LineGrows ==
    ASSUME NEW H \in Nat, NEW L \in Nat, L <= H, NEW R \in Nat,
           NEW est, LinearMean(est, L, H, R)
    PROVE  /\ est[0] = R * L /\ est[R] = R * H
           /\ \A l, k \in 0..R : l <= k => est[l] <= est[k]
<1>1. PICK D \in Nat : D = H - L /\ H = L + D
  OBVIOUS
<1>2. ASSUME NEW k \in 0..R PROVE est[k] = R * L + k * D
  <2>1. PICK q \in Nat : q = R - k /\ R = k + q /\ k \in Nat
    OBVIOUS
  <2>2. est[k] = k * (L + D) + q * L
    BY <1>1, <2>1 DEF LinearMean
  <2>3. k * (L + D) + q * L = (k + q) * L + k * D
    BY <2>1
  <2> QED BY <2>1, <2>2, <2>3
<1>3. 0 \in 0..R /\ R \in 0..R
  OBVIOUS
<1>4. est[0] = R * L
  <2>1. est[0] = R * L + 0 * D
    BY <1>2, <1>3
  <2> QED BY <2>1, TimesNat
<1>5. est[R] = R * H
  <2>1. R * (L + D) = R * L + R * D
    OBVIOUS
  <2> QED BY <1>1, <1>2, <1>3, <2>1
<1>6. ASSUME NEW l \in 0..R, NEW k \in 0..R, l <= k PROVE est[l] <= est[k]
  <2>1. l \in Nat /\ k \in Nat
    OBVIOUS
  <2>2. l * D <= k * D /\ l * D \in Nat /\ k * D \in Nat /\ R * L \in Nat
    BY <1>6, <2>1, TimesMonotone, TimesNat
  <2>3. est[l] = R * L + l * D /\ est[k] = R * L + k * D
    BY <1>2
  <2> QED BY <2>2, <2>3
<1> QED BY <1>4, <1>5, <1>6

LEMMA FilterInterpolates ==
    ASSUME NEW s, NEW n \in Nat, Operand(s, n), NEW rows \in 1..n, NEW est,
           est = [k \in Rates |-> MergedCard(s, AdjustToAverage(SingleSequence(rows), rows, n, k))]
    PROVE  Interpolates(est, Rates, GetCard(s) * rows * RateDen, Top(s, rows) * Unit(n))
<1>1. Degrees(s) /\ Descends(s) /\ GetNDV(s) <= n /\ rows \in Nat /\ rows <= n
  BY DEF Operand
<1>2. PICK c \in Nat, t \in Nat, R \in Nat : c = GetCard(s) /\ t = Top(s, rows) /\ R = RateDen
  BY <1>1, DegreesFacts, TopNat, RateAssumption
<1>3. PICK f : f = SingleSequence(rows) /\ f = <<[maxDegree |-> 1, count |-> rows]>>
  BY DEF SingleSequence
<1>4. Degrees(f) /\ GetCard(f) = rows /\ GetNDV(f) = rows
  <2>1. Degrees(f) /\ GetCard(f) = rows * 1 /\ GetNDV(f) = rows
    BY <1>1, <1>3, CardOfOne
  <2> QED BY <1>1, <2>1
<1>5. MergedCard(s, f) = t
  <2>1. MergedCard(s, f) = 1 * Top(s, rows)
    BY <1>1, <1>3, MergedWithOne
  <2> QED BY <1>2, <2>1
<1>6. PICK H \in Nat, L \in Nat : H = n * t /\ L = rows * c
  BY <1>1, TimesNat
<1>7. L <= H
  BY <1>1, <1>2, <1>6, TopShare
<1>8. ASSUME NEW k \in 0..R PROVE est[k] = k * H + (R - k) * L
  <2>1. PICK x, a, b, z : /\ x = AdjustToAverage(f, GetCard(f), n, k)
                          /\ a = k * n /\ b = GetCard(f) * (RateDen - k) /\ z = n - GetNDV(f)
    OBVIOUS
  <2>2. GetNDV(f) <= n /\ k \in 0..RateDen
    BY <1>1, <1>2, <1>4
  <2>3. AverageOf(x, f, a, b, z)
    BY <1>4, <2>1, <2>2, AverageIs
  <2>4. GetNDV(s) <= GetNDV(f) + z
    BY <1>1, <1>4, <2>1
  <2>5. MergedCard(s, x) = a * MergedCard(s, f) + b * GetCard(s)
    BY <1>1, <1>4, <2>3, <2>4, MergedWithMean
  <2>6. est[k] = MergedCard(s, x)
    BY <1>2, <1>3, <1>4, <2>1 DEF Rates
  <2>7. PICK q \in Nat : q = R - k /\ k \in Nat
    OBVIOUS
  <2>8. (k * n) * t = k * (n * t) /\ (rows * q) * c = q * (rows * c)
    BY <1>1, <2>7
  <2>9. est[k] = (k * n) * t + (rows * q) * c
    BY <1>2, <1>4, <1>5, <2>1, <2>5, <2>6, <2>7
  <2> QED BY <1>6, <2>7, <2>8, <2>9
<1>9. /\ est[0] = R * L /\ est[R] = R * H
      /\ \A l, k \in 0..R : l <= k => est[l] <= est[k]
  <2>1. LinearMean(est, L, H, R)
    BY <1>8 DEF LinearMean
  <2>2. H \in Nat /\ L \in Nat /\ L <= H /\ R \in Nat
    BY <1>6, <1>7
  <2> QED BY ONLY <2>1, <2>2, LineGrows
<1>10. R * (rows * c) = c * rows * R /\ R * (n * t) = t * (R * n)
  BY <1>1
<1>11. est[0] = c * rows * R /\ est[R] = t * Unit(n)
  BY <1>2, <1>6, <1>9, <1>10 DEF Unit
<1> QED BY <1>2, <1>9, <1>11 DEF Interpolates, Rates

\* At rate 1 no degree is below 1.
LEMMA WholeDegrees ==
    ASSUME NEW s \in Seq(FinishedBucket), NEW n \in Nat, n > 0, GetNDV(s) <= n,
           NEW x, x = AdjustToAverage(s, GetCard(s), n, RateDen)
    PROVE  NormalizeSubOneDegrees(x, Unit(n)) = x
<1>1. Degrees(s) /\ GetNDV(s) \in Nat /\ GetCard(s) \in Nat
  BY FinishedDegrees, DegreesFacts
<1>2. PICK R \in Nat : R = RateDen /\ R - R = 0 /\ R \in 0..R
  BY RateAssumption
<1>3. PICK a, b, z : a = R * n /\ b = GetCard(s) * (R - R) /\ z = n - GetNDV(s)
  OBVIOUS
<1>4. AverageOf(x, s, a, b, z)
  BY <1>1, <1>2, <1>3, AverageIs
<1>5. b = 0
  BY <1>1, <1>2, <1>3
<1>6. PICK m \in Nat : m = Len(s) /\ DOMAIN s = 1..m
  BY <1>1, DegreesFacts
<1>7. /\ Degrees(x) /\ a \in Nat /\ Len(x) = m
      /\ \A i \in 1..m : x[i].maxDegree = s[i].maxDegree * a + b
  BY <1>4, <1>5, <1>6 DEF AverageOf
<1>8. DOMAIN x = 1..m /\ x = [i \in 1..m |-> x[i]]
  <2>1. DOMAIN x = 1..Len(x)
    BY <1>7, DegreesFacts
  <2>2. x = [i \in DOMAIN x |-> x[i]]
    BY <1>7 DEF Degrees
  <2> QED BY <1>7, <2>1, <2>2
<1>9. ASSUME NEW i \in 1..m PROVE x[i].maxDegree >= Unit(n)
  <2>1. PICK d \in Nat : d = s[i].maxDegree /\ 1 <= d
    <3>1. s[i] \in FinishedBucket
      BY <1>6
    <3>2. s[i].maxDegree \in Nat \ {0}
      BY <3>1 DEF FinishedBucket
    <3> QED BY <3>2
  <2>2. 1 * a <= d * a /\ d * a \in Nat
    BY <1>7, <2>1, TimesMonotone, TimesNat
  <2>3. x[i].maxDegree = d * a /\ a = Unit(n)
    BY <1>2, <1>3, <1>5, <1>7, <2>1, <2>2 DEF Unit
  <2> QED BY <1>7, <2>2, <2>3
<1>10. NormalizeSubOneDegrees(x, Unit(n)) = [i \in 1..m |-> x[i]]
  BY <1>8, <1>9 DEF NormalizeSubOneDegrees
<1> QED BY <1>8, <1>10

(***************************************************************************)
(* AdjustRate leads from independence to the upper bound wherever nothing  *)
(* is rounded, and so does the PredicateAdjustRate of a filter, for every  *)
(* database and precision: the estimate is exactly the independent one at  *)
(* rate 0 and never falls as the rate is raised; and at rate 1 nothing is  *)
(* rounded, and it is the merge of the unchanged sequences.                *)
(***************************************************************************)
THEOREM RateCorrect == Spec => []RateInterpolates
<1>1. ASSUME DSInv, OrderedInv, NEW m \in Meetings
      PROVE  Interpolates([k \in Rates |-> MergedCard(Adjusted(m[1], m[3], k),
                                                      Adjusted(m[2], m[3], k))],
                          Unrounded(m[1], m[3]) \cap Unrounded(m[2], m[3]),
                          stats[m[1]].card * stats[m[2]].card * RateDen
                              * Unit(TableRows(m[3])),
                          MergedCard(stats[m[1]].ds[m[3]], stats[m[2]].ds[m[3]])
                              * Unit(TableRows(m[3])) * Unit(TableRows(m[3])))
  <2>1. PICK i, j, t, n : i = m[1] /\ j = m[2] /\ t = m[3] /\ n = TableRows(t)
    OBVIOUS
  <2>2. /\ i \in Collected /\ j \in Collected /\ t \in Covered(i) /\ t \in Covered(j)
        /\ n \in Nat /\ n > 0
    BY <1>1, <2>1, MeetingFacts
  <2>3. PICK s, r : s = stats[i].ds[t] /\ r = stats[j].ds[t]
    OBVIOUS
  <2>4. Operand(s, n) /\ GetCard(s) = stats[i].card /\ s \in Seq(FinishedBucket)
    BY <1>1, <2>1, <2>2, <2>3, CollectedIsOrdered DEF Operand
  <2>5. Operand(r, n) /\ GetCard(r) = stats[j].card /\ r \in Seq(FinishedBucket)
    BY <1>1, <2>1, <2>2, <2>3, CollectedIsOrdered DEF Operand
  <2>6. PICK est : est = [k \in Rates |-> MergedCard(AdjustToAverage(s, GetCard(s), n, k),
                                                     AdjustToAverage(r, GetCard(r), n, k))]
    OBVIOUS
  <2>7. PICK low, high : /\ low = GetCard(s) * GetCard(r) * RateDen * Unit(n)
                         /\ high = MergedCard(s, r) * Unit(n) * Unit(n)
    OBVIOUS
  <2>8. Interpolates(est, Rates, low, high)
    BY <2>2, <2>4, <2>5, <2>6, <2>7, StarsInterpolate
  <2>9. \A k \in Rates : est[k] = MergedCard(Average(i, t, k), Average(j, t, k))
    BY <2>1, <2>3, <2>4, <2>5, <2>6 DEF Average
  <2>10. PICK both, code : /\ both = Unrounded(i, t) \cap Unrounded(j, t)
                           /\ code = [k \in Rates |-> MergedCard(Adjusted(i, t, k),
                                                                 Adjusted(j, t, k))]
    OBVIOUS
  <2>11. \A k \in both : k \in Rates /\ code[k] = est[k]
    BY <2>9, <2>10 DEF Unrounded
  <2>12. RateDen \in both
    <3>1. RateDen \in Rates
      BY RateAssumption DEF Rates
    <3>2. Adjusted(i, t, RateDen) = Average(i, t, RateDen)
      BY <2>1, <2>2, <2>3, <2>4, WholeDegrees DEF Adjusted, Average, Operand
    <3>3. Adjusted(j, t, RateDen) = Average(j, t, RateDen)
      BY <2>1, <2>2, <2>3, <2>5, WholeDegrees DEF Adjusted, Average, Operand
    <3> QED BY <2>10, <3>1, <3>2, <3>3 DEF Unrounded
  <2>13. Interpolates(code, both, low, high)
    BY <2>8, <2>11, <2>12 DEF Interpolates
  <2> QED BY <2>1, <2>3, <2>4, <2>5, <2>7, <2>10, <2>13
<1>2. ASSUME DSInv, OrderedInv, NEW i \in Collected, NEW t \in Covered(i),
             NEW rows \in 1..TableRows(t)
      PROVE  Interpolates([k \in Rates |->
                              MergedCard(stats[i].ds[t],
                                         AdjustToAverage(SingleSequence(rows), rows,
                                                         TableRows(t), k))],
                          Rates,
                          stats[i].card * rows * RateDen,
                          Top(stats[i].ds[t], rows) * Unit(TableRows(t)))
  <2>1. PICK s, n : s = stats[i].ds[t] /\ n = TableRows(t)
    OBVIOUS
  <2>2. Operand(s, n) /\ GetCard(s) = stats[i].card /\ n \in Nat /\ rows \in 1..n
    BY <1>2, <2>1, CollectedIsOrdered DEF Operand
  <2>3. PICK est : est = [k \in Rates |->
                             MergedCard(s, AdjustToAverage(SingleSequence(rows), rows, n, k))]
    OBVIOUS
  <2>4. Interpolates(est, Rates, GetCard(s) * rows * RateDen, Top(s, rows) * Unit(n))
    BY <2>2, <2>3, FilterInterpolates
  <2> QED BY <2>1, <2>2, <2>3, <2>4
<1>3. DSInv /\ OrderedInv => RateInterpolates
  BY <1>1, <1>2 DEF RateInterpolates
<1> QED BY <1>3, Invariant, CollectedDescend, PTL
=============================================================================

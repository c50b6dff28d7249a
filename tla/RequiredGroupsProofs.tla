--------------------------- MODULE RequiredGroupsProofs ---------------------------
(***************************************************************************)
(* The fixed-point enclosures hold the exponential and get as narrow as    *)
(* they are asked to be, so the tests of the gate decide, and rightly, so  *)
(* the search answers with the least number of groups, for every risk and  *)
(* every decimal estimate, proved with TLAPS.                              *)
(* Of the exponential, which is a real number, the proofs use four         *)
(* properties (IsExponential).                                             *)
(***************************************************************************)
EXTENDS RiskReference, DataLemmas, TLAPS

------------------------------------------------------------------------------
(* Directed division and powers of two                                     *)

\* Products keep an order, and it can be read off them.
LEMMA ProductsKeepOrder ==
    ASSUME NEW a \in Int, NEW b \in Int, NEW c \in Nat
    PROVE  /\ a <= b => a * c <= b * c
           /\ a * c < b * c => a < b
<1>1. ASSUME a <= b PROVE a * c <= b * c
  <2>1. b - a \in Nat
    BY <1>1
  <2>2. (b - a) * c >= 0
    BY <2>1
  <2>3. (b - a) * c = b * c - a * c
    OBVIOUS
  <2> QED
    BY <2>2, <2>3
<1>2. ASSUME b <= a PROVE b * c <= a * c
  <2>1. a - b \in Nat
    BY <1>2
  <2>2. (a - b) * c >= 0
    BY <2>1
  <2>3. (a - b) * c = a * c - b * c
    OBVIOUS
  <2> QED
    BY <2>2, <2>3
<1>3. a * c \in Int /\ b * c \in Int
  OBVIOUS
<1> QED
  BY <1>1, <1>2, <1>3

LEMMA DivIsDirected ==
    ASSUME NEW a \in Nat, NEW b \in Nat \ {0}
    PROVE  /\ FloorDiv(a, b) \in Nat /\ FloorDiv(a, b) * b <= a
           /\ CeilDiv(a, b) \in Nat /\ a <= CeilDiv(a, b) * b
           /\ \A c \in Int : a <= c * b => CeilDiv(a, b) <= c
<1>1. a \div b \in Nat /\ (a \div b) * b <= a
  <2>1. a = b * (a \div b) + (a % b) /\ a \div b \in Nat /\ a % b \in Nat
    BY Division
  <2> QED
    BY <2>1
<1>2. (-a) \div b \in Int /\ (-a) = b * ((-a) \div b) + ((-a) % b) /\ (-a) % b \in 0..b - 1
  OBVIOUS
<1>3. /\ -((-a) \div b) \in Nat /\ a <= (-((-a) \div b)) * b
      /\ \A c \in Int : a <= c * b => -((-a) \div b) <= c
  <2> DEFINE q == (-a) \div b
             m == (-a) % b
  <2>1. q \in Int /\ (-a) = b * q + m /\ m \in 0..b - 1
    BY <1>2
  <2> HIDE DEF q, m
  <2>2. a <= (-q) * b
    BY <2>1
  <2>3. q <= 0
    <3> SUFFICES ASSUME q > 0 PROVE FALSE
      BY <2>1
    <3>1. b * q >= b
      <4>1. b * 0 + b <= b * q
        BY <2>1, Multiples
      <4> QED
        BY <4>1
    <3> QED
      BY <2>1, <3>1
  <2>4. -q \in Nat
    BY <2>1, <2>3
  <2>5. ASSUME NEW c \in Int, a <= c * b, c < -q PROVE FALSE
    <3>1. b * c + b <= b * (-q)
      BY <2>1, <2>5, Multiples
    <3>2. b * (-q) = a + m
      BY <2>1
    <3> QED
      BY <2>1, <2>5, <3>1, <3>2
  <2>6. \A c \in Int : a <= c * b => -q <= c
    BY <2>1, <2>5
  <2> QED
    BY <2>2, <2>4, <2>6 DEF q
<1> QED
  BY <1>1, <1>3 DEF FloorDiv, CeilDiv

\* A rounded quotient is less than one away from the exact one.
LEMMA DivIsClose ==
    ASSUME NEW a \in Nat, NEW b \in Nat \ {0}
    PROVE  /\ a < (FloorDiv(a, b) + 1) * b
           /\ (CeilDiv(a, b) - 1) * b < a
<1>1. a < (a \div b + 1) * b
  <2>1. a = b * (a \div b) + (a % b) /\ a \div b \in Nat /\ a % b \in 0..b - 1
    BY Division
  <2> DEFINE q == a \div b
             m == a % b
  <2> HIDE DEF q, m
  <2>2. a = b * q + m /\ q \in Nat /\ m \in 0..b - 1
    BY <2>1 DEF q, m
  <2>3. (q + 1) * b = b * q + b
    BY <2>2
  <2>4. b * q \in Int
    BY <2>2
  <2> QED
    BY <2>2, <2>3, <2>4 DEF q
<1>2. (-((-a) \div b) - 1) * b < a
  <2> DEFINE q == (-a) \div b
             m == (-a) % b
  <2>1. q \in Int /\ (-a) = b * q + m /\ m \in 0..b - 1
    OBVIOUS
  <2> HIDE DEF q, m
  <2>2. (-q - 1) * b = -(b * q) - b /\ b * q \in Int
    BY <2>1
  <2> QED
    BY <2>1, <2>2 DEF q
<1> QED
  BY <1>1, <1>2 DEF FloorDiv, CeilDiv

LEMMA PowerOfTwoDef ==
    /\ PowerOfTwo(0) = 1
    /\ \A n \in Nat : /\ PowerOfTwo(n + 1) = 2 * PowerOfTwo(n)
                      /\ PowerOfTwo(n) \in Nat /\ n < PowerOfTwo(n)
<1> DEFINE ArePowers(f) == f = [i \in Nat |-> IF i = 0 THEN 1 ELSE 2 * f[i - 1]]
           rule == [p \in Nat \X Nat |-> 2 * p[2]]
           power == CHOOSE f : ArePowers(f)
<1>1. PICK g : IsRecursion(g, 1, rule, Nat)
  <2>1. rule \in [Nat \X Nat -> Nat] /\ 1 \in Nat
    OBVIOUS
  <2> HIDE DEF rule
  <2> QED
    BY <2>1, Recursion
<1>2. ArePowers(g)
  <2>1. ASSUME NEW i \in Nat, i # 0 PROVE rule[<<i - 1, g[i - 1]>>] = 2 * g[i - 1]
    BY <1>1, <2>1 DEF IsRecursion
  <2> HIDE DEF rule
  <2> QED
    BY <1>1, <2>1 DEF IsRecursion
<1>3. ArePowers(power)
  BY <1>2
<1>4. \A n : PowerOfTwo(n) = power[n]
  BY Zenon DEF PowerOfTwo
<1>5. power[0] = 1 /\ \A i \in Nat : power[i + 1] = 2 * power[i]
  <2> HIDE DEF power
  <2> QED
    BY <1>3
<1> DEFINE T == {n \in Nat : power[n] \in Nat /\ n < power[n]}
<1>6. T = Nat
  <2>1. 0 \in T /\ \A n \in T : n + 1 \in T
    <3> HIDE DEF power
    <3> QED
      BY <1>5
  <2>2. T \in SUBSET Nat
    OBVIOUS
  <2> HIDE DEF T
  <2> QED
    BY <2>1, <2>2, InductiveSet
<1>7. \A n \in Nat : power[n] \in Nat /\ n < power[n]
  BY <1>6
<1> HIDE DEF power, T
<1> QED
  BY <1>4, <1>5, <1>7

LEMMA PowersAddUp ==
    ASSUME NEW a \in Nat, NEW b \in Nat
    PROVE  PowerOfTwo(a + b) = PowerOfTwo(a) * PowerOfTwo(b)
<1> DEFINE T == {n \in Nat : PowerOfTwo(a + n) = PowerOfTwo(a) * PowerOfTwo(n)}
<1>1. 0 \in T
  BY PowerOfTwoDef
<1>2. ASSUME NEW n \in T PROVE n + 1 \in T
  <2>1. n \in Nat /\ PowerOfTwo(a + n) = PowerOfTwo(a) * PowerOfTwo(n)
    OBVIOUS
  <2>2. /\ PowerOfTwo(n + 1) = 2 * PowerOfTwo(n)
        /\ PowerOfTwo((a + n) + 1) = 2 * PowerOfTwo(a + n)
        /\ PowerOfTwo(n) \in Nat /\ PowerOfTwo(a) \in Nat
    <3>1. a + n \in Nat
      BY <2>1
    <3> QED
      BY <2>1, <3>1, PowerOfTwoDef
  <2>3. (a + n) + 1 = a + (n + 1)
    BY <2>1
  <2>4. 2 * (PowerOfTwo(a) * PowerOfTwo(n)) = PowerOfTwo(a) * (2 * PowerOfTwo(n))
    BY <2>2
  <2>5. PowerOfTwo(a + (n + 1)) = PowerOfTwo(a) * PowerOfTwo(n + 1)
    BY <2>1, <2>2, <2>3, <2>4, Zenon
  <2> QED
    BY <2>1, <2>5
<1>3. T \in SUBSET Nat
  OBVIOUS
<1>4. T = Nat
  <2> HIDE DEF T
  <2> QED
    BY <1>1, <1>2, <1>3, InductiveSet
<1> QED
  BY <1>4

Exponents == [num : Nat, den : Nat \ {0}]

\* A property that some number has is had first at 0 or after one that lacks it.
LEMMA FirstNumber ==
    ASSUME NEW T \in SUBSET Nat, NEW n \in T
    PROVE  \E m \in 0..n : m \in T /\ (m = 0 \/ m - 1 \notin T)
<1>1. PICK m \in T : \A k \in T : m <= k
  BY LeastNumber
<1>2. m \in 0..n
  BY <1>1
<1>3. m - 1 \notin T
  BY <1>1
<1> QED
  BY <1>1, <1>2, <1>3

LEMMA LogarithmTypes ==
    /\ \A k \in Nat : BitLength(k) \in Nat /\ CeilLog2(k) \in Nat /\ k <= PowerOfTwo(CeilLog2(k))
    /\ \A x \in Exponents :
          Squarings(x) \in Nat /\ 2 * x.num <= x.den * PowerOfTwo(Squarings(x))
<1>1. ASSUME NEW k \in Nat PROVE BitLength(k) \in Nat
  <2> DEFINE T == {b \in Nat : k < PowerOfTwo(b)}
  <2>1. k \in T /\ T \in SUBSET Nat
    BY PowerOfTwoDef
  <2>2. \E b \in 0..k : b \in T /\ (b = 0 \/ b - 1 \notin T)
    <3> HIDE DEF T
    <3> QED
      BY <2>1, FirstNumber
  <2>3. \E b \in 0..k : k < PowerOfTwo(b) /\ (b = 0 \/ PowerOfTwo(b - 1) <= k)
    <3>1. PICK b \in 0..k : b \in T /\ (b = 0 \/ b - 1 \notin T)
      BY <2>2
    <3>2. CASE b = 0
      BY <3>1, <3>2
    <3>3. CASE b # 0
      <4>1. b - 1 \in Nat
        BY <3>3
      <4>2. PowerOfTwo(b - 1) <= k
        BY <3>1, <3>3, <4>1, PowerOfTwoDef
      <4> QED
        BY <3>1, <4>2
    <3> QED
      BY <3>2, <3>3
  <2> QED
    BY <2>3 DEF BitLength
<1>2. ASSUME NEW k \in Nat PROVE CeilLog2(k) \in Nat /\ k <= PowerOfTwo(CeilLog2(k))
  <2> DEFINE T == {e \in Nat : k <= PowerOfTwo(e)}
  <2>1. k \in T /\ T \in SUBSET Nat
    BY PowerOfTwoDef
  <2>2. \E e \in 0..k : e \in T /\ (e = 0 \/ e - 1 \notin T)
    <3> HIDE DEF T
    <3> QED
      BY <2>1, FirstNumber
  <2>3. \E e \in 0..k : k <= PowerOfTwo(e) /\ (e = 0 \/ PowerOfTwo(e - 1) < k)
    <3>1. PICK e \in 0..k : e \in T /\ (e = 0 \/ e - 1 \notin T)
      BY <2>2
    <3>2. CASE e = 0
      BY <3>1, <3>2
    <3>3. CASE e # 0
      <4>1. e - 1 \in Nat
        BY <3>3
      <4>2. PowerOfTwo(e - 1) < k
        BY <3>1, <3>3, <4>1, PowerOfTwoDef
      <4> QED
        BY <3>1, <4>2
    <3> QED
      BY <3>2, <3>3
  <2> QED
    BY <2>3 DEF CeilLog2
<1>3. ASSUME NEW x \in Exponents
      PROVE  Squarings(x) \in Nat /\ 2 * x.num <= x.den * PowerOfTwo(Squarings(x))
  <2> DEFINE IsHalved(s) == 2 * x.num <= x.den * PowerOfTwo(s)
             T == {s \in Nat : IsHalved(s)}
  <2>1. x.num \in Nat /\ x.den \in Nat \ {0}
    BY DEF Exponents
  <2>2. IsHalved(x.num)
    <3> DEFINE p == PowerOfTwo(x.num)
    <3>1. 2 * x.num <= p
      <4>1. CASE x.num = 0
        BY <4>1, PowerOfTwoDef
      <4>2. CASE x.num # 0
        <5>1. x.num - 1 \in Nat /\ (x.num - 1) + 1 = x.num
          BY <2>1, <4>2
        <5>2. PowerOfTwo((x.num - 1) + 1) = 2 * PowerOfTwo(x.num - 1)
          BY <5>1, PowerOfTwoDef
        <5>3. PowerOfTwo(x.num - 1) \in Nat /\ x.num - 1 < PowerOfTwo(x.num - 1)
          BY <5>1, PowerOfTwoDef
        <5> QED
          BY <2>1, <5>1, <5>2, <5>3
      <4> QED
        BY <4>1, <4>2
    <3>2. p \in Nat
      BY <2>1, PowerOfTwoDef
    <3> HIDE DEF p
    <3>3. 1 * p <= x.den * p
      BY <2>1, <3>2, ProductsKeepOrder
    <3>4. x.den * p \in Int
      BY <2>1, <3>2
    <3>5. 2 * x.num <= x.den * p
      BY <2>1, <3>1, <3>2, <3>3, <3>4
    <3> QED
      BY <3>5 DEF p
  <2>3. x.num \in T /\ T \in SUBSET Nat
    BY <2>1, <2>2
  <2>4. \E s \in 0..x.num : s \in T /\ (s = 0 \/ s - 1 \notin T)
    <3> HIDE DEF T
    <3> QED
      BY <2>3, FirstNumber
  <2>5. \E s \in 0..x.num : IsHalved(s) /\ (s = 0 \/ ~IsHalved(s - 1))
    <3>1. PICK s \in 0..x.num : s \in T /\ (s = 0 \/ s - 1 \notin T)
      BY <2>4
    <3>2. s = 0 \/ s - 1 \in Nat
      BY <2>1
    <3> HIDE DEF IsHalved
    <3> QED
      BY <3>1, <3>2
  <2>6. Squarings(x) = CHOOSE s \in 0..x.num : IsHalved(s) /\ (s = 0 \/ ~IsHalved(s - 1))
    BY DEF Squarings
  <2> HIDE DEF IsHalved
  <2>7. Squarings(x) \in 0..x.num /\ IsHalved(Squarings(x))
    BY <2>5, <2>6
  <2> QED
    BY <2>1, <2>7 DEF IsHalved
<1> QED
  BY <1>1, <1>2, <1>3

------------------------------------------------------------------------------
(* The series with directed rounding                                       *)

LEMMA TermDef ==
    ASSUME NEW v \in Nat, NEW S \in Nat \ {0}
    PROVE  /\ Term(v, S, 0) = [lower |-> S, upper |-> S]
           /\ \A k \in Nat :
                 /\ Term(v, S, k) \in [lower : Nat, upper : Nat]
                 /\ Term(v, S, k + 1) = [lower |-> FloorDiv(Term(v, S, k).lower * v, S * (k + 1)),
                                         upper |-> CeilDiv(Term(v, S, k).upper * v, S * (k + 1))]
                 /\ Term(v, S, k + 1).lower * (S * (k + 1)) <= Term(v, S, k).lower * v
                 /\ Term(v, S, k).upper * v <= Term(v, S, k + 1).upper * (S * (k + 1))
<1> DEFINE V == [lower : Nat, upper : Nat]
           one == [lower |-> S, upper |-> S]
           More(t, i) == [lower |-> FloorDiv(t.lower * v, S * i), upper |-> CeilDiv(t.upper * v, S * i)]
           AreTerms(f) == f = [i \in Nat |-> IF i = 0 THEN one ELSE More(f[i - 1], i)]
           rule == [p \in Nat \X V |-> More(p[2], p[1] + 1)]
           term == CHOOSE f : AreTerms(f)
<1>1. ASSUME NEW i \in Nat, NEW t \in V
      PROVE  /\ More(t, i + 1) \in V
             /\ More(t, i + 1).lower * (S * (i + 1)) <= t.lower * v
             /\ t.upper * v <= More(t, i + 1).upper * (S * (i + 1))
  <2>1. t.lower * v \in Nat /\ t.upper * v \in Nat /\ S * (i + 1) \in Nat \ {0}
    OBVIOUS
  <2> DEFINE a == t.lower * v
             b == t.upper * v
             q == S * (i + 1)
  <2>2. a \in Nat /\ b \in Nat /\ q \in Nat \ {0}
    BY <2>1
  <2>3. More(t, i + 1) = [lower |-> FloorDiv(a, q), upper |-> CeilDiv(b, q)]
    OBVIOUS
  <2> HIDE DEF a, b, q, More
  <2>4. /\ FloorDiv(a, q) \in Nat /\ FloorDiv(a, q) * q <= a
        /\ CeilDiv(b, q) \in Nat /\ b <= CeilDiv(b, q) * q
    BY <2>2, DivIsDirected
  <2>5. More(t, i + 1) \in V /\ More(t, i + 1).lower * q <= a /\ b <= More(t, i + 1).upper * q
    BY <2>3, <2>4
  <2> QED
    BY <2>5 DEF a, b, q
<1> HIDE DEF More
<1>2. PICK g : IsRecursion(g, one, rule, V)
  <2>1. rule \in [Nat \X V -> V] /\ one \in V
    <3>1. one \in V
      OBVIOUS
    <3> HIDE DEF V, one
    <3> QED
      BY <1>1, <3>1
  <2> HIDE DEF rule, V, one
  <2> QED
    BY <2>1, Recursion
<1>3. AreTerms(g)
  <2>1. ASSUME NEW i \in Nat, i # 0
        PROVE  rule[<<i - 1, g[i - 1]>>] = More(g[i - 1], i)
    <3> HIDE DEF V, one
    <3>1. i - 1 \in Nat /\ (i - 1) + 1 = i
      BY <2>1
    <3>2. g[i - 1] \in V
      <4> HIDE DEF rule
      <4> QED
        BY <1>2, <3>1 DEF IsRecursion
    <3> QED
      BY <3>1, <3>2
  <2> HIDE DEF rule, V, one
  <2> QED
    BY <1>2, <2>1 DEF IsRecursion
<1>4. AreTerms(term)
  BY <1>3
<1>5. \A k : Term(v, S, k) = term[k]
  BY Zenon DEF Term, More
<1> HIDE DEF term, one
<1>6. term[0] = one /\ \A i \in Nat : term[i + 1] = More(term[i], i + 1)
  BY <1>4
<1> DEFINE T == {n \in Nat : term[n] \in V}
<1>7. T = Nat
  <2> HIDE DEF V
  <2>1. 0 \in T
    <3>1. one \in V
      BY DEF V, one
    <3> QED
      BY <1>6, <3>1
  <2>2. ASSUME NEW n \in T PROVE n + 1 \in T
    <3>1. term[n + 1] \in V
      BY <1>1, <1>6
    <3> QED
      BY <3>1
  <2>3. T \in SUBSET Nat
    OBVIOUS
  <2> HIDE DEF T
  <2> QED
    BY <2>1, <2>2, <2>3, InductiveSet
<1>8. \A n \in Nat : term[n] \in V
  BY <1>7
<1> HIDE DEF T, V
<1>9. \A n \in Nat : /\ term[n + 1] = More(term[n], n + 1)
                     /\ term[n + 1].lower * (S * (n + 1)) <= term[n].lower * v
                     /\ term[n].upper * v <= term[n + 1].upper * (S * (n + 1))
  BY <1>1, <1>6, <1>8
<1> QED
  BY <1>5, <1>6, <1>8, <1>9, Zenon DEF one, V, More

LEMMA PartialSumDef ==
    ASSUME NEW v \in Nat, NEW S \in Nat \ {0}
    PROVE  /\ PartialSum(v, S, 0) = [lower |-> S, upper |-> S]
           /\ \A k \in Nat :
                 /\ PartialSum(v, S, k) \in [lower : Int, upper : Int]
                 /\ PartialSum(v, S, k + 1) =
                      IF (k + 1) % 2 = 1
                      THEN [lower |-> PartialSum(v, S, k).lower - Term(v, S, k + 1).upper,
                            upper |-> PartialSum(v, S, k).upper - Term(v, S, k + 1).lower]
                      ELSE [lower |-> PartialSum(v, S, k).lower + Term(v, S, k + 1).lower,
                            upper |-> PartialSum(v, S, k).upper + Term(v, S, k + 1).upper]
<1> DEFINE V == [lower : Int, upper : Int]
           one == [lower |-> S, upper |-> S]
           More(s, i) == IF i % 2 = 1
                         THEN [lower |-> s.lower - Term(v, S, i).upper, upper |-> s.upper - Term(v, S, i).lower]
                         ELSE [lower |-> s.lower + Term(v, S, i).lower, upper |-> s.upper + Term(v, S, i).upper]
           AreSums(f) == f = [i \in Nat |-> IF i = 0 THEN one ELSE More(f[i - 1], i)]
           rule == [p \in Nat \X V |-> More(p[2], p[1] + 1)]
           sum == CHOOSE f : AreSums(f)
<1>1. ASSUME NEW i \in Nat, NEW s \in V PROVE More(s, i + 1) \in V
  <2>1. \A k \in Nat : Term(v, S, k) \in [lower : Nat, upper : Nat]
    BY TermDef, Zenon
  <2>2. Term(v, S, i + 1) \in [lower : Nat, upper : Nat]
    BY <2>1
  <2> QED
    BY <2>2
<1> HIDE DEF More
<1>2. PICK g : IsRecursion(g, one, rule, V)
  <2>1. rule \in [Nat \X V -> V] /\ one \in V
    <3>1. one \in V
      OBVIOUS
    <3> HIDE DEF V, one
    <3> QED
      BY <1>1, <3>1
  <2> HIDE DEF rule, V, one
  <2> QED
    BY <2>1, Recursion
<1>3. AreSums(g)
  <2>1. ASSUME NEW i \in Nat, i # 0
        PROVE  rule[<<i - 1, g[i - 1]>>] = More(g[i - 1], i)
    <3> HIDE DEF V, one
    <3>1. i - 1 \in Nat /\ (i - 1) + 1 = i
      BY <2>1
    <3>2. g[i - 1] \in V
      <4> HIDE DEF rule
      <4> QED
        BY <1>2, <3>1 DEF IsRecursion
    <3> QED
      BY <3>1, <3>2
  <2> HIDE DEF rule, V, one
  <2> QED
    BY <1>2, <2>1 DEF IsRecursion
<1>4. AreSums(sum)
  BY <1>3
<1>5. \A k : PartialSum(v, S, k) = sum[k]
  BY Zenon DEF PartialSum, More
<1> HIDE DEF sum, one
<1>6. sum[0] = one /\ \A i \in Nat : sum[i + 1] = More(sum[i], i + 1)
  BY <1>4
<1> DEFINE T == {n \in Nat : sum[n] \in V}
<1>7. T = Nat
  <2> HIDE DEF V
  <2>1. 0 \in T
    <3>1. one \in V
      BY DEF V, one
    <3> QED
      BY <1>6, <3>1
  <2>2. ASSUME NEW n \in T PROVE n + 1 \in T
    <3>1. sum[n + 1] \in V
      BY <1>1, <1>6
    <3> QED
      BY <3>1
  <2>3. T \in SUBSET Nat
    OBVIOUS
  <2> HIDE DEF T
  <2> QED
    BY <2>1, <2>2, <2>3, InductiveSet
<1>8. \A n \in Nat : sum[n] \in V
  BY <1>7
<1> HIDE DEF T, V
<1>9. \A n \in Nat : sum[n + 1] = More(sum[n], n + 1)
  BY <1>6
<1> QED
  BY <1>5, <1>6, <1>8, <1>9, Zenon DEF one, V, More

------------------------------------------------------------------------------
(* The exact series                                                        *)

\* The first k terms after the 1 of the series of e^-x, and the power of the
\* numerator in the last one.
TaylorSum(x, k) ==
    LET sum[i \in Nat] ==
          IF i = 0 THEN [num |-> 1, den |-> 1, power |-> 1]
          ELSE LET power == sum[i - 1].power * x.num
               IN  [num |-> sum[i - 1].num * (x.den * i) + (IF i % 2 = 1 THEN -power ELSE power),
                    den |-> sum[i - 1].den * (x.den * i),
                    power |-> power]
    IN  sum[k]

LEMMA TaylorSumDef ==
    ASSUME NEW x \in Exponents
    PROVE  /\ TaylorSum(x, 0) = [num |-> 1, den |-> 1, power |-> 1]
           /\ \A k \in Nat :
                 /\ TaylorSum(x, k) \in [num : Int, den : Nat \ {0}, power : Nat]
                 /\ TaylorSum(x, k + 1).power = TaylorSum(x, k).power * x.num
                 /\ TaylorSum(x, k + 1).den = TaylorSum(x, k).den * (x.den * (k + 1))
                 /\ TaylorSum(x, k + 1).num =
                      TaylorSum(x, k).num * (x.den * (k + 1))
                      + (IF (k + 1) % 2 = 1 THEN -TaylorSum(x, k + 1).power ELSE TaylorSum(x, k + 1).power)
<1> DEFINE V == [num : Int, den : Nat \ {0}, power : Nat]
           More(s, i) == LET power == s.power * x.num
                         IN  [num |-> s.num * (x.den * i) + (IF i % 2 = 1 THEN -power ELSE power),
                              den |-> s.den * (x.den * i),
                              power |-> power]
           one == [num |-> 1, den |-> 1, power |-> 1]
           AreSums(f) == f = [i \in Nat |-> IF i = 0 THEN one ELSE More(f[i - 1], i)]
           rule == [p \in Nat \X V |-> More(p[2], p[1] + 1)]
           sum == CHOOSE f : AreSums(f)
<1>1. ASSUME NEW i \in Nat, NEW s \in V PROVE More(s, i + 1) \in V
  <2>1. s.num \in Int /\ s.den \in Nat \ {0} /\ s.power \in Nat /\ x.num \in Nat
    BY DEF Exponents
  <2>2. x.den * (i + 1) \in Nat \ {0}
    BY DEF Exponents
  <2>3. s.power * x.num \in Nat
    BY <2>1
  <2>4. s.num * (x.den * (i + 1)) \in Int /\ s.den * (x.den * (i + 1)) \in Nat \ {0}
    <3> DEFINE q == x.den * (i + 1)
    <3> HIDE DEF q
    <3>1. q \in Nat \ {0}
      BY <2>2 DEF q
    <3>2. s.num * q \in Int /\ s.den * q \in Nat \ {0}
      BY <2>1, <3>1
    <3> QED
      BY <3>2 DEF q
  <2> QED
    BY <2>3, <2>4
<1> HIDE DEF More
<1>2. PICK g : IsRecursion(g, one, rule, V)
  <2>1. rule \in [Nat \X V -> V] /\ one \in V
    <3>1. one \in V
      OBVIOUS
    <3> HIDE DEF V
    <3> QED
      BY <1>1, <3>1
  <2> HIDE DEF rule, V, one
  <2> QED
    BY <2>1, Recursion
<1>3. AreSums(g)
  <2>1. ASSUME NEW i \in Nat, i # 0
        PROVE  rule[<<i - 1, g[i - 1]>>] = More(g[i - 1], i)
    <3> HIDE DEF V
    <3>1. i - 1 \in Nat /\ (i - 1) + 1 = i
      BY <2>1
    <3>2. g[i - 1] \in V
      <4> HIDE DEF rule
      <4> QED
        BY <1>2, <3>1 DEF IsRecursion
    <3> QED
      BY <3>1, <3>2
  <2> HIDE DEF rule, V, one
  <2> QED
    BY <1>2, <2>1 DEF IsRecursion
<1>4. AreSums(sum)
  BY <1>3
<1>5. \A k : TaylorSum(x, k) = sum[k]
  BY Zenon DEF TaylorSum, More
<1> HIDE DEF sum
<1>6. sum[0] = one /\ \A i \in Nat : sum[i + 1] = More(sum[i], i + 1)
  <2> HIDE DEF one
  <2> QED
    BY <1>4
<1> DEFINE T == {n \in Nat : sum[n] \in V}
<1>7. T = Nat
  <2>1. 0 \in T
    BY <1>6
  <2>2. ASSUME NEW n \in T PROVE n + 1 \in T
    <3> HIDE DEF V
    <3>1. sum[n + 1] \in V
      BY <1>1, <1>6
    <3> QED
      BY <3>1
  <2>3. T \in SUBSET Nat
    OBVIOUS
  <2> HIDE DEF T
  <2> QED
    BY <2>1, <2>2, <2>3, InductiveSet
<1>8. \A n \in Nat : sum[n] \in V
  BY <1>7
<1>9. ASSUME NEW k \in Nat
      PROVE  /\ sum[k + 1].power = sum[k].power * x.num
             /\ sum[k + 1].den = sum[k].den * (x.den * (k + 1))
             /\ sum[k + 1].num = sum[k].num * (x.den * (k + 1))
                  + (IF (k + 1) % 2 = 1 THEN -sum[k + 1].power ELSE sum[k + 1].power)
  <2>1. sum[k + 1] = More(sum[k], k + 1)
    BY <1>6
  <2> QED
    BY <2>1 DEF More
<1>10. TaylorSum(x, 0) = one
  BY <1>5, <1>6, Zenon
<1> HIDE DEF T, V
<1>11. \A k \in Nat : k + 1 \in Nat
  OBVIOUS
<1> QED
  BY <1>5, <1>8, <1>9, <1>10, Zenon DEF V

\* Rounding a product down before it is divided keeps a lower bound of it, and
\* rounding up an upper bound.
LEMMA TermStep ==
    ASSUME NEW t \in Nat, NEW u \in Nat, NEW v \in Nat, NEW S \in Nat,
           NEW d \in Nat, NEW p \in Nat, NEW q \in Nat
    PROVE  /\ t * d <= S * p /\ u * q <= t * v => u * (d * q) <= S * (p * v)
           /\ S * p <= t * d /\ t * v <= u * q => S * (p * v) <= u * (d * q)
<1>1. /\ u * (d * q) = (u * q) * d /\ (t * v) * d = (t * d) * v /\ (S * p) * v = S * (p * v)
      /\ {u * q, t * v, t * d, S * p} \subseteq Nat
  OBVIOUS
<1>2. /\ u * q <= t * v => (u * q) * d <= (t * v) * d
      /\ t * v <= u * q => (t * v) * d <= (u * q) * d
      /\ t * d <= S * p => (t * d) * v <= (S * p) * v
      /\ S * p <= t * d => (S * p) * v <= (t * d) * v
  BY <1>1, ProductsKeepOrder
<1>3. {(u * q) * d, (t * v) * d, (S * p) * v} \subseteq Int
  OBVIOUS
<1> DEFINE a == u * (d * q)
           b == (t * v) * d
           c == S * (p * v)
<1>4. /\ t * d <= S * p /\ u * q <= t * v => a <= b /\ b <= c
      /\ S * p <= t * d /\ t * v <= u * q => b <= a /\ c <= b
  BY <1>1, <1>2
<1>5. a \in Int /\ b \in Int /\ c \in Int
  OBVIOUS
<1> HIDE DEF a, b, c
<1>6. /\ t * d <= S * p /\ u * q <= t * v => a <= c
      /\ S * p <= t * d /\ t * v <= u * q => c <= a
  BY <1>4, <1>5
<1> QED
  BY <1>6 DEF a, c

LEMMA TermBounds ==
    ASSUME NEW x \in Exponents, NEW k \in Nat
    PROVE  /\ Term(x.num, x.den, k).lower * TaylorSum(x, k).den <= x.den * TaylorSum(x, k).power
           /\ x.den * TaylorSum(x, k).power <= Term(x.num, x.den, k).upper * TaylorSum(x, k).den
<1> DEFINE v == x.num
           S == x.den
           t(i) == Term(v, S, i)
           s(i) == TaylorSum(x, i)
           T == {i \in Nat : /\ t(i).lower * s(i).den <= S * s(i).power
                             /\ S * s(i).power <= t(i).upper * s(i).den}
<1>1. v \in Nat /\ S \in Nat \ {0}
  BY DEF Exponents
<1>2. 0 \in T
  <2>1. s(0).den = 1 /\ s(0).power = 1 /\ t(0).lower = S /\ t(0).upper = S
    <3>1. s(0) = [num |-> 1, den |-> 1, power |-> 1]
      BY TaylorSumDef
    <3>2. t(0) = [lower |-> S, upper |-> S]
      <4> HIDE DEF v, S
      <4> QED
        BY <1>1, TermDef
    <3> HIDE DEF s, t, S
    <3> QED
      BY <3>1, <3>2
  <2>2. S * 1 <= S * 1 /\ 0 \in Nat
    BY <1>1
  <2> HIDE DEF s, t, S
  <2> QED
    BY <2>1, <2>2
<1>3. ASSUME NEW i \in T PROVE i + 1 \in T
  <2> DEFINE q == S * (i + 1)
  <2>1. /\ s(i).den \in Nat /\ s(i).power \in Nat
        /\ s(i + 1).den = s(i).den * q /\ s(i + 1).power = s(i).power * v
    BY TaylorSumDef
  <2>2. i + 1 \in Nat /\ q \in Nat
    BY <1>1
  <2>3. /\ t(i) \in [lower : Nat, upper : Nat] /\ t(i + 1) \in [lower : Nat, upper : Nat]
        /\ t(i + 1).lower * q <= t(i).lower * v /\ t(i).upper * v <= t(i + 1).upper * q
    BY <1>1, <2>2, TermDef
  <2>4. /\ t(i).lower * s(i).den <= S * s(i).power
        /\ S * s(i).power <= t(i).upper * s(i).den
    OBVIOUS
  <2> HIDE DEF q, s, t, T, v, S
  <2>5. /\ t(i).lower \in Nat /\ t(i + 1).lower \in Nat
        /\ t(i).upper \in Nat /\ t(i + 1).upper \in Nat
    BY <2>3
  <2>6. /\ t(i + 1).lower * (s(i).den * q) <= S * (s(i).power * v)
        /\ S * (s(i).power * v) <= t(i + 1).upper * (s(i).den * q)
    BY <1>1, <2>1, <2>2, <2>3, <2>4, <2>5, TermStep
  <2> QED
    BY <2>1, <2>2, <2>6 DEF T
<1>4. T \in SUBSET Nat
  OBVIOUS
<1>5. T = Nat
  <2> HIDE DEF T
  <2> QED
    BY <1>2, <1>3, <1>4, InductiveSet
<1> QED
  BY <1>5

\* Taking away what was rounded up, and adding what was rounded down, keeps a lower
\* bound of the sum, and the other way round an upper bound.
LEMMA SumStep ==
    ASSUME NEW a \in Int, NEW t \in Nat, NEW n \in Int, NEW S \in Nat,
           NEW d \in Nat, NEW p \in Nat, NEW q \in Nat
    PROVE  /\ a * d <= S * n /\ S * p <= t * (d * q) => (a - t) * (d * q) <= S * (n * q + (-p))
           /\ a * d <= S * n /\ t * (d * q) <= S * p => (a + t) * (d * q) <= S * (n * q + p)
           /\ S * n <= a * d /\ t * (d * q) <= S * p => S * (n * q + (-p)) <= (a - t) * (d * q)
           /\ S * n <= a * d /\ S * p <= t * (d * q) => S * (n * q + p) <= (a + t) * (d * q)
<1>1. /\ (a - t) * (d * q) = (a * d) * q - t * (d * q)
      /\ (a + t) * (d * q) = (a * d) * q + t * (d * q)
      /\ S * (n * q + (-p)) = (S * n) * q - S * p
      /\ S * (n * q + p) = (S * n) * q + S * p
  OBVIOUS
<1>2. a * d \in Int /\ S * n \in Int
  OBVIOUS
<1>3. /\ a * d <= S * n => (a * d) * q <= (S * n) * q
      /\ S * n <= a * d => (S * n) * q <= (a * d) * q
  BY <1>2, ProductsKeepOrder
<1>4. (a * d) * q \in Int /\ (S * n) * q \in Int /\ t * (d * q) \in Int /\ S * p \in Int
  OBVIOUS
<1> DEFINE aq == (a * d) * q
           sq == (S * n) * q
           tq == t * (d * q)
           pq == S * p
<1>5. /\ aq <= sq /\ pq <= tq => aq - tq <= sq - pq
      /\ aq <= sq /\ tq <= pq => aq + tq <= sq + pq
      /\ sq <= aq /\ tq <= pq => sq - pq <= aq - tq
      /\ sq <= aq /\ pq <= tq => sq + pq <= aq + tq
  <2> HIDE DEF aq, sq, tq, pq
  <2>1. aq \in Int /\ sq \in Int /\ tq \in Int /\ pq \in Int
    BY <1>4 DEF aq, sq, tq, pq
  <2> QED
    BY <2>1
<1> QED
  BY <1>1, <1>3, <1>5, Zenon

\* The partial sums enclose the exact sums.
LEMMA SumBounds ==
    ASSUME NEW x \in Exponents, NEW k \in Nat
    PROVE  /\ PartialSum(x.num, x.den, k).lower * TaylorSum(x, k).den <= x.den * TaylorSum(x, k).num
           /\ x.den * TaylorSum(x, k).num <= PartialSum(x.num, x.den, k).upper * TaylorSum(x, k).den
<1> DEFINE v == x.num
           S == x.den
           t(i) == Term(v, S, i)
           a(i) == PartialSum(v, S, i)
           s(i) == TaylorSum(x, i)
           T == {i \in Nat : /\ a(i).lower * s(i).den <= S * s(i).num
                             /\ S * s(i).num <= a(i).upper * s(i).den}
<1>1. v \in Nat /\ S \in Nat \ {0}
  BY DEF Exponents
<1>2. 0 \in T
  <2>1. s(0).den = 1 /\ s(0).num = 1 /\ a(0).lower = S /\ a(0).upper = S
    <3>1. s(0) = [num |-> 1, den |-> 1, power |-> 1]
      BY TaylorSumDef
    <3>2. a(0) = [lower |-> S, upper |-> S]
      <4> HIDE DEF v, S
      <4> QED
        BY <1>1, PartialSumDef
    <3> HIDE DEF s, a, S
    <3> QED
      BY <3>1, <3>2
  <2>2. S * 1 <= S * 1 /\ 0 \in Nat
    BY <1>1
  <2> HIDE DEF s, a, S
  <2> QED
    BY <2>1, <2>2
<1>3. ASSUME NEW i \in T PROVE i + 1 \in T
  <2> DEFINE q == S * (i + 1)
             p == s(i + 1).power
  <2>1. /\ s(i).den \in Nat /\ s(i).num \in Int /\ p \in Nat
        /\ s(i + 1).den = s(i).den * q
        /\ s(i + 1).num = s(i).num * q + (IF (i + 1) % 2 = 1 THEN -p ELSE p)
    BY TaylorSumDef
  <2>2. i + 1 \in Nat /\ q \in Nat
    BY <1>1
  <2>3. /\ t(i + 1) \in [lower : Nat, upper : Nat]
        /\ t(i + 1).lower * s(i + 1).den <= S * p /\ S * p <= t(i + 1).upper * s(i + 1).den
    BY <1>1, <2>2, TermDef, TermBounds
  <2>4. /\ a(i) \in [lower : Int, upper : Int]
        /\ a(i + 1) =
             IF (i + 1) % 2 = 1
             THEN [lower |-> a(i).lower - t(i + 1).upper, upper |-> a(i).upper - t(i + 1).lower]
             ELSE [lower |-> a(i).lower + t(i + 1).lower, upper |-> a(i).upper + t(i + 1).upper]
    BY <1>1, PartialSumDef
  <2>5. /\ a(i).lower * s(i).den <= S * s(i).num
        /\ S * s(i).num <= a(i).upper * s(i).den
    OBVIOUS
  <2> HIDE DEF q, p, a, s, t, T, v, S
  <2>6. /\ t(i + 1).lower \in Nat /\ t(i + 1).upper \in Nat
        /\ a(i).lower \in Int /\ a(i).upper \in Int /\ S \in Nat
    BY <1>1, <2>3, <2>4
  <2>7. t(i + 1).lower * (s(i).den * q) <= S * p /\ S * p <= t(i + 1).upper * (s(i).den * q)
    BY <2>1, <2>3
  <2>8. /\ a(i + 1).lower * (s(i).den * q) <= S * s(i + 1).num
        /\ S * s(i + 1).num <= a(i + 1).upper * (s(i).den * q)
    <3>1. CASE (i + 1) % 2 = 1
      <4>1. /\ s(i + 1).num = s(i).num * q + (-p)
            /\ a(i + 1).lower = a(i).lower - t(i + 1).upper
            /\ a(i + 1).upper = a(i).upper - t(i + 1).lower
        BY <2>1, <2>4, <3>1
      <4>2. /\ (a(i).lower - t(i + 1).upper) * (s(i).den * q) <= S * (s(i).num * q + (-p))
            /\ S * (s(i).num * q + (-p)) <= (a(i).upper - t(i + 1).lower) * (s(i).den * q)
        BY <2>1, <2>2, <2>5, <2>6, <2>7, SumStep
      <4> QED
        BY <4>1, <4>2, Zenon
    <3>2. CASE (i + 1) % 2 # 1
      <4>1. /\ s(i + 1).num = s(i).num * q + p
            /\ a(i + 1).lower = a(i).lower + t(i + 1).lower
            /\ a(i + 1).upper = a(i).upper + t(i + 1).upper
        BY <2>1, <2>4, <3>2
      <4>2. /\ (a(i).lower + t(i + 1).lower) * (s(i).den * q) <= S * (s(i).num * q + p)
            /\ S * (s(i).num * q + p) <= (a(i).upper + t(i + 1).upper) * (s(i).den * q)
        BY <2>1, <2>2, <2>5, <2>6, <2>7, SumStep
      <4> QED
        BY <4>1, <4>2, Zenon
    <3> QED
      BY <3>1, <3>2, Zenon
  <2> QED
    BY <2>1, <2>2, <2>8, Zenon DEF T
<1>4. T \in SUBSET Nat
  OBVIOUS
<1>5. T = Nat
  <2> HIDE DEF T
  <2> QED
    BY <1>2, <1>3, <1>4, InductiveSet
<1> QED
  BY <1>5

------------------------------------------------------------------------------
(* The exponential                                                         *)

\* A real function of exponents is the set of those fractions n/d that its value
\* at x does not exceed.
AtMost(W, x, n, d) == <<x, n, d>> \in W

AtLeast(W, x, n, d) == \A m \in Int, e \in Nat \ {0} : AtMost(W, x, m, e) => n * e <= m * d

Double(x) == [num |-> 2 * x.num, den |-> x.den]

\* What is used of e^-x: it falls, it is not negative, its square is its value at
\* 2x, and the partial sums of its series lie above and below it in turn.
IsExponential(W) ==
    /\ \A x, y \in Exponents, n, m \in Int, d, e \in Nat \ {0} :
          AtMost(W, x, n, d) /\ x.num * y.den <= y.num * x.den /\ n * e <= m * d => AtMost(W, y, m, e)
    /\ \A x \in Exponents : AtLeast(W, x, 0, 1)
    /\ \A x \in Exponents, n \in Nat, d \in Nat \ {0} :
          /\ AtMost(W, x, n, d) => AtMost(W, Double(x), n * n, d * d)
          /\ AtLeast(W, x, n, d) => AtLeast(W, Double(x), n * n, d * d)
    /\ \A x \in Exponents, k \in Nat :
          LET s == TaylorSum(x, k)
          IN  IF k % 2 = 0 THEN AtMost(W, x, s.num, s.den) ELSE AtLeast(W, x, s.num, s.den)

\* An order of fractions carries over.
LEMMA FractionsAreOrdered ==
    ASSUME NEW a \in Int, NEW c \in Int, NEW e \in Int,
           NEW b \in Nat \ {0}, NEW d \in Nat \ {0}, NEW f \in Nat \ {0},
           a * d <= c * b, c * f <= e * d
    PROVE  a * f <= e * b
<1>1. /\ (a * f) * d = (a * d) * f /\ (c * b) * f = (c * f) * b /\ (e * d) * b = (e * b) * d
      /\ {a * d, c * b, c * f, e * d, a * f, e * b} \subseteq Int
  OBVIOUS
<1>2. (a * d) * f <= (c * b) * f /\ (c * f) * b <= (e * d) * b
  BY <1>1, ProductsKeepOrder
<1>3. (a * f) * d <= (e * b) * d
  <2> DEFINE u == (a * f) * d
             v == (c * f) * b
             w == (e * b) * d
  <2>1. u <= v /\ v <= w
    BY <1>1, <1>2
  <2>2. u \in Int /\ v \in Int /\ w \in Int
    OBVIOUS
  <2> HIDE DEF u, v, w
  <2>3. u <= w
    BY <2>1, <2>2
  <2> QED
    BY <2>3 DEF u, w
<1>4. ASSUME e * b < a * f PROVE FALSE
  <2> DEFINE k == e * b
             l == a * f
  <2>1. k \in Int /\ l \in Int /\ k < l /\ l * d <= k * d
    BY <1>3, <1>4
  <2> HIDE DEF k, l
  <2>2. d * k + d <= d * l
    BY <2>1, Multiples
  <2> QED
    BY <2>1, <2>2
<1> QED
  BY <1>1, <1>4

\* A fraction below a lower bound is a lower bound, also for a smaller exponent.
LEMMA LowerIsAtLeast ==
    ASSUME NEW W, IsExponential(W), NEW x \in Exponents, NEW y \in Exponents,
           NEW n \in Int, NEW m \in Int, NEW d \in Nat \ {0}, NEW e \in Nat \ {0},
           AtLeast(W, y, n, d), x.num * y.den <= y.num * x.den, m * d <= n * e
    PROVE  AtLeast(W, x, m, e)
<1> SUFFICES ASSUME NEW k \in Int, NEW f \in Nat \ {0}, AtMost(W, x, k, f)
             PROVE  m * f <= k * e
  BY DEF AtLeast
<1>1. AtMost(W, y, k, f)
  <2>1. k * f <= k * f
    OBVIOUS
  <2> QED
    BY <2>1 DEF IsExponential
<1>2. n * f <= k * d
  BY <1>1 DEF AtLeast
<1> QED
  BY <1>2, FractionsAreOrdered

\* A fraction above an upper bound is an upper bound, also for a larger exponent.
LEMMA HigherIsAtMost ==
    ASSUME NEW W, IsExponential(W), NEW x \in Exponents, NEW y \in Exponents,
           NEW n \in Int, NEW m \in Int, NEW d \in Nat \ {0}, NEW e \in Nat \ {0},
           AtMost(W, x, n, d), x.num * y.den <= y.num * x.den, n * e <= m * d
    PROVE  AtMost(W, y, m, e)
  BY DEF IsExponential

LEMMA UpperIsNat ==
    ASSUME NEW W, IsExponential(W), NEW x \in Exponents, NEW n \in Int, NEW d \in Nat \ {0},
           AtMost(W, x, n, d)
    PROVE  n \in Nat
<1>1. 0 * d <= n * 1
  BY DEF IsExponential, AtLeast
<1> QED
  BY <1>1

LEMMA MinMaxOfTwo ==
    ASSUME NEW a \in Int, NEW b \in Int
    PROVE  /\ Min({a, b}) \in {a, b} /\ Min({a, b}) <= a /\ Min({a, b}) <= b
           /\ Max({a, b}) \in {a, b} /\ a <= Max({a, b}) /\ b <= Max({a, b})
<1>1. \E x \in {a, b} : \A y \in {a, b} : x <= y
  <2>1. CASE a <= b
    BY <2>1
  <2>2. CASE b <= a
    BY <2>2
  <2> QED
    BY <2>1, <2>2
<1>2. \E x \in {a, b} : \A y \in {a, b} : x >= y
  <2>1. CASE a <= b
    BY <2>1
  <2>2. CASE b <= a
    BY <2>2
  <2> QED
    BY <2>1, <2>2
<1>3. Min({a, b}) \in {a, b} /\ \A y \in {a, b} : Min({a, b}) <= y
  BY <1>1 DEF Min
<1>4. Max({a, b}) \in {a, b} /\ \A y \in {a, b} : Max({a, b}) >= y
  BY <1>2 DEF Max
<1> QED
  BY <1>3, <1>4

------------------------------------------------------------------------------
(* The enclosures                                                          *)

LEMMA SeriesBounds ==
    ASSUME NEW W, IsExponential(W), NEW v \in Nat, NEW S \in Nat \ {0},
           NEW terms \in Nat, 1 <= terms
    PROVE  LET x == [num |-> v, den |-> S]
           IN  /\ SeriesLower(v, S, terms) \in Nat
               /\ AtLeast(W, x, SeriesLower(v, S, terms), S)
               /\ SeriesUpper(v, S, terms) \in 0..S
               /\ AtMost(W, x, SeriesUpper(v, S, terms), S)
<1> DEFINE x == [num |-> v, den |-> S]
           k == LastEven(terms)
           a(i) == PartialSum(v, S, i)
           s(i) == TaylorSum(x, i)
<1>1. x \in Exponents /\ x.num = v /\ x.den = S
  BY DEF Exponents
<1>2. k \in Nat /\ k - 1 \in Nat /\ k % 2 = 0 /\ (k - 1) % 2 = 1
  BY DEF LastEven
<1> HIDE DEF x, k
<1>3. ASSUME NEW i \in Nat
      PROVE  /\ a(i).lower \in Int /\ a(i).upper \in Int
             /\ s(i).num \in Int /\ s(i).den \in Nat \ {0}
             /\ a(i).lower * s(i).den <= s(i).num * S /\ s(i).num * S <= a(i).upper * s(i).den
  <2>1. a(i) \in [lower : Int, upper : Int]
    BY PartialSumDef
  <2>2. s(i) \in [num : Int, den : Nat \ {0}, power : Nat]
    BY <1>1, TaylorSumDef
  <2>3. a(i).lower * s(i).den <= S * s(i).num /\ S * s(i).num <= a(i).upper * s(i).den
    BY <1>1, SumBounds
  <2> HIDE DEF a, s
  <2>4. s(i).num * S = S * s(i).num
    BY <2>2
  <2> QED
    BY <2>1, <2>2, <2>3, <2>4
<1> HIDE DEF a, s
<1>4. x.num * x.den <= x.num * x.den
  BY <1>1
<1>5. AtLeast(W, x, a(k - 1).lower, S)
  <2>1. AtLeast(W, x, s(k - 1).num, s(k - 1).den)
    BY <1>1, <1>2 DEF IsExponential, s
  <2> QED
    BY <1>1, <1>2, <1>3, <1>4, <2>1, LowerIsAtLeast
<1>6. AtMost(W, x, a(k).upper, S)
  <2>1. AtMost(W, x, s(k).num, s(k).den)
    BY <1>1, <1>2 DEF IsExponential, s
  <2> QED
    BY <1>1, <1>2, <1>3, <1>4, <2>1, HigherIsAtMost
<1>7. AtLeast(W, x, 0, S)
  <2>1. AtLeast(W, x, 0, 1) /\ 0 * 1 <= 0 * S
    BY <1>1 DEF IsExponential
  <2> QED
    BY <1>1, <1>4, <2>1, LowerIsAtLeast
<1>8. AtMost(W, x, S, S)
  <2>1. s(0).num = 1 /\ s(0).den = 1 /\ 0 % 2 = 0
    BY <1>1, TaylorSumDef DEF s
  <2>2. AtMost(W, x, 1, 1) /\ 1 * S <= S * 1
    BY <1>1, <2>1 DEF IsExponential, s
  <2> QED
    BY <1>1, <1>4, <2>2, HigherIsAtMost
<1>9. SeriesLower(v, S, terms) = Max({0, a(k - 1).lower})
      /\ SeriesUpper(v, S, terms) = Min({S, a(k).upper})
  BY DEF SeriesLower, SeriesUpper, a, k
<1>10. SeriesLower(v, S, terms) \in Nat /\ AtLeast(W, x, SeriesLower(v, S, terms), S)
  <2>1. /\ Max({0, a(k - 1).lower}) \in {0, a(k - 1).lower}
        /\ 0 <= Max({0, a(k - 1).lower}) /\ a(k - 1).lower \in Int
    <3> DEFINE b == a(k - 1).lower
    <3>1. b \in Int
      BY <1>2, <1>3
    <3> HIDE DEF b
    <3>2. Max({0, b}) \in {0, b} /\ 0 <= Max({0, b})
      BY <3>1, MinMaxOfTwo
    <3> QED
      BY <3>1, <3>2 DEF b
  <2> QED
    BY <1>5, <1>7, <1>9, <2>1
<1>11. SeriesUpper(v, S, terms) \in 0..S /\ AtMost(W, x, SeriesUpper(v, S, terms), S)
  <2>1. /\ Min({S, a(k).upper}) \in {S, a(k).upper}
        /\ Min({S, a(k).upper}) <= S /\ a(k).upper \in Int
    <3> DEFINE b == a(k).upper
    <3>1. b \in Int
      BY <1>2, <1>3
    <3> HIDE DEF b
    <3>2. Min({S, b}) \in {S, b} /\ Min({S, b}) <= S
      BY <3>1, MinMaxOfTwo
    <3> QED
      BY <3>1, <3>2 DEF b
  <2>2. AtMost(W, x, Min({S, a(k).upper}), S) /\ Min({S, a(k).upper}) \in Int
    BY <1>6, <1>8, <2>1
  <2>3. Min({S, a(k).upper}) \in Nat
    BY <1>1, <2>2, UpperIsNat
  <2> QED
    BY <1>9, <2>1, <2>2, <2>3
<1> QED
  BY <1>10, <1>11 DEF x

LEMMA SquaredDef ==
    ASSUME NEW l \in Nat, NEW u \in Nat, NEW S \in Nat \ {0}
    PROVE  /\ Squared(l, u, S, 0) = [lower |-> l, upper |-> u]
           /\ \A k \in Nat :
                 /\ Squared(l, u, S, k) \in [lower : Nat, upper : Nat]
                 /\ Squared(l, u, S, k + 1) =
                      [lower |-> FloorDiv(Squared(l, u, S, k).lower * Squared(l, u, S, k).lower, S),
                       upper |-> CeilDiv(Squared(l, u, S, k).upper * Squared(l, u, S, k).upper, S)]
                 /\ Squared(l, u, S, k + 1).lower * S <= Squared(l, u, S, k).lower * Squared(l, u, S, k).lower
                 /\ Squared(l, u, S, k).upper * Squared(l, u, S, k).upper <= Squared(l, u, S, k + 1).upper * S
                 /\ Squared(l, u, S, k).upper <= S => Squared(l, u, S, k + 1).upper <= S
<1> DEFINE V == [lower : Nat, upper : Nat]
           one == [lower |-> l, upper |-> u]
           More(t) == [lower |-> FloorDiv(t.lower * t.lower, S), upper |-> CeilDiv(t.upper * t.upper, S)]
           ArePowers(f) == f = [i \in Nat |-> IF i = 0 THEN one ELSE More(f[i - 1])]
           rule == [p \in Nat \X V |-> More(p[2])]
           power == CHOOSE f : ArePowers(f)
<1>1. ASSUME NEW t \in V
      PROVE  /\ More(t) \in V
             /\ More(t).lower * S <= t.lower * t.lower
             /\ t.upper * t.upper <= More(t).upper * S
             /\ t.upper <= S => More(t).upper <= S
  <2> DEFINE a == t.lower * t.lower
             b == t.upper * t.upper
  <2>1. a \in Nat /\ b \in Nat
    OBVIOUS
  <2>2. t.upper <= S => b <= S * S
    <3> SUFFICES ASSUME t.upper <= S PROVE b <= S * S
      OBVIOUS
    <3>1. t.upper * t.upper <= S * t.upper /\ t.upper * S <= S * S
      BY ProductsKeepOrder
    <3>2. t.upper \in Nat
      OBVIOUS
    <3> QED
      BY <3>1, <3>2
  <2>3. More(t) = [lower |-> FloorDiv(a, S), upper |-> CeilDiv(b, S)]
    OBVIOUS
  <2> HIDE DEF a, b, More
  <2>4. /\ FloorDiv(a, S) \in Nat /\ FloorDiv(a, S) * S <= a
        /\ CeilDiv(b, S) \in Nat /\ b <= CeilDiv(b, S) * S
        /\ b <= S * S => CeilDiv(b, S) <= S
    BY <2>1, DivIsDirected
  <2>5. /\ More(t) \in V /\ More(t).lower * S <= a /\ b <= More(t).upper * S
        /\ t.upper <= S => More(t).upper <= S
    BY <2>2, <2>3, <2>4
  <2> QED
    BY <2>5 DEF a, b
<1> HIDE DEF More
<1>2. PICK g : IsRecursion(g, one, rule, V)
  <2>1. rule \in [Nat \X V -> V] /\ one \in V
    <3>1. one \in V
      OBVIOUS
    <3> HIDE DEF V, one
    <3> QED
      BY <1>1, <3>1
  <2> HIDE DEF rule, V, one
  <2> QED
    BY <2>1, Recursion
<1>3. ArePowers(g)
  <2>1. ASSUME NEW i \in Nat, i # 0
        PROVE  rule[<<i - 1, g[i - 1]>>] = More(g[i - 1])
    <3> HIDE DEF V, one
    <3>1. i - 1 \in Nat
      BY <2>1
    <3>2. g[i - 1] \in V
      <4> HIDE DEF rule
      <4> QED
        BY <1>2, <3>1 DEF IsRecursion
    <3> QED
      BY <3>1, <3>2
  <2> HIDE DEF rule, V, one
  <2> QED
    BY <1>2, <2>1 DEF IsRecursion
<1>4. ArePowers(power)
  BY <1>3
<1>5. \A k : Squared(l, u, S, k) = power[k]
  BY Zenon DEF Squared, More
<1> HIDE DEF power, one
<1>6. power[0] = one /\ \A i \in Nat : power[i + 1] = More(power[i])
  BY <1>4
<1> DEFINE T == {n \in Nat : power[n] \in V}
<1>7. T = Nat
  <2> HIDE DEF V
  <2>1. 0 \in T
    <3>1. one \in V
      BY DEF V, one
    <3> QED
      BY <1>6, <3>1
  <2>2. ASSUME NEW n \in T PROVE n + 1 \in T
    <3>1. power[n + 1] \in V
      BY <1>1, <1>6
    <3> QED
      BY <3>1
  <2>3. T \in SUBSET Nat
    OBVIOUS
  <2> HIDE DEF T
  <2> QED
    BY <2>1, <2>2, <2>3, InductiveSet
<1>8. \A n \in Nat : power[n] \in V
  BY <1>7
<1> HIDE DEF T, V
<1>9. \A n \in Nat : /\ power[n + 1] = More(power[n])
                     /\ power[n + 1].lower * S <= power[n].lower * power[n].lower
                     /\ power[n].upper * power[n].upper <= power[n + 1].upper * S
                     /\ power[n].upper <= S => power[n + 1].upper <= S
  BY <1>1, <1>6, <1>8
<1> QED
  BY <1>5, <1>6, <1>8, <1>9, Zenon DEF one, V, More

\* Every squaring undoes a halving of the exponent.
LEMMA SquaringsUndoHalvings ==
    ASSUME NEW W, IsExponential(W), NEW x \in Exponents, NEW times \in Nat,
           NEW l \in Nat, NEW u \in Nat, NEW S \in Nat \ {0}, u <= S,
           AtLeast(W, [num |-> x.num, den |-> x.den * PowerOfTwo(times)], l, S),
           AtMost(W, [num |-> x.num, den |-> x.den * PowerOfTwo(times)], u, S)
    PROVE  LET e == Squared(l, u, S, times)
           IN  /\ e \in [lower : Nat, upper : Nat] /\ e.upper <= S
               /\ AtLeast(W, x, e.lower, S) /\ AtMost(W, x, e.upper, S)
<1> DEFINE e(i) == Squared(l, u, S, i)
           y(i) == [num |-> x.num, den |-> x.den * PowerOfTwo(times - i)]
           T == {i \in Nat : i <= times => /\ e(i).upper <= S
                                           /\ AtLeast(W, y(i), e(i).lower, S)
                                           /\ AtMost(W, y(i), e(i).upper, S)}
<1>1. x.num \in Nat /\ x.den \in Nat \ {0}
  BY DEF Exponents
<1>2. ASSUME NEW i \in Nat, i <= times
      PROVE  /\ y(i) \in Exponents /\ y(i).num = x.num
             /\ y(i).den = x.den * PowerOfTwo(times - i)
  <2>1. times - i \in Nat
    BY <1>2
  <2>2. PowerOfTwo(times - i) \in Nat \ {0}
    BY <2>1, PowerOfTwoDef
  <2>3. x.den * PowerOfTwo(times - i) \in Nat \ {0}
    BY <1>1, <2>2
  <2> QED
    BY <1>1, <2>3 DEF Exponents
<1>3. ASSUME NEW i \in Nat
      PROVE  /\ e(i).lower \in Nat /\ e(i).upper \in Nat /\ e(i) \in [lower : Nat, upper : Nat]
             /\ e(i + 1).lower * S <= e(i).lower * e(i).lower
             /\ e(i).upper * e(i).upper <= e(i + 1).upper * S
             /\ e(i).upper <= S => e(i + 1).upper <= S
  <2>1. /\ e(i) \in [lower : Nat, upper : Nat]
        /\ e(i + 1).lower * S <= e(i).lower * e(i).lower
        /\ e(i).upper * e(i).upper <= e(i + 1).upper * S
        /\ e(i).upper <= S => e(i + 1).upper <= S
    BY SquaredDef
  <2> HIDE DEF e
  <2> QED
    BY <2>1
<1>4. 0 \in T
  <2>1. e(0) = [lower |-> l, upper |-> u]
    BY SquaredDef
  <2>2. y(0) = [num |-> x.num, den |-> x.den * PowerOfTwo(times)]
    <3>1. times - 0 = times
      OBVIOUS
    <3> QED
      BY <3>1
  <2> HIDE DEF e, y
  <2> QED
    BY <2>1, <2>2
<1>5. ASSUME NEW i \in T PROVE i + 1 \in T
  <2> SUFFICES ASSUME i + 1 <= times
               PROVE  /\ e(i + 1).upper <= S
                      /\ AtLeast(W, y(i + 1), e(i + 1).lower, S)
                      /\ AtMost(W, y(i + 1), e(i + 1).upper, S)
    OBVIOUS
  <2>1. /\ i \in Nat /\ i + 1 \in Nat /\ i <= times
        /\ e(i).upper <= S /\ AtLeast(W, y(i), e(i).lower, S) /\ AtMost(W, y(i), e(i).upper, S)
    OBVIOUS
  <2> DEFINE z == Double(y(i))
  <2>2. /\ y(i) \in Exponents /\ y(i + 1) \in Exponents
        /\ y(i).num = x.num /\ y(i + 1).num = x.num
        /\ y(i).den = x.den * PowerOfTwo(times - i)
        /\ y(i + 1).den = x.den * PowerOfTwo(times - (i + 1))
    <3> HIDE DEF y
    <3> QED
      BY <1>2, <2>1
  <2>3. z \in Exponents /\ z.num = 2 * x.num /\ z.den = y(i).den
    <3> HIDE DEF y
    <3> QED
      BY <1>1, <2>2 DEF Double, Exponents
  <2>4. PowerOfTwo(times - i) = 2 * PowerOfTwo(times - (i + 1)) /\ PowerOfTwo(times - (i + 1)) \in Nat
    <3>1. times - (i + 1) \in Nat /\ times - i = (times - (i + 1)) + 1
      BY <2>1
    <3> QED
      BY <3>1, PowerOfTwoDef
  <2> HIDE DEF T, z, e, y
  <2>5. z.num * y(i + 1).den = y(i + 1).num * z.den
    <3> DEFINE p == PowerOfTwo(times - (i + 1))
    <3>1. z.num * y(i + 1).den = (2 * x.num) * (x.den * p) /\ y(i + 1).num * z.den = x.num * (x.den * (2 * p))
      BY <2>2, <2>3, <2>4
    <3>2. p \in Nat
      BY <2>4
    <3> HIDE DEF p
    <3>3. (2 * x.num) * (x.den * p) = x.num * (x.den * (2 * p))
      BY <1>1, <3>2
    <3> QED
      BY <3>1, <3>3
  <2>6. /\ z.num * y(i + 1).den <= y(i + 1).num * z.den
        /\ y(i + 1).num * z.den <= z.num * y(i + 1).den
    <3>1. z.num * y(i + 1).den \in Int
      BY <2>2, <2>3 DEF Exponents
    <3> QED
      BY <2>5, <3>1
  <2>7. /\ e(i).lower \in Nat /\ e(i).upper \in Nat
        /\ e(i + 1).lower \in Nat /\ e(i + 1).upper \in Nat
        /\ e(i + 1).lower * S <= e(i).lower * e(i).lower
        /\ e(i).upper * e(i).upper <= e(i + 1).upper * S
        /\ e(i + 1).upper <= S
    BY <1>3, <2>1
  <2> DEFINE ll == e(i).lower * e(i).lower
             uu == e(i).upper * e(i).upper
             SS == S * S
  <2>8. AtLeast(W, z, ll, SS) /\ AtMost(W, z, uu, SS)
    BY <2>1, <2>2, <2>7 DEF IsExponential, z
  <2>9. ll \in Int /\ uu \in Int /\ SS \in Nat \ {0}
    BY <2>7
  <2>10. e(i + 1).lower * SS <= ll * S /\ uu * S <= e(i + 1).upper * SS
    <3>1. /\ (e(i + 1).lower * S) * S <= ll * S /\ uu * S <= (e(i + 1).upper * S) * S
      <4>1. e(i + 1).lower * S \in Int /\ e(i + 1).upper * S \in Int
        BY <2>7
      <4> HIDE DEF ll, uu
      <4>2. e(i + 1).lower * S <= ll /\ uu <= e(i + 1).upper * S
        BY <2>7 DEF ll, uu
      <4> QED
        BY <2>9, <4>1, <4>2, ProductsKeepOrder
    <3>2. /\ (e(i + 1).lower * S) * S = e(i + 1).lower * SS
          /\ (e(i + 1).upper * S) * S = e(i + 1).upper * SS
      BY <2>7
    <3> QED
      BY <3>1, <3>2
  <2> HIDE DEF ll, uu, SS
  <2>11. AtLeast(W, y(i + 1), e(i + 1).lower, S)
    BY <2>2, <2>3, <2>6, <2>7, <2>8, <2>9, <2>10, LowerIsAtLeast
  <2>12. AtMost(W, y(i + 1), e(i + 1).upper, S)
    BY <2>2, <2>3, <2>6, <2>7, <2>8, <2>9, <2>10, HigherIsAtMost
  <2> QED
    BY <2>7, <2>11, <2>12
<1>6. T \in SUBSET Nat
  OBVIOUS
<1>7. T = Nat
  <2> HIDE DEF T
  <2> QED
    BY <1>4, <1>5, <1>6, InductiveSet
<1>8. /\ e(times).upper <= S
      /\ AtLeast(W, y(times), e(times).lower, S) /\ AtMost(W, y(times), e(times).upper, S)
  <2>1. times \in T
    <3> HIDE DEF T
    <3> QED
      BY <1>7
  <2>2. times <= times
    OBVIOUS
  <2> HIDE DEF e, y
  <2> QED
    BY <2>1, <2>2
<1>9. y(times) \in Exponents /\ y(times).num = x.num /\ y(times).den = x.den
  <2>1. times - times = 0 /\ PowerOfTwo(0) = 1 /\ times <= times
    BY PowerOfTwoDef
  <2>2. x.den * PowerOfTwo(times - times) = x.den
    BY <1>1, <2>1
  <2>3. /\ y(times) \in Exponents /\ y(times).num = x.num
        /\ y(times).den = x.den * PowerOfTwo(times - times)
    <3> HIDE DEF y
    <3> QED
      BY <1>2, <2>1
  <2> QED
    BY <2>2, <2>3
<1>10. e(times).lower \in Nat /\ e(times).upper \in Nat /\ e(times) \in [lower : Nat, upper : Nat]
  BY <1>3
<1> HIDE DEF e, y
<1>11. /\ x.num * y(times).den <= y(times).num * x.den /\ y(times).num * x.den <= x.num * y(times).den
       /\ e(times).lower * S <= e(times).lower * S /\ e(times).upper * S <= e(times).upper * S
  <2>1. x.num * x.den \in Int /\ e(times).lower * S \in Int /\ e(times).upper * S \in Int
    BY <1>1, <1>10
  <2> QED
    BY <1>9, <2>1
<1>12. AtLeast(W, x, e(times).lower, S)
  BY <1>8, <1>9, <1>10, <1>11, LowerIsAtLeast
<1>13. AtMost(W, x, e(times).upper, S)
  BY <1>8, <1>9, <1>10, <1>11, HigherIsAtMost
<1> QED
  BY <1>8, <1>10, <1>12, <1>13 DEF e

\* The enclosure e holds the exponential at x, between 0 and 1.
Encloses(W, x, e) ==
    /\ e \in [lower : Nat, upper : Nat, scale : Nat \ {0}]
    /\ e.lower <= e.upper /\ e.upper <= e.scale
    /\ AtLeast(W, x, e.lower, e.scale) /\ AtMost(W, x, e.upper, e.scale)

\* _exp_neg_taylor_interval encloses e^-x, with any number of terms and at any
\* precision; its own test of the result, that 0 <= lower <= upper <= 1, never fails.
THEOREM EnclosuresAreSound ==
    ASSUME NEW W, IsExponential(W), NEW x \in Exponents,
           NEW terms \in Nat, 1 <= terms, NEW precision \in Nat
    PROVE  Encloses(W, x, ExpNegInterval(x, terms, precision))
<1> DEFINE times == Squarings(x)
           scale == Scale(x, terms, precision)
           halves == x.den * PowerOfTwo(times)
           up == CeilDiv(x.num * scale, halves)
           down == FloorDiv(x.num * scale, halves)
           l == SeriesLower(up, scale, terms)
           u == SeriesUpper(down, scale, terms)
           y == [num |-> x.num, den |-> halves]
           e == Squared(l, u, scale, times)
<1>1. ExpNegInterval(x, terms, precision) = [lower |-> e.lower, upper |-> e.upper, scale |-> scale]
  BY DEF ExpNegInterval
<1>2. x.num \in Nat /\ x.den \in Nat \ {0}
  BY DEF Exponents
<1>3. times \in Nat /\ PowerOfTwo(times) \in Nat \ {0} /\ halves \in Nat \ {0}
  <2>1. times \in Nat
    BY LogarithmTypes
  <2> HIDE DEF times
  <2>2. PowerOfTwo(times) \in Nat \ {0}
    BY <2>1, PowerOfTwoDef
  <2> QED
    BY <1>2, <2>1, <2>2
<1>4. scale \in Nat \ {0}
  <2>1. terms + 1 \in Nat /\ CeilLog2(terms + 1) \in Nat /\ GuardBits \in Nat
    BY LogarithmTypes, RiskAssumption
  <2>2. precision + times + GuardBits + CeilLog2(terms + 1) \in Nat
    <3> HIDE DEF times
    <3> QED
      BY <1>3, <2>1
  <2>3. scale = PowerOfTwo(precision + times + GuardBits + CeilLog2(terms + 1))
    BY DEF Scale
  <2> HIDE DEF scale, times
  <2> QED
    BY <2>2, <2>3, PowerOfTwoDef
<1> HIDE DEF scale, times, halves
<1>5. /\ up \in Nat /\ down \in Nat
      /\ x.num * scale <= up * halves /\ down * halves <= x.num * scale
  <2>1. x.num * scale \in Nat
    BY <1>2, <1>4
  <2> QED
    BY <1>3, <2>1, DivIsDirected
<1> HIDE DEF up, down
<1> DEFINE xu == [num |-> up, den |-> scale]
           xd == [num |-> down, den |-> scale]
<1>6. /\ l \in Nat /\ AtLeast(W, xu, l, scale)
      /\ u \in 0..scale /\ AtMost(W, xd, u, scale)
  BY <1>4, <1>5, SeriesBounds
<1> HIDE DEF l, u
<1>7. y \in Exponents /\ xu \in Exponents /\ xd \in Exponents
  BY <1>2, <1>3, <1>4, <1>5 DEF Exponents
<1>8. /\ y.num = x.num /\ y.den = halves
      /\ xu.num = up /\ xu.den = scale /\ xd.num = down /\ xd.den = scale
  OBVIOUS
<1>9. l * scale <= l * scale /\ u * scale <= u * scale
  BY <1>4, <1>6
<1>10. AtLeast(W, y, l, scale) /\ AtMost(W, y, u, scale)
  <2> HIDE DEF y, xu, xd
  <2>1. y.num * xu.den <= xu.num * y.den /\ xd.num * y.den <= y.num * xd.den
    BY <1>5, <1>8
  <2>2. AtLeast(W, y, l, scale)
    BY <1>4, <1>6, <1>7, <1>9, <2>1, LowerIsAtLeast
  <2>3. AtMost(W, y, u, scale)
    BY <1>4, <1>6, <1>7, <1>9, <2>1, HigherIsAtMost
  <2> QED
    BY <2>2, <2>3
<1>11. /\ e \in [lower : Nat, upper : Nat] /\ e.upper <= scale
       /\ AtLeast(W, x, e.lower, scale) /\ AtMost(W, x, e.upper, scale)
  <2>1. u \in Nat /\ u <= scale
    BY <1>4, <1>6
  <2> QED
    BY <1>3, <1>4, <1>6, <1>10, <2>1, SquaringsUndoHalvings DEF halves
<1> HIDE DEF e
<1>12. e.lower \in Nat /\ e.upper \in Nat
  BY <1>11
<1>13. e.lower <= e.upper
  <2>1. e.lower * scale <= e.upper * scale
    BY <1>4, <1>11, <1>12 DEF AtLeast
  <2> SUFFICES ASSUME e.upper < e.lower PROVE FALSE
    BY <1>12
  <2>2. scale * e.upper + scale <= scale * e.lower
    BY <1>4, <1>12, Multiples
  <2> QED
    BY <1>4, <1>12, <2>1, <2>2
<1> QED
  BY <1>1, <1>4, <1>11, <1>12, <1>13 DEF Encloses

LEMMA RefinementSteps ==
    ASSUME NEW t \in Nat, NEW last \in Nat, 1 <= t, t < last
    PROVE  /\ Min({last, CeilDiv(3 * t, 2)}) \in t + 1..last
           /\ Min({2 * t, last}) \in t + 1..last
<1> DEFINE c == CeilDiv(3 * t, 2)
<1>1. c \in Nat /\ 3 * t <= c * 2
  <2>1. 3 * t \in Nat /\ 2 \in Nat \ {0}
    OBVIOUS
  <2> QED
    BY <2>1, DivIsDirected
<1> HIDE DEF c
<1>2. t < c
  BY <1>1
<1>3. Min({last, c}) \in {last, c} /\ Min({last, c}) <= last
  BY <1>1, MinMaxOfTwo
<1> DEFINE b == 2 * t
<1>4. b \in Int /\ t < b
  OBVIOUS
<1> HIDE DEF b
<1>5. Min({b, last}) \in {b, last} /\ Min({b, last}) <= last
  BY <1>4, MinMaxOfTwo
<1>6. Min({last, c}) \in t + 1..last
  BY <1>1, <1>2, <1>3
<1>7. Min({b, last}) \in t + 1..last
  BY <1>4, <1>5
<1> QED
  BY <1>6, <1>7 DEF b, c

\* risk_bound_interval returns one of the enclosures it has tried: one that is precise,
\* or that of the last number of terms.
LEMMA RiskBoundStops ==
    ASSUME NEW x \in Exponents, NEW precision \in Nat
    PROVE  LET e == RiskBoundInterval(x, precision)
           IN  \E t \in Nat :
                  /\ 1 <= t /\ e = ExpNegInterval(x, t, precision)
                  /\ IsPrecise(e, precision) \/ t = Max({LastTerms, precision + SpareTerms})
<1> DEFINE last == Max({LastTerms, precision + SpareTerms})
           E(t) == ExpNegInterval(x, t, precision)
           IsFrom(f) == f = [t \in FirstTerms..last |->
                               IF IsPrecise(E(t), precision) \/ t = last
                               THEN E(t)
                               ELSE f[Min({last, CeilDiv(3 * t, 2)})]]
           from == CHOOSE f : IsFrom(f)
           stop == {t \in FirstTerms..last : IsPrecise(E(t), precision) \/ t = last}
           val == [t \in FirstTerms..last |-> E(t)]
           next == [t \in FirstTerms..last |-> Min({last, CeilDiv(3 * t, 2)})]
<1>1. RiskBoundInterval(x, precision) = from[FirstTerms]
  BY Zenon DEF RiskBoundInterval
<1>2. FirstTerms \in Nat /\ 2 <= FirstTerms /\ last \in Nat /\ FirstTerms <= last
  <2>1. /\ FirstTerms \in Nat /\ LastTerms \in Nat /\ precision + SpareTerms \in Nat
        /\ 2 <= FirstTerms /\ FirstTerms <= LastTerms
    BY RiskAssumption
  <2> DEFINE b == precision + SpareTerms
  <2>2. b \in Nat
    BY <2>1
  <2> HIDE DEF b
  <2>3. LastTerms \in Int /\ b \in Int
    BY <2>1, <2>2
  <2>4. Max({LastTerms, b}) \in {LastTerms, b} /\ LastTerms <= Max({LastTerms, b})
    BY <2>3, MinMaxOfTwo, Zenon
  <2>5. last = Max({LastTerms, b})
    BY DEF b
  <2> HIDE DEF last
  <2> QED
    BY <2>1, <2>2, <2>4, <2>5
<1> HIDE DEF last, E
<1>3. \A t \in FirstTerms..last : t \notin stop => next[t] \in FirstTerms..last /\ t < next[t]
  <2> SUFFICES ASSUME NEW t \in FirstTerms..last, t # last
               PROVE  next[t] \in FirstTerms..last /\ t < next[t]
    OBVIOUS
  <2>1. t \in Nat /\ 1 <= t /\ t < last
    BY <1>2
  <2>2. next[t] = Min({last, CeilDiv(3 * t, 2)})
    OBVIOUS
  <2> HIDE DEF next
  <2>3. next[t] \in t + 1..last
    BY <1>2, <2>1, <2>2, RefinementSteps
  <2> QED
    BY <1>2, <2>1, <2>3
<1>4. \A f : IsFrom(f) <=> IsLoop(f, FirstTerms, last, stop, val, next)
  <2>1. ASSUME NEW f, NEW t \in FirstTerms..last
        PROVE  (IF IsPrecise(E(t), precision) \/ t = last
                THEN E(t) ELSE f[Min({last, CeilDiv(3 * t, 2)})])
               = IF t \in stop THEN val[t] ELSE f[next[t]]
    OBVIOUS
  <2> HIDE DEF stop, val, next
  <2> QED
    BY <2>1 DEF IsLoop
<1> HIDE DEF IsFrom, stop, val, next
<1>5. \E f : IsLoop(f, FirstTerms, last, stop, val, next)
  BY <1>2, <1>3, LoopExists
<1>6. IsLoop(from, FirstTerms, last, stop, val, next)
  BY <1>4, <1>5
<1> HIDE DEF from
<1>7. PICK t \in FirstTerms..last : t \in stop /\ from[FirstTerms] = val[t]
  <2>1. FirstTerms \in FirstTerms..last
    BY <1>2
  <2>2. \A t \in FirstTerms..last : \E p \in FirstTerms..last : p \in stop /\ from[t] = val[p]
    BY <1>2, <1>3, <1>6, LoopStops
  <2> QED
    BY <2>1, <2>2
<1>8. from[FirstTerms] = E(t) /\ t \in Nat /\ 1 <= t /\ (IsPrecise(E(t), precision) \/ t = last)
  BY <1>2, <1>7 DEF val, stop
<1> QED
  BY <1>1, <1>8 DEF E, last

LEMMA RiskBoundEncloses ==
    ASSUME NEW W, IsExponential(W), NEW x \in Exponents, NEW precision \in Nat
    PROVE  Encloses(W, x, RiskBoundInterval(x, precision))
  BY RiskBoundStops, EnclosuresAreSound

Thresholds == [num : Nat, den : Nat \ {0}]

\* The last precision at which risk_is_satisfied tries.
FinestPrecision(alpha) == Max({0, BitLength(alpha.den) - BitLength(alpha.num)}) + PrecisionSpan

\* risk_is_satisfied answers by one of its enclosures, and fails to answer only if
\* that is not precise or alpha is within the finest one.
LEMMA TestStops ==
    ASSUME NEW x \in Exponents, NEW alpha \in Thresholds
    PROVE  /\ FinestPrecision(alpha) \in Nat
           /\ \E p \in Nat :
                LET e == RiskBoundInterval(x, p)
                    result == RiskIsSatisfied(x, alpha)
                IN  \/ result = "yes" /\ IsBelow(e, alpha)
                    \/ result = "no" /\ IsAbove(e, alpha)
                    \/ result = "raises" /\ ~IsPrecise(e, p)
                    \/ /\ result = "raises" /\ p = FinestPrecision(alpha)
                       /\ ~IsBelow(e, alpha) /\ ~IsAbove(e, alpha)
<1> DEFINE magnitude == Max({0, BitLength(alpha.den) - BitLength(alpha.num)})
           first == Max({FirstPrecision, magnitude + SparePrecision})
           limit == magnitude + PrecisionSpan
           E(p) == RiskBoundInterval(x, p)
           IsAt(f) == f = [p \in first..limit |->
                CASE ~IsPrecise(E(p), p) -> "raises"
                  [] IsPrecise(E(p), p) /\ IsBelow(E(p), alpha) -> "yes"
                  [] IsPrecise(E(p), p) /\ ~IsBelow(E(p), alpha) /\ IsAbove(E(p), alpha) -> "no"
                  [] OTHER -> IF p = limit THEN "raises" ELSE f[Min({2 * p, limit})]]
           at == CHOOSE f : IsAt(f)
           stop == {p \in first..limit : \/ ~IsPrecise(E(p), p) \/ IsBelow(E(p), alpha)
                                         \/ IsAbove(E(p), alpha) \/ p = limit}
           val == [p \in first..limit |->
                     CASE ~IsPrecise(E(p), p) -> "raises"
                       [] IsPrecise(E(p), p) /\ IsBelow(E(p), alpha) -> "yes"
                       [] IsPrecise(E(p), p) /\ ~IsBelow(E(p), alpha) /\ IsAbove(E(p), alpha) -> "no"
                       [] OTHER -> "raises"]
           next == [p \in first..limit |-> Min({2 * p, limit})]
<1>1. RiskIsSatisfied(x, alpha) = at[first]
  BY Zenon DEF RiskIsSatisfied
<1>2. alpha.num \in Nat /\ alpha.den \in Nat \ {0}
  BY DEF Thresholds
<1>3. magnitude \in Nat
  <2> DEFINE b == BitLength(alpha.den) - BitLength(alpha.num)
  <2>1. b \in Int
    BY <1>2, LogarithmTypes
  <2>2. magnitude = Max({0, b})
    OBVIOUS
  <2> HIDE DEF b, magnitude
  <2>3. 0 \in Int
    OBVIOUS
  <2>4. Max({0, b}) \in {0, b} /\ 0 <= Max({0, b})
    BY <2>1, <2>3, MinMaxOfTwo, Zenon
  <2> QED
    BY <2>1, <2>2, <2>4
<1> HIDE DEF magnitude
<1>4. first \in Nat /\ 1 <= first /\ limit \in Nat /\ first <= limit
  <2> DEFINE b == magnitude + SparePrecision
  <2>1. /\ FirstPrecision \in Nat /\ 0 < FirstPrecision /\ FirstPrecision <= PrecisionSpan
        /\ PrecisionSpan \in Nat /\ SparePrecision \in Nat /\ SparePrecision <= PrecisionSpan
    BY RiskAssumption
  <2>2. b \in Nat /\ b <= limit /\ FirstPrecision <= limit /\ limit \in Nat
    BY <1>3, <2>1
  <2>3. first = Max({FirstPrecision, b})
    OBVIOUS
  <2> HIDE DEF b, first, limit
  <2>4. FirstPrecision \in Int /\ b \in Int
    BY <2>1, <2>2
  <2>5. Max({FirstPrecision, b}) \in {FirstPrecision, b} /\ FirstPrecision <= Max({FirstPrecision, b})
    BY <2>4, MinMaxOfTwo, Zenon
  <2> QED
    BY <2>1, <2>2, <2>3, <2>5
<1> HIDE DEF first, limit, E
<1>5. \A p \in first..limit : p \notin stop => next[p] \in first..limit /\ p < next[p]
  <2> SUFFICES ASSUME NEW p \in first..limit, p # limit
               PROVE  next[p] \in first..limit /\ p < next[p]
    OBVIOUS
  <2>1. p \in Nat /\ 1 <= p /\ p < limit
    BY <1>4
  <2>2. next[p] = Min({2 * p, limit})
    OBVIOUS
  <2> HIDE DEF next
  <2>3. next[p] \in p + 1..limit
    BY <1>4, <2>1, <2>2, RefinementSteps
  <2> QED
    BY <1>4, <2>1, <2>3
<1>6. \A f : IsAt(f) <=> IsLoop(f, first, limit, stop, val, next)
  <2>1. ASSUME NEW f, NEW p \in first..limit
        PROVE  (CASE ~IsPrecise(E(p), p) -> "raises"
                  [] IsPrecise(E(p), p) /\ IsBelow(E(p), alpha) -> "yes"
                  [] IsPrecise(E(p), p) /\ ~IsBelow(E(p), alpha) /\ IsAbove(E(p), alpha) -> "no"
                  [] OTHER -> IF p = limit THEN "raises" ELSE f[Min({2 * p, limit})])
               = IF p \in stop THEN val[p] ELSE f[next[p]]
    OBVIOUS
  <2> HIDE DEF stop, val, next
  <2> QED
    BY <2>1 DEF IsLoop
<1> HIDE DEF IsAt, stop, val, next
<1>7. \E f : IsLoop(f, first, limit, stop, val, next)
  BY <1>4, <1>5, LoopExists
<1>8. IsLoop(at, first, limit, stop, val, next)
  BY <1>6, <1>7
<1> HIDE DEF at
<1>9. PICK p \in first..limit : p \in stop /\ at[first] = val[p]
  <2>1. first \in first..limit
    BY <1>4
  <2>2. \A q \in first..limit : \E p \in first..limit : p \in stop /\ at[q] = val[p]
    BY <1>4, <1>5, <1>8, LoopStops
  <2> QED
    BY <2>1, <2>2
<1>10. p \in Nat
  BY <1>4
<1>11. \/ at[first] = "yes" /\ IsBelow(E(p), alpha)
       \/ at[first] = "no" /\ IsAbove(E(p), alpha)
       \/ at[first] = "raises" /\ ~IsPrecise(E(p), p)
       \/ at[first] = "raises" /\ p = limit /\ ~IsBelow(E(p), alpha) /\ ~IsAbove(E(p), alpha)
  BY <1>9 DEF val, stop
<1>12. limit = FinestPrecision(alpha)
  BY DEF limit, magnitude, FinestPrecision
<1> QED
  BY <1>1, <1>4, <1>10, <1>11, <1>12 DEF E

\* What risk_is_satisfied decides is so: "yes" if e^-x is at most alpha, "no" if it
\* is not.  It may also fail to decide.
THEOREM DecisionsAreRight ==
    ASSUME NEW W, IsExponential(W), NEW x \in Exponents, NEW alpha \in Thresholds
    PROVE  /\ RiskIsSatisfied(x, alpha) \in {"yes", "no", "raises"}
           /\ RiskIsSatisfied(x, alpha) = "yes" => AtMost(W, x, alpha.num, alpha.den)
           /\ RiskIsSatisfied(x, alpha) = "no" => ~AtMost(W, x, alpha.num, alpha.den)
<1>1. PICK p \in Nat :
        LET e == RiskBoundInterval(x, p)
            result == RiskIsSatisfied(x, alpha)
        IN  \/ result = "yes" /\ IsBelow(e, alpha)
            \/ result = "no" /\ IsAbove(e, alpha)
            \/ result = "raises"
  BY TestStops
<1> DEFINE e == RiskBoundInterval(x, p)
<1>2. Encloses(W, x, e) /\ alpha.num \in Nat /\ alpha.den \in Nat \ {0}
  BY RiskBoundEncloses DEF Thresholds
<1> HIDE DEF e
<1>3. IsBelow(e, alpha) => AtMost(W, x, alpha.num, alpha.den)
  <2> SUFFICES ASSUME IsBelow(e, alpha) PROVE AtMost(W, x, alpha.num, alpha.den)
    OBVIOUS
  <2>1. e.upper * alpha.den <= alpha.num * e.scale
    BY DEF IsBelow
  <2>2. /\ e.upper \in Int /\ e.scale \in Nat \ {0} /\ AtMost(W, x, e.upper, e.scale)
        /\ x.num * x.den <= x.num * x.den
    BY <1>2 DEF Encloses, Exponents
  <2> QED
    BY <1>2, <2>1, <2>2, HigherIsAtMost
<1>4. IsAbove(e, alpha) => ~AtMost(W, x, alpha.num, alpha.den)
  <2> SUFFICES ASSUME IsAbove(e, alpha), AtMost(W, x, alpha.num, alpha.den) PROVE FALSE
    OBVIOUS
  <2>1. e.lower * alpha.den > alpha.num * e.scale
    BY DEF IsAbove
  <2>2. e.lower * alpha.den <= alpha.num * e.scale
    BY <1>2 DEF Encloses, AtLeast
  <2>3. e.lower \in Int /\ e.scale \in Int
    BY <1>2 DEF Encloses
  <2> QED
    BY <1>2, <2>1, <2>2, <2>3
<1> QED
  BY <1>1, <1>3, <1>4 DEF e

------------------------------------------------------------------------------
(* The width of the enclosures                                             *)

\* Two values that are one unit apart have terms that are four units apart.
LEMMA TermsStayClose ==
    ASSUME NEW v \in Nat, NEW w \in Nat, NEW S \in Nat \ {0},
           v <= w + 1, 2 * v <= S, 2 * w <= S, NEW k \in Nat
    PROVE  Term(v, S, k).upper <= Term(w, S, k).lower + 4
<1> DEFINE U(i) == Term(v, S, i).upper
           L(i) == Term(w, S, i).lower
           T == {i \in Nat : U(i) <= L(i) + 4 /\ L(i) <= S}
<1>1. 0 \in T
  <2>1. U(0) = S /\ L(0) = S
    <3>1. Term(v, S, 0) = [lower |-> S, upper |-> S] /\ Term(w, S, 0) = [lower |-> S, upper |-> S]
      BY TermDef
    <3> QED
      BY <3>1
  <2> HIDE DEF U, L
  <2> QED
    BY <2>1
<1>2. ASSUME NEW i \in T PROVE i + 1 \in T
  <2> DEFINE q == S * (i + 1)
  <2>1. i \in Nat /\ q \in Nat \ {0} /\ S <= q
    <3>1. i \in Nat
      OBVIOUS
    <3>2. S * (i + 1) = S * i + S /\ S * i \in Nat
      BY <3>1
    <3> QED
      BY <3>1, <3>2
  <2>2. /\ U(i) \in Nat /\ L(i) \in Nat
        /\ U(i + 1) = CeilDiv(U(i) * v, q) /\ L(i + 1) = FloorDiv(L(i) * w, q)
    <3>1. /\ Term(v, S, i) \in [lower : Nat, upper : Nat]
          /\ Term(w, S, i) \in [lower : Nat, upper : Nat]
          /\ Term(v, S, i + 1) = [lower |-> FloorDiv(Term(v, S, i).lower * v, S * (i + 1)),
                                  upper |-> CeilDiv(Term(v, S, i).upper * v, S * (i + 1))]
          /\ Term(w, S, i + 1) = [lower |-> FloorDiv(Term(w, S, i).lower * w, S * (i + 1)),
                                  upper |-> CeilDiv(Term(w, S, i).upper * w, S * (i + 1))]
      BY <2>1, TermDef
    <3> QED
      BY <3>1
  <2>3. U(i) <= L(i) + 4 /\ L(i) <= S
    OBVIOUS
  <2> DEFINE u == U(i)
             l == L(i)
             uv == u * v
             lw == l * w
             f == FloorDiv(lw, q)
  <2>4. u \in Nat /\ l \in Nat /\ u <= l + 4 /\ l <= S
    BY <2>2, <2>3
  <2> HIDE DEF q, u, l
  <2>5. uv \in Nat /\ lw \in Nat /\ uv = u * v /\ lw = l * w
    BY <2>4
  <2> HIDE DEF uv, lw
  <2>6. f \in Nat /\ f * q <= lw /\ lw < (f + 1) * q
    BY <2>1, <2>5, DivIsDirected, DivIsClose
  <2> HIDE DEF f
  <2>7. uv <= lw + 3 * S
    <3>1. u * v <= (l + 4) * v
      BY <2>4, ProductsKeepOrder
    <3>2. v * l <= (w + 1) * l
      BY <2>4, ProductsKeepOrder
    <3>3. (l + 4) * v = v * l + 4 * v /\ (w + 1) * l = l * w + l /\ v * l \in Int
      BY <2>4
    <3>4. (l + 4) * v \in Int /\ (w + 1) * l \in Int
      BY <2>4
    <3> QED
      BY <2>4, <2>5, <3>1, <3>2, <3>3, <3>4
  <2>8. uv <= (f + 4) * q
    <3>1. (f + 4) * q = (f + 1) * q + 3 * q /\ (f + 1) * q \in Int
      BY <2>1, <2>6
    <3> QED
      BY <2>1, <2>5, <2>6, <2>7, <3>1
  <2>9. U(i + 1) <= f + 4
    <3>1. U(i + 1) = CeilDiv(uv, q)
      BY <2>2 DEF uv, u
    <3>2. f + 4 \in Int
      BY <2>6
    <3> HIDE DEF U
    <3> QED
      BY <2>1, <2>5, <2>8, <3>1, <3>2, DivIsDirected
  <2>10. L(i + 1) = f
    BY <2>2 DEF f, lw, l
  <2>11. f <= S
    <3> SUFFICES ASSUME S < f PROVE FALSE
      BY <2>6
    <3>1. l * w <= S * w /\ w * S <= S * S
      BY <2>4, ProductsKeepOrder
    <3>2. q * S + q <= q * f
      BY <2>1, <2>6, Multiples
    <3>3. S * S <= q * S
      BY <2>1, ProductsKeepOrder
    <3>4. f * q = q * f /\ S * w = w * S
      BY <2>1, <2>6
    <3>5. {S * w, S * S, q * S, q * f} \subseteq Int
      BY <2>1, <2>6
    <3> QED
      BY <2>1, <2>5, <2>6, <3>1, <3>2, <3>3, <3>4, <3>5
  <2> HIDE DEF U, L, T
  <2>12. U(i + 1) <= L(i + 1) + 4 /\ L(i + 1) <= S /\ i + 1 \in Nat
    BY <2>1, <2>9, <2>10, <2>11
  <2> QED
    BY <2>12 DEF T
<1>3. T \in SUBSET Nat
  OBVIOUS
<1>4. T = Nat
  <2> HIDE DEF T
  <2> QED
    BY <1>1, <1>2, <1>3, InductiveSet
<1> QED
  BY <1>4

\* So the partial sums drift apart by four units a term.
LEMMA SumsStayClose ==
    ASSUME NEW v \in Nat, NEW w \in Nat, NEW S \in Nat \ {0},
           v <= w + 1, w <= v + 1, 2 * v <= S, 2 * w <= S, NEW k \in Nat
    PROVE  PartialSum(v, S, k).upper - PartialSum(w, S, k).lower <= 4 * k
<1> DEFINE U(i) == PartialSum(v, S, i).upper
           L(i) == PartialSum(w, S, i).lower
           T == {i \in Nat : U(i) - L(i) <= 4 * i}
<1>1. 0 \in T
  <2>1. U(0) = S /\ L(0) = S
    <3>1. /\ PartialSum(v, S, 0) = [lower |-> S, upper |-> S]
          /\ PartialSum(w, S, 0) = [lower |-> S, upper |-> S]
      BY PartialSumDef
    <3> QED
      BY <3>1
  <2> HIDE DEF U, L
  <2> QED
    BY <2>1
<1>2. ASSUME NEW i \in T PROVE i + 1 \in T
  <2> DEFINE tv == Term(v, S, i + 1)
             tw == Term(w, S, i + 1)
             sv == PartialSum(v, S, i)
             sw == PartialSum(w, S, i)
  <2>1. i \in Nat /\ i + 1 \in Nat /\ sv.upper - sw.lower <= 4 * i
    OBVIOUS
  <2>2. /\ tv \in [lower : Nat, upper : Nat] /\ tw \in [lower : Nat, upper : Nat]
    BY <2>1, TermDef
  <2>3. tv.upper <= tw.lower + 4 /\ tw.upper <= tv.lower + 4
    BY <2>1, TermsStayClose
  <2>4. /\ sv \in [lower : Int, upper : Int] /\ sw \in [lower : Int, upper : Int]
        /\ PartialSum(v, S, i + 1).upper =
             IF (i + 1) % 2 = 1 THEN sv.upper - tv.lower ELSE sv.upper + tv.upper
        /\ PartialSum(w, S, i + 1).lower =
             IF (i + 1) % 2 = 1 THEN sw.lower - tw.upper ELSE sw.lower + tw.lower
    <3>1. /\ sv \in [lower : Int, upper : Int] /\ sw \in [lower : Int, upper : Int]
          /\ PartialSum(v, S, i + 1) =
               IF (i + 1) % 2 = 1
               THEN [lower |-> sv.lower - tv.upper, upper |-> sv.upper - tv.lower]
               ELSE [lower |-> sv.lower + tv.lower, upper |-> sv.upper + tv.upper]
          /\ PartialSum(w, S, i + 1) =
               IF (i + 1) % 2 = 1
               THEN [lower |-> sw.lower - tw.upper, upper |-> sw.upper - tw.lower]
               ELSE [lower |-> sw.lower + tw.lower, upper |-> sw.upper + tw.upper]
      BY <2>1, PartialSumDef
    <3> HIDE DEF sv, sw, tv, tw
    <3> QED
      BY <3>1
  <2> HIDE DEF tv, tw, sv, sw
  <2>5. /\ {tv.lower, tv.upper, tw.lower, tw.upper} \subseteq Nat
        /\ {sv.upper, sw.lower} \subseteq Int
    BY <2>2, <2>4
  <2>6. U(i + 1) - L(i + 1) <= 4 * (i + 1)
    BY <2>1, <2>3, <2>4, <2>5
  <2> QED
    BY <2>1, <2>6
<1>3. T \in SUBSET Nat
  OBVIOUS
<1>4. T = Nat
  <2> HIDE DEF T
  <2> QED
    BY <1>1, <1>2, <1>3, InductiveSet
<1> QED
  BY <1>4

\* With at most half a unit as value, a term is at most half the one before, rounded up.
LEMMA TermsHalve ==
    ASSUME NEW v \in Nat, NEW S \in Nat \ {0}, 2 * v <= S, NEW k \in Nat
    PROVE  Term(v, S, k).upper * PowerOfTwo(k) <= S + PowerOfTwo(k)
<1> DEFINE U(i) == Term(v, S, i).upper
           T == {i \in Nat : U(i) * PowerOfTwo(i) <= S + PowerOfTwo(i)}
<1>1. 0 \in T
  <2>1. U(0) = S
    <3>1. Term(v, S, 0) = [lower |-> S, upper |-> S]
      BY TermDef
    <3> QED
      BY <3>1
  <2> HIDE DEF U
  <2>2. PowerOfTwo(0) = 1
    BY PowerOfTwoDef
  <2> QED
    BY <2>1, <2>2
<1>2. ASSUME NEW i \in T PROVE i + 1 \in T
  <2> DEFINE q == S * (i + 1)
             u == U(i)
             next == U(i + 1)
             p == PowerOfTwo(i)
             uv == u * v
  <2>1. i \in Nat /\ q \in Nat \ {0} /\ S <= q
    <3>1. i \in Nat
      OBVIOUS
    <3>2. S * (i + 1) = S * i + S /\ S * i \in Nat
      BY <3>1
    <3> QED
      BY <3>1, <3>2
  <2>2. u \in Nat /\ next = CeilDiv(uv, q)
    <3>1. /\ Term(v, S, i) \in [lower : Nat, upper : Nat]
          /\ Term(v, S, i + 1) = [lower |-> FloorDiv(Term(v, S, i).lower * v, S * (i + 1)),
                                  upper |-> CeilDiv(Term(v, S, i).upper * v, S * (i + 1))]
      BY <2>1, TermDef
    <3> QED
      BY <3>1
  <2>3. u * p <= S + p
    OBVIOUS
  <2>4. p \in Nat /\ PowerOfTwo(i + 1) = 2 * p
    BY <2>1, PowerOfTwoDef
  <2> HIDE DEF q, u, p, T, U
  <2>5. uv \in Nat /\ uv = u * v
    BY <2>2
  <2> HIDE DEF uv
  <2>6. next \in Nat /\ (next - 1) * q < uv
    BY <2>1, <2>2, <2>5, DivIsDirected, DivIsClose
  <2> HIDE DEF next
  <2>7. 2 * next <= u + 1
    <3> SUFFICES ASSUME u + 2 <= 2 * next PROVE FALSE
      BY <2>2, <2>6
    <3>1. 2 * v * u <= S * u
      BY <2>2, ProductsKeepOrder
    <3>2. S * u <= q * u
      BY <2>1, <2>2, ProductsKeepOrder
    <3>3. u * q <= (2 * next - 2) * q
      BY <2>1, <2>2, <2>6, ProductsKeepOrder
    <3>4. /\ (2 * next - 2) * q = 2 * ((next - 1) * q) /\ 2 * v * u = 2 * uv /\ u * q = q * u
          /\ {(next - 1) * q, S * u, q * u} \subseteq Int
      BY <2>1, <2>2, <2>5, <2>6
    <3> QED
      BY <2>5, <2>6, <3>1, <3>2, <3>3, <3>4
  <2>8. next * (2 * p) <= S + 2 * p
    <3>1. (2 * next) * p <= (u + 1) * p
      BY <2>2, <2>4, <2>6, <2>7, ProductsKeepOrder
    <3>2. (u + 1) * p = u * p + p /\ u * p \in Int /\ next * (2 * p) = (2 * next) * p
          /\ (2 * next) * p \in Int
      BY <2>2, <2>4, <2>6
    <3> QED
      BY <2>3, <2>4, <3>1, <3>2
  <2> QED
    BY <2>1, <2>4, <2>8 DEF T, next
<1>3. T \in SUBSET Nat
  OBVIOUS
<1>4. T = Nat
  <2> HIDE DEF T
  <2> QED
    BY <1>1, <1>2, <1>3, InductiveSet
<1> QED
  BY <1>4

\* Every squaring at most doubles the width of an enclosure, but for a unit.
LEMMA SquaringsWiden ==
    ASSUME NEW l \in Nat, NEW u \in Nat, NEW S \in Nat \ {0}, u <= S,
           NEW b \in Nat \ {0}, u - l < b, NEW k \in Nat
    PROVE  Squared(l, u, S, k).upper - Squared(l, u, S, k).lower < PowerOfTwo(k) * b
<1> DEFINE U(i) == Squared(l, u, S, i).upper
           L(i) == Squared(l, u, S, i).lower
           T == {i \in Nat : U(i) <= S /\ U(i) - L(i) < PowerOfTwo(i) * b}
<1>1. 0 \in T
  <2>1. U(0) = u /\ L(0) = l
    <3>1. Squared(l, u, S, 0) = [lower |-> l, upper |-> u]
      BY SquaredDef
    <3> QED
      BY <3>1
  <2> HIDE DEF U, L
  <2> QED
    BY <2>1, PowerOfTwoDef
<1>2. ASSUME NEW i \in T PROVE i + 1 \in T
  <2> DEFINE t == Squared(l, u, S, i)
             next == Squared(l, u, S, i + 1)
             uu == t.upper * t.upper
             ll == t.lower * t.lower
             p == PowerOfTwo(i) * b
             n == next.upper
             m == next.lower
  <2>1. i \in Nat /\ t.upper <= S /\ t.upper - t.lower < p
    OBVIOUS
  <2>2. /\ t \in [lower : Nat, upper : Nat]
        /\ next = [lower |-> FloorDiv(ll, S), upper |-> CeilDiv(uu, S)]
        /\ next.upper <= S
    BY <2>1, SquaredDef
  <2>3. p \in Nat /\ p >= 1 /\ PowerOfTwo(i + 1) * b = 2 * p
    <3>1. PowerOfTwo(i) \in Nat /\ i < PowerOfTwo(i) /\ PowerOfTwo(i + 1) = 2 * PowerOfTwo(i)
      BY <2>1, PowerOfTwoDef
    <3>2. 1 * b <= PowerOfTwo(i) * b
      BY <2>1, <3>1, ProductsKeepOrder
    <3> QED
      BY <3>1, <3>2
  <2> HIDE DEF t, next, p, T, U, L
  <2>4. t.upper \in Nat /\ t.lower \in Nat /\ uu \in Nat /\ ll \in Nat
    BY <2>2
  <2>5. n = CeilDiv(uu, S) /\ m = FloorDiv(ll, S)
    BY <2>2
  <2> DEFINE d == t.upper - t.lower
  <2>6. uu - ll = d * (t.upper + t.lower)
    BY <2>4
  <2> HIDE DEF n, m, uu, ll
  <2>7. n \in Nat /\ m \in Nat /\ (n - 1) * S < uu /\ ll < (m + 1) * S
    BY <2>4, <2>5, DivIsDirected, DivIsClose
  <2>8. (n - m) * S < uu - ll + 2 * S
    <3>1. /\ (n - 1) * S = n * S - S /\ (m + 1) * S = m * S + S /\ (n - m) * S = n * S - m * S
          /\ {n * S, m * S} \subseteq Int
      BY <2>7
    <3> QED
      BY <2>4, <2>7, <3>1
  <2>9. n - m < 2 * p
    <3>1. CASE t.upper < t.lower
      <4>1. uu - ll <= 0
        <5>1. t.upper * t.upper <= t.lower * t.upper /\ t.upper * t.lower <= t.lower * t.lower
          BY <2>4, <3>1, ProductsKeepOrder
        <5>2. t.upper * t.lower = t.lower * t.upper /\ t.upper * t.lower \in Int
          BY <2>4
        <5> QED
          BY <2>4, <5>1, <5>2 DEF uu, ll
      <4>2. (n - m) * S < 2 * S
        <5>1. (n - m) * S \in Int
          BY <2>7
        <5> QED
          BY <2>4, <2>8, <4>1, <5>1
      <4>3. n - m < 2
        BY <2>7, <4>2, ProductsKeepOrder
      <4> QED
        BY <2>3, <2>7, <4>3
    <3>2. CASE t.lower <= t.upper
      <4>1. d \in Nat /\ d + 1 <= p
        BY <2>1, <2>3, <2>4, <3>2
      <4>2. d * (t.upper + t.lower) <= d * (2 * S)
        <5>1. t.upper + t.lower <= 2 * S
          BY <2>1, <2>4, <3>2
        <5>2. (t.upper + t.lower) * d <= (2 * S) * d
          BY <2>4, <4>1, <5>1, ProductsKeepOrder
        <5> HIDE DEF d
        <5> QED
          BY <2>4, <4>1, <5>2
      <4> HIDE DEF d
      <4>3. (n - m) * S < (2 * d + 2) * S
        <5>1. d * (2 * S) + 2 * S = (2 * d + 2) * S
          BY <4>1
        <5>2. (n - m) * S \in Int /\ d * (2 * S) \in Int
          BY <2>7, <4>1
        <5> QED
          BY <2>4, <2>6, <2>8, <4>2, <5>1, <5>2
      <4>4. n - m < 2 * d + 2
        BY <2>7, <4>1, <4>3, ProductsKeepOrder
      <4> QED
        BY <2>3, <2>7, <4>1, <4>4
    <3> QED
      BY <2>4, <3>1, <3>2
  <2> QED
    BY <2>1, <2>2, <2>3, <2>9 DEF T, U, L, n, m, next
<1>3. T \in SUBSET Nat
  OBVIOUS
<1>4. T = Nat
  <2> HIDE DEF T
  <2> QED
    BY <1>1, <1>2, <1>3, InductiveSet
<1> QED
  BY <1>4

\* The width of the series: what its terms drift apart, and the term that closes it.
LEMMA SeriesIsNarrow ==
    ASSUME NEW v \in Nat, NEW w \in Nat, NEW S \in Nat \ {0},
           v <= w + 1, w <= v + 1, 2 * v <= S, 2 * w <= S, NEW terms \in Nat, 1 <= terms
    PROVE  \E n \in {terms, terms + 1} :
              SeriesUpper(v, S, terms) - SeriesLower(w, S, terms) <= 4 * terms + Term(v, S, n).upper
<1> DEFINE n == LastEven(terms)
           i == n - 1
           t == Term(v, S, n)
           sv == PartialSum(v, S, n)
           before == PartialSum(v, S, i)
           sw == PartialSum(w, S, i)
<1>1. n \in {terms, terms + 1} /\ n \in Nat /\ i \in Nat /\ n = i + 1 /\ n % 2 # 1 /\ i <= terms
  BY DEF LastEven
<1>2. SeriesUpper(v, S, terms) = Min({S, sv.upper}) /\ SeriesLower(w, S, terms) = Max({0, sw.lower})
  BY DEF SeriesUpper, SeriesLower
<1> HIDE DEF n, i
<1>3. t \in [lower : Nat, upper : Nat]
  BY <1>1, TermDef
<1>4. /\ before \in [lower : Int, upper : Int] /\ sw \in [lower : Int, upper : Int]
      /\ before.upper - sw.lower <= 4 * i
  BY <1>1, PartialSumDef, SumsStayClose
<1>5. sv.upper = before.upper + t.upper
  <2>1. ASSUME NEW k \in Nat, (k + 1) % 2 # 1
        PROVE  PartialSum(v, S, k + 1).upper = PartialSum(v, S, k).upper + Term(v, S, k + 1).upper
    <3>1. PartialSum(v, S, k + 1) =
            IF (k + 1) % 2 = 1
            THEN [lower |-> PartialSum(v, S, k).lower - Term(v, S, k + 1).upper,
                  upper |-> PartialSum(v, S, k).upper - Term(v, S, k + 1).lower]
            ELSE [lower |-> PartialSum(v, S, k).lower + Term(v, S, k + 1).lower,
                  upper |-> PartialSum(v, S, k).upper + Term(v, S, k + 1).upper]
      BY PartialSumDef
    <3> QED
      BY <2>1, <3>1
  <2> QED
    BY <1>1, <2>1
<1> HIDE DEF sv, before, sw, t
<1>6. /\ Min({S, sv.upper}) <= sv.upper /\ Min({S, sv.upper}) \in Int
      /\ sw.lower <= Max({0, sw.lower}) /\ Max({0, sw.lower}) \in Int
  <2> DEFINE a == sv.upper
             b == sw.lower
  <2>1. a \in Int /\ b \in Int
    BY <1>3, <1>4, <1>5
  <2> HIDE DEF a, b
  <2>2. 0 \in Int /\ S \in Int
    OBVIOUS
  <2>3. Min({S, a}) \in {S, a} /\ Min({S, a}) <= a
    BY <2>1, <2>2, MinMaxOfTwo
  <2>4. Max({0, b}) \in {0, b} /\ b <= Max({0, b})
    BY <2>1, <2>2, MinMaxOfTwo, Zenon
  <2> QED
    BY <2>1, <2>3, <2>4 DEF a, b
<1>7. SeriesUpper(v, S, terms) - SeriesLower(w, S, terms) <= 4 * terms + t.upper
  BY <1>1, <1>2, <1>3, <1>4, <1>5, <1>6
<1> QED
  BY <1>1, <1>7 DEF t

\* The term that closes a series is smaller than a part of 2^m of a unit of 2^m * r,
\* if the series is longer than m.
LEMMA LastTermIsSmall ==
    ASSUME NEW v \in Nat, NEW S \in Nat \ {0}, 2 * v <= S, NEW k \in Nat, NEW m \in Nat, m <= k,
           NEW r \in Nat, S = PowerOfTwo(m) * r
    PROVE  Term(v, S, k).upper <= r + 1
<1> DEFINE u == Term(v, S, k).upper
           pm == PowerOfTwo(m)
           pk == PowerOfTwo(k)
<1>1. u \in Nat
  <2>1. Term(v, S, k) \in [lower : Nat, upper : Nat]
    BY TermDef
  <2> QED
    BY <2>1
<1>2. u * pk <= S + pk
  BY TermsHalve
<1>3. pm \in Nat /\ 1 <= pm /\ pk \in Nat /\ pm <= pk
  <2>1. k - m \in Nat /\ m + (k - m) = k
    OBVIOUS
  <2>2. pk = pm * PowerOfTwo(k - m)
    BY <2>1, PowersAddUp
  <2>3. /\ pm \in Nat /\ m < pm /\ pk \in Nat
        /\ PowerOfTwo(k - m) \in Nat /\ k - m < PowerOfTwo(k - m)
    BY <2>1, PowerOfTwoDef
  <2> DEFINE e == PowerOfTwo(k - m)
  <2> HIDE DEF pm, pk, e
  <2>4. 1 * pm <= e * pm
    BY <2>1, <2>3, ProductsKeepOrder DEF e
  <2> QED
    BY <2>2, <2>3, <2>4 DEF e
<1>4. S = pm * r
  OBVIOUS
<1> HIDE DEF u, pm, pk
<1>5. ASSUME r + 1 < u PROVE FALSE
  <2>1. u - 1 \in Nat /\ r < u - 1
    BY <1>1, <1>5
  <2>2. (u - 1) * pk <= pm * r
    BY <1>1, <1>2, <1>3, <1>4
  <2>3. pm * (u - 1) <= pk * (u - 1)
    BY <1>3, <2>1, ProductsKeepOrder
  <2>4. pm * r + pm <= pm * (u - 1)
    BY <1>3, <2>1, Multiples
  <2>5. {pm * r, pk * (u - 1), pm * (u - 1)} \subseteq Int /\ pk * (u - 1) = (u - 1) * pk
    BY <1>1, <1>3
  <2> QED
    BY <1>3, <2>2, <2>3, <2>4, <2>5
<1> QED
  BY <1>1, <1>5 DEF u

\* Rounding a fraction of at most one half down and up.
LEMMA HalvesAreClose ==
    ASSUME NEW n \in Nat, NEW d \in Nat \ {0}, 2 * n <= d, NEW h \in Nat \ {0}
    PROVE  LET S == 2 * h
               down == FloorDiv(n * S, d)
               up == CeilDiv(n * S, d)
           IN  /\ down \in Nat /\ up \in Nat
               /\ down <= up /\ up <= down + 1 /\ 2 * up <= S
<1> DEFINE S == 2 * h
           a == n * S
           down == FloorDiv(a, d)
           up == CeilDiv(a, d)
<1>1. a \in Nat
  OBVIOUS
<1>2. a <= h * d
  <2>1. (2 * n) * h <= d * h
    BY ProductsKeepOrder
  <2> QED
    BY <2>1
<1> HIDE DEF a
<1>3. /\ down \in Nat /\ down * d <= a /\ a < (down + 1) * d
      /\ up \in Nat /\ a <= up * d /\ \A c \in Int : a <= c * d => up <= c
  BY <1>1, DivIsDirected, DivIsClose
<1> HIDE DEF down, up
<1>4. up <= h
  BY <1>2, <1>3
<1>5. up <= down + 1
  <2>1. down + 1 \in Int /\ (down + 1) * d \in Int
    BY <1>3
  <2> QED
    BY <1>1, <1>3, <2>1
<1>6. down <= up
  <2> SUFFICES ASSUME up < down PROVE FALSE
    BY <1>3
  <2>1. d * up + d <= d * down
    BY <1>3, Multiples
  <2>2. d * up = up * d /\ d * down = down * d /\ {d * up, d * down} \subseteq Int
    BY <1>3
  <2> QED
    BY <1>1, <1>3, <2>1, <2>2
<1> QED
  BY <1>3, <1>4, <1>5, <1>6 DEF a, down, up

\* What the terms drift apart and what the last one leaves fit into the guard bits.
LEMMA GuardBitsSuffice ==
    ASSUME 3 <= GuardBits, NEW terms \in Nat, 1 <= terms
    PROVE  LET spare == GuardBits + CeilLog2(terms + 1)
           IN  /\ spare - 1 \in Nat
               /\ 4 * terms + (PowerOfTwo(spare - 1) + 1) < PowerOfTwo(spare)
<1> DEFINE c == CeilLog2(terms + 1)
           pc == PowerOfTwo(c)
           g == GuardBits - 3
           r == PowerOfTwo(GuardBits + c - 1)
<1>1. GuardBits \in Nat /\ g \in Nat /\ terms + 1 \in Nat
  BY RiskAssumption
<1>2. c \in Nat /\ pc \in Nat /\ terms + 1 <= pc
  <2>1. c \in Nat /\ terms + 1 <= PowerOfTwo(c)
    BY <1>1, LogarithmTypes
  <2> QED
    BY <2>1, PowerOfTwoDef
<1> HIDE DEF c
<1>3. /\ GuardBits + c = (GuardBits + c - 1) + 1 /\ GuardBits + c - 1 \in Nat
      /\ GuardBits + c - 1 = g + (c + 1 + 1) /\ c + 1 \in Nat /\ c + 1 + 1 \in Nat
  BY <1>1, <1>2
<1> HIDE DEF g
<1>4. PowerOfTwo(GuardBits + c) = 2 * r /\ r \in Nat
  BY <1>3, PowerOfTwoDef
<1>5. 4 * pc <= r
  <2>1. PowerOfTwo(c + 1 + 1) = 2 * (2 * pc)
    BY <1>2, <1>3, PowerOfTwoDef
  <2>2. r = PowerOfTwo(g) * PowerOfTwo(c + 1 + 1)
    BY <1>1, <1>3, PowersAddUp
  <2>3. PowerOfTwo(g) \in Nat /\ 1 <= PowerOfTwo(g)
    BY <1>1, PowerOfTwoDef
  <2> DEFINE e == PowerOfTwo(g)
             q == 4 * pc
  <2>4. q \in Nat /\ e \in Nat /\ 1 <= e /\ r = e * q
    BY <1>2, <2>1, <2>2, <2>3
  <2> HIDE DEF e, q, r
  <2>5. 1 * q <= e * q
    BY <2>4, ProductsKeepOrder
  <2>6. q <= r
    BY <2>4, <2>5
  <2> QED
    BY <2>6 DEF q
<1> HIDE DEF pc, r
<1>6. 4 * terms + (r + 1) < 2 * r
  BY <1>2, <1>4, <1>5
<1> QED
  BY <1>3, <1>4, <1>6 DEF c, r

\* A series with more terms than the precision and the halvings have bits is as
\* narrow as the precision asks.
LEMMA LongSeriesArePrecise ==
    ASSUME 3 <= GuardBits, NEW W, IsExponential(W), NEW x \in Exponents,
           NEW terms \in Nat, NEW precision \in Nat, precision + Squarings(x) < terms
    PROVE  IsPrecise(ExpNegInterval(x, terms, precision), precision)
<1> DEFINE times == Squarings(x)
           scale == Scale(x, terms, precision)
           halves == x.den * PowerOfTwo(times)
           up == CeilDiv(x.num * scale, halves)
           down == FloorDiv(x.num * scale, halves)
           l == SeriesLower(up, scale, terms)
           u == SeriesUpper(down, scale, terms)
           e == Squared(l, u, scale, times)
           spare == GuardBits + CeilLog2(terms + 1)
           r == PowerOfTwo(spare - 1)
           b == PowerOfTwo(spare)
           m == precision + times + 1
<1>1. ExpNegInterval(x, terms, precision) = [lower |-> e.lower, upper |-> e.upper, scale |-> scale]
  BY DEF ExpNegInterval
<1>2. x.num \in Nat /\ x.den \in Nat \ {0}
  BY DEF Exponents
<1>3. /\ times \in Nat /\ 2 * x.num <= halves /\ precision + times < terms
      /\ terms + 1 \in Nat /\ CeilLog2(terms + 1) \in Nat /\ GuardBits \in Nat /\ spare \in Nat
  BY LogarithmTypes, RiskAssumption
<1>4. PowerOfTwo(times) \in Nat \ {0}
  <2> HIDE DEF times
  <2> QED
    BY <1>3, PowerOfTwoDef
<1>5. halves \in Nat \ {0}
  <2> HIDE DEF times
  <2> QED
    BY <1>2, <1>4
<1>6. scale = PowerOfTwo(precision + times + spare)
  <2>1. scale = PowerOfTwo(precision + times + GuardBits + CeilLog2(terms + 1))
    BY DEF Scale
  <2>2. precision + times + GuardBits + CeilLog2(terms + 1) = precision + times + spare
    <3> HIDE DEF times
    <3> QED
      BY <1>3
  <2> QED
    BY <2>1, <2>2
<1>7. terms >= 1 /\ m \in Nat /\ m <= terms
  <2> HIDE DEF times
  <2> QED
    BY <1>3
<1>8. spare - 1 \in Nat /\ 4 * terms + (r + 1) < b
  BY <1>7, GuardBitsSuffice
<1> HIDE DEF scale, halves, times, spare
<1>9. r \in Nat \ {0} /\ b \in Nat \ {0}
  BY <1>3, <1>8, PowerOfTwoDef
<1>10. scale = PowerOfTwo(m) * r /\ scale = PowerOfTwo(precision) * (PowerOfTwo(times) * b)
  <2>1. precision + times + spare = m + (spare - 1)
    BY <1>3, <1>8
  <2>2. precision + times + spare = precision + (times + spare) /\ times + spare \in Nat
    BY <1>3, <1>8
  <2>3. PowerOfTwo(precision + (times + spare)) = PowerOfTwo(precision) * PowerOfTwo(times + spare)
    BY <2>2, PowersAddUp
  <2>4. PowerOfTwo(times + spare) = PowerOfTwo(times) * b
    BY <1>3, PowersAddUp
  <2>5. PowerOfTwo(m + (spare - 1)) = PowerOfTwo(m) * r
    BY <1>7, <1>8, PowersAddUp
  <2> QED
    BY <1>6, <2>1, <2>2, <2>3, <2>4, <2>5
<1>11. \E h \in Nat \ {0} : scale = 2 * h
  <2> DEFINE h == PowerOfTwo(precision + times) * r
  <2>1. PowerOfTwo(m) = 2 * PowerOfTwo(precision + times) /\ PowerOfTwo(precision + times) \in Nat \ {0}
    <3>1. precision + times \in Nat
      BY <1>3
    <3> QED
      BY <3>1, PowerOfTwoDef
  <2>2. scale = 2 * h /\ h \in Nat \ {0}
    BY <1>9, <1>10, <2>1
  <2> QED
    BY <2>2
<1>12. scale \in Nat \ {0}
  BY <1>11
<1>13. down \in Nat /\ up \in Nat /\ down <= up /\ up <= down + 1 /\ 2 * up <= scale
  <2>1. PICK h \in Nat \ {0} : scale = 2 * h
    BY <1>11
  <2> QED
    BY <1>2, <1>3, <1>5, <2>1, HalvesAreClose, Zenon
<1> HIDE DEF up, down
<1>14. 2 * down <= scale /\ down <= up + 1
  BY <1>12, <1>13
<1>15. l \in Nat /\ u \in 0..scale
  BY <1>7, <1>12, <1>13, SeriesBounds
<1>16. u - l < b
  <2>1. PICK n \in {terms, terms + 1} : u - l <= 4 * terms + Term(down, scale, n).upper
    BY <1>7, <1>12, <1>13, <1>14, SeriesIsNarrow
  <2>2. n \in Nat /\ m <= n
    BY <1>7
  <2> DEFINE t == Term(down, scale, n).upper
  <2>3. t <= r + 1
    BY <1>7, <1>9, <1>10, <1>12, <1>13, <1>14, <2>2, LastTermIsSmall
  <2>4. t \in Nat
    <3>1. Term(down, scale, n) \in [lower : Nat, upper : Nat]
      BY <1>12, <1>13, <2>2, TermDef
    <3> QED
      BY <3>1
  <2>5. u - l <= 4 * terms + t
    BY <2>1
  <2> HIDE DEF t, u, l, r, b
  <2> QED
    BY <1>8, <1>9, <1>12, <1>15, <2>3, <2>4, <2>5
<1> HIDE DEF l, u, b
<1>17. e.upper - e.lower < PowerOfTwo(times) * b
  <2>1. u \in Nat /\ u <= scale
    BY <1>12, <1>15
  <2> QED
    BY <1>3, <1>9, <1>12, <1>15, <1>16, <2>1, SquaringsWiden
<1>18. e.upper \in Nat /\ e.lower \in Nat
  <2>1. u \in Nat
    BY <1>12, <1>15
  <2>2. e \in [lower : Nat, upper : Nat]
    BY <1>3, <1>12, <1>15, <2>1, SquaredDef
  <2> QED
    BY <2>2
<1> DEFINE p == PowerOfTwo(precision)
           d == e.upper - e.lower
           f == PowerOfTwo(times) * b
<1>19. d * p <= scale
  <2>1. p \in Nat /\ d \in Int /\ f \in Nat /\ d <= f /\ scale = f * p
    <3>1. p \in Nat
      BY PowerOfTwoDef
    <3>2. f \in Nat
      BY <1>4, <1>9
    <3>3. p * f = f * p
      <4> HIDE DEF p, f
      <4> QED
        BY <3>1, <3>2
    <3> HIDE DEF e
    <3> QED
      BY <1>10, <1>17, <1>18, <3>1, <3>2, <3>3
  <2> HIDE DEF p, d, f
  <2>2. d * p <= f * p
    BY <2>1, ProductsKeepOrder
  <2> QED
    BY <2>1, <2>2
<1> QED
  BY <1>1, <1>19 DEF IsPrecise

\* Its ArithmeticError is out of reach: risk_bound_interval always returns an
\* enclosure as narrow as it was asked for, if the exponent needs fewer halvings
\* than SpareTerms, which allows an x of 2^30.
THEOREM PrecisionIsReached ==
    ASSUME 3 <= GuardBits, NEW W, IsExponential(W), NEW x \in Exponents,
           Squarings(x) < SpareTerms, NEW precision \in Nat
    PROVE  IsPrecise(RiskBoundInterval(x, precision), precision)
<1> DEFINE e == RiskBoundInterval(x, precision)
           longest == precision + SpareTerms
<1>1. PICK t \in Nat :
        /\ 1 <= t /\ e = ExpNegInterval(x, t, precision)
        /\ IsPrecise(e, precision) \/ t = Max({LastTerms, longest})
  BY RiskBoundStops
<1>2. CASE t = Max({LastTerms, longest})
  <2>1. LastTerms \in Int /\ longest \in Int /\ Squarings(x) \in Nat /\ SpareTerms \in Nat
    BY RiskAssumption, LogarithmTypes
  <2>2. longest <= Max({LastTerms, longest})
    <3> HIDE DEF longest
    <3> QED
      BY <2>1, MinMaxOfTwo, Zenon
  <2>3. precision + Squarings(x) < t
    BY <1>2, <2>1, <2>2
  <2>4. IsPrecise(ExpNegInterval(x, t, precision), precision)
    BY <2>3, LongSeriesArePrecise
  <2> QED
    BY <1>1, <2>4
<1> QED
  BY <1>1, <1>2

\* alpha is within 2^-q of e^-x.
IsWithin(W, x, alpha, q) ==
    /\ AtMost(W, x, alpha.num * PowerOfTwo(q) + alpha.den, alpha.den * PowerOfTwo(q))
    /\ AtLeast(W, x, alpha.num * PowerOfTwo(q) - alpha.den, alpha.den * PowerOfTwo(q))

\* risk_is_satisfied raises only where alpha agrees with e^-x to 4096 bits beyond the
\* magnitude of alpha: never because its arithmetic was too coarse.
THEOREM OnlyTheValueItselfRaises ==
    ASSUME 3 <= GuardBits, NEW W, IsExponential(W), NEW x \in Exponents,
           Squarings(x) < SpareTerms, NEW alpha \in Thresholds,
           RiskIsSatisfied(x, alpha) = "raises"
    PROVE  IsWithin(W, x, alpha, FinestPrecision(alpha))
<1> DEFINE q == FinestPrecision(alpha)
           e == RiskBoundInterval(x, q)
           w == PowerOfTwo(q)
           n == alpha.num
           d == alpha.den
<1>1. /\ q \in Nat
      /\ \E p \in Nat : \/ ~IsPrecise(RiskBoundInterval(x, p), p)
                        \/ p = q /\ ~IsBelow(e, alpha) /\ ~IsAbove(e, alpha)
  BY TestStops
<1> HIDE DEF q
<1>2. IsPrecise(e, q) /\ ~IsBelow(e, alpha) /\ ~IsAbove(e, alpha)
  BY <1>1, PrecisionIsReached
<1>3. Encloses(W, x, e)
  BY <1>1, RiskBoundEncloses
<1>4. w \in Nat \ {0} /\ n \in Nat /\ d \in Nat \ {0}
  BY <1>1, PowerOfTwoDef DEF Thresholds
<1> HIDE DEF e
<1> DEFINE l == e.lower
           u == e.upper
           s == e.scale
<1>5. /\ l \in Nat /\ u \in Nat /\ s \in Nat \ {0}
      /\ AtLeast(W, x, l, s) /\ AtMost(W, x, u, s)
  BY <1>3 DEF Encloses
<1>6. (u - l) * w <= s /\ n * s < u * d /\ l * d <= n * s
  <2>1. ~(u * d <= n * s) /\ ~(l * d > n * s)
    BY <1>2 DEF IsBelow, IsAbove
  <2>2. u * d \in Int /\ n * s \in Int /\ l * d \in Int
    BY <1>4, <1>5
  <2> QED
    BY <1>2, <2>1, <2>2 DEF IsPrecise
<1> HIDE DEF l, u, s, w, n, d
<1>7. /\ u * (d * w) <= (n * w + d) * s
      /\ (n * w - d) * s <= l * (d * w)
  <2>1. (u * d) * w <= (l * d) * w + s * d
    <3>1. ((u - l) * w) * d <= s * d
      <4>1. (u - l) * w \in Int
        BY <1>4, <1>5
      <4> QED
        BY <1>4, <1>5, <1>6, <4>1, ProductsKeepOrder
    <3>2. ((u - l) * w) * d = (u * d) * w - (l * d) * w /\ {(u * d) * w, (l * d) * w, s * d} \subseteq Int
      BY <1>4, <1>5
    <3> QED
      BY <3>1, <3>2
  <2>2. (n * s) * w <= (u * d) * w /\ (l * d) * w <= (n * s) * w
    <3>1. n * s \in Int /\ u * d \in Int /\ l * d \in Int
      BY <1>4, <1>5
    <3>2. n * s <= u * d
      BY <1>6, <3>1
    <3> QED
      BY <1>4, <1>6, <3>1, <3>2, ProductsKeepOrder
  <2>3. /\ u * (d * w) = (u * d) * w /\ l * (d * w) = (l * d) * w
        /\ (n * w + d) * s = (n * s) * w + s * d /\ (n * w - d) * s = (n * s) * w - s * d
        /\ {(u * d) * w, (l * d) * w, (n * s) * w, s * d} \subseteq Int
    BY <1>4, <1>5
  <2> QED
    BY <2>1, <2>2, <2>3
<1>8. /\ d * w \in Nat \ {0} /\ n * w + d \in Int /\ n * w - d \in Int
      /\ x.num * x.den <= x.num * x.den
  <2>1. x.num \in Nat /\ x.den \in Nat
    BY DEF Exponents
  <2> QED
    BY <1>4, <2>1
<1>9. AtMost(W, x, n * w + d, d * w) /\ AtLeast(W, x, n * w - d, d * w)
  <2> DEFINE up == n * w + d
             down == n * w - d
             den == d * w
  <2>1. up \in Int /\ down \in Int /\ den \in Nat \ {0} /\ u * den <= up * s /\ down * s <= l * den
    BY <1>7, <1>8
  <2> HIDE DEF up, down, den
  <2>2. AtMost(W, x, up, den)
    BY <1>5, <1>8, <2>1, HigherIsAtMost
  <2>3. AtLeast(W, x, down, den)
    BY <1>5, <1>8, <2>1, LowerIsAtLeast
  <2> QED
    BY <2>2, <2>3 DEF up, down, den
<1> QED
  BY <1>9 DEF IsWithin, q, w, n, d

------------------------------------------------------------------------------
(* The search                                                              *)

\* What risk_is_satisfied promises of the real bound.
TestsAreSound ==
    \A r \in Risks :
        /\ Least(r) \in Nat \ {0}
        /\ \A n \in Nat \ {0} : Test(r, n) \in {"yes", "no", "raises"} /\ IsRight(r, n)

\* What each phase knows of the answer.
LeastIsInReach ==
    /\ phase = "down" => Least(risk) <= upper
    /\ phase = "up" => lower < Least(risk)
    /\ phase = "bisect" => lower < Least(risk) /\ Least(risk) <= upper

SearchInvariant == TypeOK /\ risk \in Risks /\ LeastIsInReach /\ AnswersAreLeast

------------------------------------------------------------------------------

\* Half way between two numbers that are not neighbours lies a number between them.
LEMMA MidpointIsBetween ==
    ASSUME NEW a \in Nat, NEW b \in Nat, a + 1 < b
    PROVE  /\ (a + b) \div 2 \in Nat \ {0}
           /\ a < (a + b) \div 2 /\ (a + b) \div 2 < b
  OBVIOUS

LEMMA TypeInit == SearchInit => TypeOK
  BY EstimateAssumption DEF SearchInit, TypeOK, Phases

LEMMA TypeNext == TypeOK /\ [SearchNext]_searchVars => TypeOK'
  <1> SUFFICES ASSUME TypeOK, [SearchNext]_searchVars
               PROVE  TypeOK'
    OBVIOUS
  <1> USE DEF TypeOK, Phases
  <1>1. CASE TestEstimate
    <2>1. CASE Test(risk, estimate) = "yes"
      <3>1. CASE IsMinimal(estimate)
        BY <1>1, <2>1, <3>1 DEF TestEstimate, Answer
      <3>2. CASE ~IsMinimal(estimate)
        <4>1. estimate - 1 \in Nat \ {0} /\ Larger(0, estimate - 2) \in Nat
          BY <3>2 DEF IsMinimal, Larger
        <4> QED
          BY <1>1, <2>1, <3>2, <4>1 DEF TestEstimate, Raise, Search
      <3> QED
        BY <3>1, <3>2
    <2>2. CASE Test(risk, estimate) = "no"
      BY <1>1, <2>2 DEF TestEstimate, Search
    <2>3. CASE Test(risk, estimate) \notin {"yes", "no"}
      BY <1>1, <2>3 DEF TestEstimate, Raise
    <2> QED
      BY <2>1, <2>2, <2>3
  <1>2. CASE GallopDown
    <2>1. Below(2 * step) \in Nat /\ 2 * step \in Nat \ {0}
      BY DEF Below, Larger
    <2>2. CASE lower > 0 /\ Test(risk, lower) = "yes"
      BY <1>2, <2>1, <2>2 DEF GallopDown, Search
    <2>3. CASE lower > 0 /\ Test(risk, lower) = "raises"
      BY <1>2, <2>3 DEF GallopDown, Raise
    <2>4. CASE ~(lower > 0 /\ Test(risk, lower) \in {"yes", "raises"})
      BY <1>2, <2>4 DEF GallopDown, Search
    <2> QED
      BY <2>2, <2>3, <2>4
  <1>3. CASE GallopUp
    <2>1. CASE Test(risk, upper) = "no"
      BY <1>3, <2>1 DEF GallopUp, Search
    <2>2. CASE Test(risk, upper) = "yes"
      BY <1>3, <2>2 DEF GallopUp, Search
    <2>3. CASE Test(risk, upper) \notin {"yes", "no"}
      BY <1>3, <2>3 DEF GallopUp, Raise
    <2> QED
      BY <2>1, <2>2, <2>3
  <1>4. CASE Bisect
    <2> DEFINE midpoint == (lower + upper) \div 2
    <2>1. CASE ~LeavesGap
      BY <1>4, <2>1 DEF Bisect, Answer
    <2>2. CASE LeavesGap
      <3>1. midpoint \in Nat \ {0}
        BY <2>2, MidpointIsBetween DEF LeavesGap
      <3> HIDE DEF midpoint
      <3>2. \/ Search("bisect", lower, midpoint, step)
            \/ Search("bisect", midpoint, upper, step)
            \/ Raise
        BY <1>4, <2>2 DEF Bisect, midpoint
      <3> QED
        BY <3>1, <3>2 DEF Search, Raise
    <2> QED
      BY <2>1, <2>2
  <1>5. CASE UNCHANGED searchVars
    BY <1>5 DEF searchVars
  <1> QED
    BY <1>1, <1>2, <1>3, <1>4, <1>5 DEF SearchNext

\* The bounds of the search stay numbers of groups.
THEOREM SearchTypeCorrect == SearchSpec => []TypeOK
  BY TypeInit, TypeNext, PTL DEF SearchSpec

------------------------------------------------------------------------------

LEMMA SearchInvariantInit == SearchInit => SearchInvariant
  BY TypeInit DEF SearchInit, SearchInvariant, LeastIsInReach, AnswersAreLeast

LEMMA SearchInvariantNext ==
    ASSUME TestsAreSound, SearchInvariant, [SearchNext]_searchVars
    PROVE  SearchInvariant'
  <1>1. TypeOK /\ TypeOK'
    BY TypeNext DEF SearchInvariant
  <1>2. /\ Least(risk) \in Nat \ {0}
        /\ \A n \in Nat \ {0} : Test(risk, n) \in {"yes", "no", "raises"} /\ IsRight(risk, n)
    BY DEF TestsAreSound, SearchInvariant
  <1>3. risk' = risk
    BY DEF SearchNext, TestEstimate, GallopDown, GallopUp, Bisect, Answer, Raise, Search, searchVars
  <1>4. LeastIsInReach' /\ AnswersAreLeast'
    <2> USE DEF LeastIsInReach, AnswersAreLeast
    <2>1. CASE TestEstimate
      <3>1. estimate \in Nat \ {0}
        BY <1>1 DEF TypeOK
      <3>2. CASE Test(risk, estimate) = "yes"
        <4>1. Least(risk) <= estimate
          BY <1>2, <3>1, <3>2 DEF IsRight
        <4>2. CASE IsMinimal(estimate)
          <5>1. Least(risk) = estimate
            BY <1>2, <3>1, <4>1, <4>2 DEF IsMinimal, IsRight
          <5> QED
            BY <1>3, <2>1, <3>2, <4>2, <5>1 DEF TestEstimate, Answer
        <4>3. CASE ~IsMinimal(estimate)
          <5>1. estimate - 1 \in Nat \ {0}
            BY <3>1, <4>3 DEF IsMinimal
          <5>2. CASE Test(risk, estimate - 1) = "raises"
            BY <2>1, <3>2, <4>3, <5>2 DEF TestEstimate, Raise
          <5>3. CASE Test(risk, estimate - 1) # "raises"
            <6>1. Least(risk) <= estimate - 1
              BY <1>2, <4>3, <5>1, <5>3 DEF IsMinimal, IsRight
            <6> QED
              BY <1>3, <2>1, <3>2, <4>3, <5>3, <6>1 DEF TestEstimate, Search
          <5> QED
            BY <5>2, <5>3
        <4> QED
          BY <4>2, <4>3
      <3>3. CASE Test(risk, estimate) = "no"
        <4>1. estimate < Least(risk)
          BY <1>2, <3>1, <3>3 DEF IsRight
        <4> QED
          BY <1>3, <2>1, <3>3, <4>1 DEF TestEstimate, Search
      <3>4. CASE Test(risk, estimate) \notin {"yes", "no"}
        BY <2>1, <3>4 DEF TestEstimate, Raise
      <3> QED
        BY <3>2, <3>3, <3>4
    <2>2. CASE GallopDown
      <3>1. lower \in Nat /\ upper \in Nat \ {0} /\ Least(risk) <= upper
        BY <1>1, <2>2 DEF TypeOK, GallopDown, SearchInvariant
      <3>2. CASE lower > 0 /\ Test(risk, lower) = "yes"
        <4>1. Least(risk) <= lower
          BY <1>2, <3>1, <3>2 DEF IsRight
        <4> QED
          BY <1>3, <2>2, <3>2, <4>1 DEF GallopDown, Search
      <3>3. CASE lower > 0 /\ Test(risk, lower) = "raises"
        BY <2>2, <3>3 DEF GallopDown, Raise
      <3>4. CASE ~(lower > 0 /\ Test(risk, lower) \in {"yes", "raises"})
        <4>1. lower < Least(risk)
          BY <1>2, <3>1, <3>4 DEF IsRight
        <4> QED
          BY <1>3, <2>2, <3>1, <3>4, <4>1 DEF GallopDown, Search
      <3> QED
        BY <3>2, <3>3, <3>4
    <2>3. CASE GallopUp
      <3>1. upper \in Nat \ {0} /\ lower < Least(risk)
        BY <1>1, <2>3 DEF TypeOK, GallopUp, SearchInvariant
      <3>2. CASE Test(risk, upper) = "no"
        <4>1. upper < Least(risk)
          BY <1>2, <3>1, <3>2 DEF IsRight
        <4> QED
          BY <1>3, <2>3, <3>2, <4>1 DEF GallopUp, Search
      <3>3. CASE Test(risk, upper) = "yes"
        <4>1. Least(risk) <= upper
          BY <1>2, <3>1, <3>3 DEF IsRight
        <4> QED
          BY <1>3, <2>3, <3>1, <3>3, <4>1 DEF GallopUp, Search
      <3>4. CASE Test(risk, upper) \notin {"yes", "no"}
        BY <2>3, <3>4 DEF GallopUp, Raise
      <3> QED
        BY <3>2, <3>3, <3>4
    <2>4. CASE Bisect
      <3> DEFINE midpoint == (lower + upper) \div 2
      <3>1. /\ lower \in Nat /\ upper \in Nat \ {0}
            /\ lower < Least(risk) /\ Least(risk) <= upper
        BY <1>1, <2>4 DEF TypeOK, Bisect, SearchInvariant
      <3>2. CASE ~LeavesGap
        <4>1. Least(risk) = upper
          BY <1>2, <3>1, <3>2 DEF LeavesGap
        <4> QED
          BY <1>3, <2>4, <3>2, <4>1 DEF Bisect, Answer
      <3>3. CASE LeavesGap
        <4>1. midpoint \in Nat \ {0}
          BY <3>1, <3>3, MidpointIsBetween DEF LeavesGap
        <4> HIDE DEF midpoint
        <4>2. CASE Test(risk, midpoint) = "yes"
          <5>1. Least(risk) <= midpoint
            BY <1>2, <4>1, <4>2 DEF IsRight
          <5>2. Search("bisect", lower, midpoint, step)
            BY <2>4, <3>3, <4>2 DEF Bisect, midpoint
          <5> QED
            BY <1>3, <3>1, <5>1, <5>2 DEF Search
        <4>3. CASE Test(risk, midpoint) = "no"
          <5>1. midpoint < Least(risk)
            BY <1>2, <4>1, <4>3 DEF IsRight
          <5>2. Search("bisect", midpoint, upper, step)
            BY <2>4, <3>3, <4>3 DEF Bisect, midpoint
          <5> QED
            BY <1>3, <3>1, <5>1, <5>2 DEF Search
        <4>4. CASE Test(risk, midpoint) \notin {"yes", "no"}
          <5>1. Raise
            BY <2>4, <3>3, <4>4 DEF Bisect, midpoint
          <5> QED
            BY <5>1 DEF Raise
        <4> QED
          BY <4>2, <4>3, <4>4
      <3> QED
        BY <3>2, <3>3
    <2>5. CASE UNCHANGED searchVars
      BY <2>5 DEF searchVars, SearchInvariant
    <2> QED
      BY <2>1, <2>2, <2>3, <2>4, <2>5 DEF SearchNext
  <1> QED
    BY <1>1, <1>3, <1>4 DEF SearchInvariant

\* What required_groups returns is the smallest sample whose risk is within alpha,
\* wherever the logarithm put the estimate, as long as tests that decide are right.
THEOREM SearchIsExact ==
    ASSUME TestsAreSound
    PROVE  SearchSpec => []AnswersAreLeast
  <1>1. SearchInvariant /\ [SearchNext]_searchVars => SearchInvariant'
    BY SearchInvariantNext
  <1>2. SearchInvariant => AnswersAreLeast
    BY DEF SearchInvariant
  <1> QED
    BY SearchInvariantInit, <1>1, <1>2, PTL DEF SearchSpec

------------------------------------------------------------------------------
(* The course of the search                                                *)

\* How the bounds move before the search bisects: down in steps that double (the
\* first lower bound comes up twice), or up, and never past twice the answer.
SearchCourse ==
    /\ phase = "down" =>
          /\ lower <= upper /\ upper < estimate
          /\ step = 1 => lower < upper
          /\ lower > 0 => lower = estimate - (IF step = 1 THEN 2 ELSE step)
    /\ phase = "up" => lower < upper /\ upper = estimate + step /\ upper <= 2 * Least(risk)
    /\ upper <= Larger(estimate, 2 * Least(risk))
    /\ estimate \in Estimates

LEMMA SearchCourseInit ==
    ASSUME TestsAreSound
    PROVE  SearchInit => SearchCourse
<1> SUFFICES ASSUME SearchInit PROVE SearchCourse
  OBVIOUS
<1>1. /\ phase = "estimate" /\ upper = estimate /\ estimate \in Estimates /\ estimate \in Nat \ {0}
      /\ Least(risk) \in Nat
  BY EstimateAssumption DEF SearchInit, TestsAreSound
<1>2. upper <= Larger(estimate, 2 * Least(risk))
  BY <1>1 DEF Larger
<1> QED
  BY <1>1, <1>2 DEF SearchCourse

LEMMA SearchCourseNext ==
    ASSUME TestsAreSound, SearchInvariant, SearchCourse, [SearchNext]_searchVars
    PROVE  SearchCourse'
<1>1. /\ lower \in Nat /\ upper \in Nat \ {0} /\ step \in Nat \ {0} /\ estimate \in Nat \ {0}
      /\ risk \in Risks /\ Least(risk) \in Nat \ {0}
      /\ \A n \in Nat \ {0} : IsRight(risk, n)
  BY DEF SearchInvariant, TypeOK, TestsAreSound
<1>2. risk' = risk /\ estimate' = estimate /\ estimate \in Estimates
  BY DEF SearchNext, TestEstimate, GallopDown, GallopUp, Bisect, Answer, Raise, Search, searchVars, SearchCourse
<1> DEFINE far == Larger(estimate, 2 * Least(risk))
<1>3. upper <= far /\ estimate <= far /\ 2 * Least(risk) <= far /\ far' = far /\ far \in Nat
  <2>1. upper <= far /\ far' = far
    BY <1>2 DEF SearchCourse
  <2> QED
    BY <1>1, <2>1 DEF Larger
<1> HIDE DEF far
<1>4. SUFFICES /\ phase' = "down" =>
                     /\ lower' <= upper' /\ upper' < estimate
                     /\ step' = 1 => lower' < upper'
                     /\ lower' > 0 => lower' = estimate - (IF step' = 1 THEN 2 ELSE step')
               /\ phase' = "up" =>
                     lower' < upper' /\ upper' = estimate + step' /\ upper' <= 2 * Least(risk)
               /\ upper' <= far
  BY <1>2, <1>3 DEF SearchCourse, far
<1>5. CASE TestEstimate
  <2>1. CASE Answer(estimate) \/ Raise
    BY <1>1, <1>3, <1>5, <2>1 DEF TestEstimate, Answer, Raise
  <2>2. CASE Search("down", Larger(0, estimate - 2), estimate - 1, 1) /\ ~IsMinimal(estimate)
    <3>1. estimate - 1 \in Nat \ {0}
      BY <1>1, <2>2 DEF IsMinimal
    <3>2. phase' = "down" /\ lower' = Larger(0, estimate - 2) /\ upper' = estimate - 1 /\ step' = 1
      BY <2>2 DEF Search
    <3> QED
      BY <1>1, <1>3, <3>1, <3>2 DEF Larger
  <2>3. CASE Search("up", estimate, estimate + 1, 1) /\ Test(risk, estimate) = "no"
    <3>1. estimate < Least(risk)
      BY <1>1, <2>3 DEF IsRight
    <3> QED
      BY <1>1, <1>3, <2>3, <3>1 DEF Search
  <2> QED
    BY <1>5, <2>1, <2>2, <2>3 DEF TestEstimate
<1>6. CASE GallopDown
  <2>1. CASE lower > 0 /\ Search("down", Below(2 * step), lower, 2 * step)
    <3>1. /\ phase' = "down" /\ upper' = lower /\ step' = 2 * step
          /\ lower' = Larger(0, estimate - 2 * step)
      BY <2>1 DEF Search, Below
    <3>2. lower <= upper /\ upper < estimate /\ lower = estimate - (IF step = 1 THEN 2 ELSE step)
      BY <1>6, <2>1 DEF GallopDown, SearchCourse
    <3> QED
      BY <1>1, <1>3, <2>1, <3>1, <3>2 DEF Larger
  <2>2. CASE Raise \/ Search("bisect", lower, upper, step)
    BY <1>1, <1>3, <2>2 DEF Raise, Search
  <2> QED
    BY <1>6, <2>1, <2>2 DEF GallopDown
<1>7. CASE GallopUp
  <2>1. CASE Search("up", upper, estimate + 2 * step, 2 * step) /\ Test(risk, upper) = "no"
    <3>1. upper < Least(risk) /\ upper = estimate + step
      BY <1>1, <1>7, <2>1 DEF IsRight, GallopUp, SearchCourse
    <3> QED
      BY <1>1, <1>3, <2>1, <3>1 DEF Search
  <2>2. CASE Raise \/ Search("bisect", lower, upper, step)
    BY <1>1, <1>3, <2>2 DEF Raise, Search
  <2> QED
    BY <1>7, <2>1, <2>2 DEF GallopUp
<1>8. CASE Bisect
  <2> DEFINE midpoint == (lower + upper) \div 2
  <2>1. CASE Answer(upper) \/ Raise \/ Search("bisect", midpoint, upper, step)
    BY <1>1, <1>3, <1>8, <2>1 DEF Answer, Raise, Search, Bisect
  <2>2. CASE Search("bisect", lower, midpoint, step) /\ LeavesGap
    <3>1. midpoint \in Nat /\ midpoint < upper
      BY <1>1, <2>2, MidpointIsBetween DEF LeavesGap
    <3> QED
      BY <1>1, <1>3, <2>2, <3>1 DEF Search
  <2> QED
    BY <1>8, <2>1, <2>2 DEF Bisect
<1>9. CASE UNCHANGED searchVars
  BY <1>3, <1>9 DEF searchVars, SearchCourse
<1> QED
  BY <1>5, <1>6, <1>7, <1>8, <1>9 DEF SearchNext

\* How far the search has come, and what is left of its phase.
Stage(p) == CASE p = "estimate" -> 0 [] p \in {"down", "up"} -> 1 [] p = "bisect" -> 2 [] OTHER -> 3

Distance ==
    CASE phase = "down" -> lower + upper
      [] phase = "up" -> Least(risk) - lower
      [] phase = "bisect" -> upper - lower
      [] OTHER -> 0

\* A step ends its phase, or leaves less of it.
GetsCloser ==
    \/ Stage(phase) < Stage(phase')
    \/ phase' = phase /\ Distance' < Distance /\ Distance' \in Nat

LEMMA StepsGetCloser ==
    ASSUME TestsAreSound, SearchInvariant, SearchCourse, SearchInvariant', SearchCourse', SearchNext
    PROVE  GetsCloser
<1>1. /\ lower \in Nat /\ upper \in Nat \ {0} /\ step \in Nat \ {0} /\ estimate \in Nat \ {0}
      /\ lower' \in Nat /\ upper' \in Nat \ {0}
      /\ risk \in Risks /\ Least(risk) \in Nat \ {0}
  BY DEF SearchInvariant, TypeOK, TestsAreSound
<1>2. risk' = risk /\ estimate' = estimate
  BY DEF SearchNext, TestEstimate, GallopDown, GallopUp, Bisect, Answer, Raise, Search
<1>3. CASE TestEstimate
  BY <1>3 DEF TestEstimate, Answer, Raise, Search, GetsCloser, Stage
<1>4. CASE GallopDown
  <2>1. CASE lower > 0 /\ Search("down", Below(2 * step), lower, 2 * step)
    <3>1. /\ phase = "down" /\ phase' = "down" /\ upper' = lower
          /\ lower' = Larger(0, estimate - 2 * step)
      BY <1>4, <2>1 DEF Search, Below, GallopDown
    <3>2. /\ lower <= upper /\ (step = 1 => lower < upper)
          /\ lower = estimate - (IF step = 1 THEN 2 ELSE step)
      BY <2>1, <3>1 DEF SearchCourse
    <3>3. lower' + upper' < lower + upper
      BY <1>1, <2>1, <3>1, <3>2 DEF Larger
    <3> QED
      BY <1>1, <3>1, <3>3 DEF GetsCloser, Distance
  <2>2. CASE Raise \/ Search("bisect", lower, upper, step)
    BY <1>4, <2>2 DEF Raise, Search, GallopDown, GetsCloser, Stage
  <2> QED
    BY <1>4, <2>1, <2>2 DEF GallopDown
<1>5. CASE GallopUp
  <2>1. CASE Search("up", upper, estimate + 2 * step, 2 * step) /\ Test(risk, upper) = "no"
    <3>1. phase = "up" /\ phase' = "up" /\ lower' = upper
      BY <1>5, <2>1 DEF GallopUp, Search
    <3>2. lower < upper /\ lower' < Least(risk)
      BY <1>2, <3>1 DEF SearchCourse, SearchInvariant, LeastIsInReach
    <3>3. Least(risk) - lower' < Least(risk) - lower /\ Least(risk) - lower' \in Nat
      BY <1>1, <3>1, <3>2
    <3> QED
      BY <1>2, <3>1, <3>3 DEF GetsCloser, Distance
  <2>2. CASE Raise \/ Search("bisect", lower, upper, step)
    BY <1>5, <2>2 DEF Raise, Search, GallopUp, GetsCloser, Stage
  <2> QED
    BY <1>5, <2>1, <2>2 DEF GallopUp
<1>6. CASE Bisect
  <2> DEFINE midpoint == (lower + upper) \div 2
  <2>1. CASE Answer(upper) \/ Raise
    BY <1>6, <2>1 DEF Answer, Raise, Bisect, GetsCloser, Stage
  <2>2. CASE /\ LeavesGap
             /\ Search("bisect", midpoint, upper, step) \/ Search("bisect", lower, midpoint, step)
    <3>1. midpoint \in Nat /\ lower < midpoint /\ midpoint < upper
      BY <1>1, <2>2, MidpointIsBetween DEF LeavesGap
    <3>2. /\ phase = "bisect" /\ phase' = "bisect"
          /\ (lower' = midpoint /\ upper' = upper) \/ (lower' = lower /\ upper' = midpoint)
      BY <1>6, <2>2 DEF Bisect, Search
    <3>3. PICK m \in Nat :
            /\ lower < m /\ m < upper
            /\ (lower' = m /\ upper' = upper) \/ (lower' = lower /\ upper' = m)
      BY <3>1, <3>2
    <3>4. upper' - lower' < upper - lower /\ upper' - lower' \in Nat
      <4>1. CASE lower' = m /\ upper' = upper
        BY <1>1, <3>3, <4>1
      <4>2. CASE lower' = lower /\ upper' = m
        BY <1>1, <3>3, <4>2
      <4> QED
        BY <3>3, <4>1, <4>2
    <3> QED
      BY <3>2, <3>4 DEF GetsCloser, Distance
  <2> QED
    BY <1>6, <2>1, <2>2 DEF Bisect
<1> QED
  BY <1>3, <1>4, <1>5, <1>6 DEF SearchNext

\* The search cannot go round in circles: every step ends its phase or brings the
\* bounds closer to what ends it, although galloping down tests one bound twice.
THEOREM SearchGetsCloser ==
    ASSUME TestsAreSound
    PROVE  SearchSpec => [][GetsCloser]_searchVars
<1> DEFINE Inv == SearchInvariant /\ SearchCourse
<1>1. SearchInit => Inv
  BY SearchInvariantInit, SearchCourseInit
<1>2. Inv /\ [SearchNext]_searchVars => Inv'
  BY SearchInvariantNext, SearchCourseNext
<1>3. Inv /\ Inv' /\ [SearchNext]_searchVars => [GetsCloser]_searchVars
  BY StepsGetCloser
<1> QED
  BY <1>1, <1>2, <1>3, PTL DEF SearchSpec

\* The tests that a search may ask for decide.
TestsDecide ==
    \A r \in Risks, first \in Estimates :
        \A n \in 1..Larger(first, 2 * Least(r)) : Test(r, n) # "raises"

\* The search asks for no sample beyond its estimate and twice the answer, and so
\* ends with an answer if the tests up to there decide.
THEOREM SearchNeverRaises ==
    ASSUME TestsAreSound, TestsDecide
    PROVE  SearchSpec => [](phase # "raised")
<1> DEFINE Inv == SearchInvariant /\ SearchCourse /\ phase # "raised"
<1>1. SearchInit => Inv
  BY SearchInvariantInit, SearchCourseInit DEF SearchInit
<1>2. ASSUME Inv, SearchNext PROVE phase' # "raised"
  <2>1. /\ lower \in Nat /\ upper \in Nat \ {0} /\ estimate \in Nat \ {0}
        /\ risk \in Risks /\ Least(risk) \in Nat \ {0} /\ estimate \in Estimates
    BY <1>2 DEF SearchInvariant, SearchCourse, TypeOK, TestsAreSound
  <2> DEFINE far == Larger(estimate, 2 * Least(risk))
  <2>2. upper <= far /\ estimate <= far /\ far \in Nat
    BY <1>2, <2>1 DEF SearchCourse, Larger
  <2>3. \A n \in 1..far : Test(risk, n) \in {"yes", "no"}
    BY <2>1, <2>2 DEF TestsDecide, TestsAreSound
  <2> HIDE DEF far
  <2>4. CASE TestEstimate
    <3>1. Test(risk, estimate) \in {"yes", "no"}
      BY <2>1, <2>2, <2>3
    <3>2. CASE ~IsMinimal(estimate)
      <4>1. estimate - 1 \in 1..far
        BY <2>1, <2>2, <3>2 DEF IsMinimal
      <4>2. Test(risk, estimate - 1) # "raises"
        BY <2>3, <4>1
      <4> QED
        BY <2>4, <3>1, <3>2, <4>2 DEF TestEstimate, Search
    <3>3. CASE IsMinimal(estimate)
      BY <2>4, <3>1, <3>3 DEF TestEstimate, Answer, Search
    <3> QED
      BY <3>2, <3>3
  <2>5. CASE GallopDown
    <3>1. lower > 0 => Test(risk, lower) \in {"yes", "no"}
      <4>1. lower <= upper
        BY <1>2, <2>5 DEF SearchCourse, GallopDown
      <4> QED
        BY <2>1, <2>2, <2>3, <4>1
    <3> QED
      BY <2>5, <3>1 DEF GallopDown, Search
  <2>6. CASE GallopUp
    <3>1. Test(risk, upper) \in {"yes", "no"}
      BY <2>1, <2>2, <2>3
    <3> QED
      BY <2>6, <3>1 DEF GallopUp, Search
  <2>7. CASE Bisect
    <3> DEFINE midpoint == (lower + upper) \div 2
    <3>1. CASE LeavesGap
      <4>1. midpoint \in Nat \ {0} /\ midpoint < upper
        BY <2>1, <3>1, MidpointIsBetween DEF LeavesGap
      <4>2. Test(risk, midpoint) \in {"yes", "no"}
        <5> HIDE DEF midpoint
        <5> QED
          BY <2>1, <2>2, <2>3, <4>1
      <4> QED
        BY <2>7, <3>1, <4>2 DEF Bisect, Search
    <3>2. CASE ~LeavesGap
      BY <2>7, <3>2 DEF Bisect, Answer
    <3> QED
      BY <3>1, <3>2
  <2> QED
    BY <1>2, <2>4, <2>5, <2>6, <2>7 DEF SearchNext
<1>3. Inv /\ [SearchNext]_searchVars => Inv'
  <2>1. ASSUME Inv, UNCHANGED searchVars PROVE phase' # "raised"
    BY <2>1 DEF searchVars
  <2> QED
    BY <1>2, <2>1, SearchInvariantNext, SearchCourseNext
<1>4. Inv => phase # "raised"
  OBVIOUS
<1> QED
  BY <1>1, <1>3, <1>4, PTL DEF SearchSpec

------------------------------------------------------------------------------
(* The search over the tests of RiskBound                                  *)

\* A risk is half the square of epsilon + gamma, and alpha.  Its tests are those
\* of risk_is_satisfied, and its least number of groups is the first that brings
\* e^-x down to alpha.
RisksAreTested(W) ==
    \A r \in Risks :
        /\ r.rate \in Exponents /\ r.alpha \in Thresholds
        /\ \A n \in Nat \ {0} : Test(r, n) = RiskIsSatisfied(Exponent(r.rate, n), r.alpha)
        /\ Least(r) \in Nat \ {0}
        /\ AtMost(W, Exponent(r.rate, Least(r)), r.alpha.num, r.alpha.den)
        /\ \A n \in Nat \ {0} :
              n < Least(r) => ~AtMost(W, Exponent(r.rate, n), r.alpha.num, r.alpha.den)

\* More groups have no larger risk.
LEMMA RiskFalls ==
    ASSUME NEW W, IsExponential(W), NEW rate \in Exponents, NEW alpha \in Thresholds,
           NEW n \in Nat, NEW m \in Nat, n <= m,
           AtMost(W, Exponent(rate, n), alpha.num, alpha.den)
    PROVE  AtMost(W, Exponent(rate, m), alpha.num, alpha.den)
<1> DEFINE x == Exponent(rate, n)
           y == Exponent(rate, m)
<1>1. rate.num \in Nat /\ rate.den \in Nat \ {0} /\ alpha.num \in Nat /\ alpha.den \in Nat \ {0}
  BY DEF Exponents, Thresholds
<1>2. n * rate.num \in Nat /\ m * rate.num \in Nat
  BY <1>1
<1>3. /\ x \in Exponents /\ x.num = n * rate.num /\ x.den = rate.den
      /\ y \in Exponents /\ y.num = m * rate.num /\ y.den = rate.den
  BY <1>1, <1>2 DEF Exponent, Exponents
<1> HIDE DEF x, y
<1>4. n * rate.num <= m * rate.num
  BY <1>1, ProductsKeepOrder
<1>5. x.num * y.den <= y.num * x.den
  BY <1>1, <1>2, <1>3, <1>4, ProductsKeepOrder
<1>6. alpha.num * alpha.den <= alpha.num * alpha.den
  BY <1>1
<1>7. AtMost(W, x, alpha.num, alpha.den)
  BY DEF x
<1>8. AtMost(W, y, alpha.num, alpha.den)
  BY <1>1, <1>3, <1>5, <1>6, <1>7, HigherIsAtMost
<1> QED
  BY <1>8 DEF y

LEMMA TestedIsSound ==
    ASSUME NEW W, IsExponential(W), RisksAreTested(W)
    PROVE  TestsAreSound
<1> SUFFICES ASSUME NEW r \in Risks, NEW n \in Nat \ {0}
             PROVE  /\ Least(r) \in Nat \ {0}
                    /\ Test(r, n) \in {"yes", "no", "raises"} /\ IsRight(r, n)
  BY DEF TestsAreSound, RisksAreTested
<1> DEFINE Suffice(k) == AtMost(W, Exponent(r.rate, k), r.alpha.num, r.alpha.den)
<1>1. /\ r.rate \in Exponents /\ r.alpha \in Thresholds
      /\ Test(r, n) = RiskIsSatisfied(Exponent(r.rate, n), r.alpha)
      /\ Least(r) \in Nat \ {0} /\ Suffice(Least(r))
      /\ n < Least(r) => ~Suffice(n)
  BY DEF RisksAreTested
<1>2. Exponent(r.rate, n) \in Exponents
  <2>1. r.rate.num \in Nat /\ r.rate.den \in Nat \ {0}
    BY <1>1 DEF Exponents
  <2>2. n * r.rate.num \in Nat
    BY <2>1
  <2> QED
    BY <2>1, <2>2 DEF Exponent, Exponents
<1>3. /\ Test(r, n) \in {"yes", "no", "raises"}
      /\ Test(r, n) = "yes" => Suffice(n)
      /\ Test(r, n) = "no" => ~Suffice(n)
  BY <1>1, <1>2, DecisionsAreRight
<1>4. Least(r) <= n => Suffice(n)
  BY <1>1, RiskFalls
<1> HIDE DEF Suffice
<1> QED
  BY <1>1, <1>3, <1>4 DEF IsRight

\* In every state of the search, the test of its estimate that decides is right
\* about the exponential: the enclosures never put the risk on the wrong side of
\* alpha, at any precision and for any constants of the arithmetic.
THEOREM TestsDecideRightly ==
    ASSUME NEW W, IsExponential(W), RisksAreTested(W)
    PROVE  SearchSpec => []TestsAreRight
<1>1. SearchInvariant => TestsAreRight
  BY TestedIsSound DEF SearchInvariant, TypeOK, TestsAreSound, TestsAreRight
<1>2. SearchInvariant /\ [SearchNext]_searchVars => SearchInvariant'
  BY TestedIsSound, SearchInvariantNext
<1> QED
  BY SearchInvariantInit, <1>1, <1>2, PTL DEF SearchSpec

\* What required_groups returns is the first number of groups whose exponential is
\* at most alpha, from the first rounded division to the last bisection.
THEOREM RequiredGroupsAreLeast ==
    ASSUME NEW W, IsExponential(W), RisksAreTested(W)
    PROVE  SearchSpec => []AnswersAreLeast
<1>1. SearchInvariant => AnswersAreLeast
  BY DEF SearchInvariant
<1>2. SearchInvariant /\ [SearchNext]_searchVars => SearchInvariant'
  BY TestedIsSound, SearchInvariantNext
<1> QED
  BY SearchInvariantInit, <1>1, <1>2, PTL DEF SearchSpec

\* The arithmetic suffices for every test that a search may ask for: few enough
\* halvings, and no alpha within the finest precision of the value it is compared to.
RisksAreTellable(W) ==
    \A r \in Risks, first \in Estimates : \A n \in 1..Larger(first, 2 * Least(r)) :
        /\ Squarings(Exponent(r.rate, n)) < SpareTerms
        /\ ~IsWithin(W, Exponent(r.rate, n), r.alpha, FinestPrecision(r.alpha))

\* So required_groups never raises: it answers, and rightly (RequiredGroupsAreLeast),
\* whatever the number of terms and the precision that it takes.
THEOREM RequiredGroupsNeverRaises ==
    ASSUME 3 <= GuardBits, NEW W, IsExponential(W), RisksAreTested(W), RisksAreTellable(W)
    PROVE  SearchSpec => [](phase # "raised")
<1>1. TestsAreSound
  BY TestedIsSound
<1>2. TestsDecide
  <2> SUFFICES ASSUME NEW r \in Risks, NEW first \in Estimates,
                      NEW n \in 1..Larger(first, 2 * Least(r)), Test(r, n) = "raises"
               PROVE  FALSE
    BY DEF TestsDecide
  <2>1. /\ r.rate \in Exponents /\ r.alpha \in Thresholds
        /\ Test(r, n) = RiskIsSatisfied(Exponent(r.rate, n), r.alpha)
    BY DEF RisksAreTested
  <2>2. Exponent(r.rate, n) \in Exponents
    <3>1. r.rate.num \in Nat /\ r.rate.den \in Nat \ {0} /\ n \in Nat
      BY <2>1 DEF Exponents
    <3>2. n * r.rate.num \in Nat
      BY <3>1
    <3> QED
      BY <3>1, <3>2 DEF Exponent, Exponents
  <2>3. IsWithin(W, Exponent(r.rate, n), r.alpha, FinestPrecision(r.alpha))
    BY <2>1, <2>2, OnlyTheValueItselfRaises DEF RisksAreTellable
  <2> QED
    BY <2>3 DEF RisksAreTellable
<1> QED
  BY <1>1, <1>2, SearchNeverRaises

\* The reference is the exponential of the sample size that is tested, rounded down.
ReferenceIsRight(W) ==
    /\ ReferenceUnits \in Nat \ {0}
    /\ \A r \in Risks, n \in Nat \ {0} :
          LET x == Exponent(r.rate, n)
          IN  /\ x \in Exponents /\ Reference(x) \in Nat
              /\ AtLeast(W, x, Reference(x), ReferenceUnits)
              /\ AtMost(W, x, Reference(x) + 1, ReferenceUnits)

\* In every state of the search, the enclosures of its estimate hold the value of
\* the table, for any table that rounds the exponential down and any constants.
THEOREM ReferenceIsEnclosed ==
    ASSUME NEW W, IsExponential(W), ReferenceIsRight(W)
    PROVE  SearchSpec => []EnclosuresHold
<1>1. SearchInit => TypeOK /\ risk \in Risks
  BY TypeInit DEF SearchInit
<1>2. TypeOK /\ risk \in Risks /\ [SearchNext]_searchVars => (TypeOK /\ risk \in Risks)'
  <2>1. [SearchNext]_searchVars => risk' = risk
    BY DEF SearchNext, TestEstimate, GallopDown, GallopUp, Bisect, Answer, Raise, Search, searchVars
  <2> QED
    BY <2>1, TypeNext
<1>3. TypeOK /\ risk \in Risks => EnclosuresHold
  <2> SUFFICES ASSUME TypeOK, risk \in Risks,
                      NEW terms \in FirstTerms..LastTerms,
                      NEW precision \in FirstPrecision..ReferencePrecision
               PROVE  LET x == Exponent(risk.rate, estimate)
                          e == ExpNegInterval(x, terms, precision)
                      IN  /\ e.lower * ReferenceUnits <= (Reference(x) + 1) * e.scale
                          /\ e.upper * ReferenceUnits >= Reference(x) * e.scale
    BY DEF EnclosuresHold
  <2> DEFINE x == Exponent(risk.rate, estimate)
             e == ExpNegInterval(x, terms, precision)
  <2>1. /\ x \in Exponents /\ Reference(x) \in Nat /\ ReferenceUnits \in Nat \ {0}
        /\ AtLeast(W, x, Reference(x), ReferenceUnits)
        /\ AtMost(W, x, Reference(x) + 1, ReferenceUnits)
    BY DEF ReferenceIsRight, TypeOK
  <2> HIDE DEF x
  <2>2. terms \in Nat /\ 1 <= terms /\ precision \in Nat
    BY RiskAssumption
  <2>3. Encloses(W, x, e)
    BY <2>1, <2>2, EnclosuresAreSound
  <2> HIDE DEF e
  <2>4. /\ e.lower \in Nat /\ e.upper \in Nat /\ e.scale \in Nat \ {0}
        /\ AtLeast(W, x, e.lower, e.scale) /\ AtMost(W, x, e.upper, e.scale)
    BY <2>3 DEF Encloses
  <2>5. e.lower * ReferenceUnits <= (Reference(x) + 1) * e.scale
    BY <2>1, <2>4 DEF AtLeast
  <2>6. Reference(x) * e.scale <= e.upper * ReferenceUnits
    BY <2>1, <2>4 DEF AtLeast
  <2> QED
    BY <2>1, <2>4, <2>5, <2>6 DEF x, e
<1> QED
  BY <1>1, <1>2, <1>3, PTL DEF SearchSpec
================================================================================

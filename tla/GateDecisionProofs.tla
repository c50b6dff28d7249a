--------------------------- MODULE GateDecisionProofs ---------------------------
(***************************************************************************)
(* The gate's decision on rounded losses is right within a quantum, for    *)
(* probes of any size, any class weights and any quantum, proved with      *)
(* TLAPS.                                                                  *)
(***************************************************************************)
EXTENDS GateDecision, DataLemmas, SequenceTheorems, TLAPS

------------------------------------------------------------------------------
(* Totals and products of sequences                                        *)

\* f holds the totals of the first values, up to n of them.
AreTotals(f, values, n) == f = [k \in 0..n |-> IF k = 0 THEN 0 ELSE f[k - 1] + values[k]]

LEMMA TotalDef ==
    ASSUME NEW values, Len(values) \in Nat
    PROVE  \E f : AreTotals(f, values, Len(values)) /\ Total(values) = f[Len(values)]
<1> DEFINE Bad == {n \in Nat : \A f : ~AreTotals(f, values, n)}
<1>1. Bad = {}
  <2> SUFFICES ASSUME Bad # {} PROVE FALSE
    OBVIOUS
  <2>1. PICK n \in Bad : \A m \in Bad : n <= m
    <3>1. Bad \in SUBSET Nat
      OBVIOUS
    <3> HIDE DEF Bad
    <3> QED
      BY <3>1, LeastNumber
  <2>2. n # 0
    <3>1. AreTotals([k \in 0..0 |-> 0], values, 0)
      BY DEF AreTotals
    <3> QED
      BY <3>1
  <2>3. PICK g : AreTotals(g, values, n - 1)
    <3>1. n - 1 \in Nat /\ n - 1 \notin Bad
      BY <2>1, <2>2
    <3> QED
      BY <3>1
  <2> DEFINE f == [k \in 0..n |-> IF k = n THEN g[n - 1] + values[n] ELSE g[k]]
  <2>4. AreTotals(f, values, n)
    <3>1. ASSUME NEW k \in 0..n
          PROVE  f[k] = IF k = 0 THEN 0 ELSE f[k - 1] + values[k]
      BY <2>2, <2>3 DEF AreTotals
    <3> QED
      BY <3>1 DEF AreTotals
  <2> QED
    BY <2>4
<1> DEFINE total == CHOOSE f : AreTotals(f, values, Len(values))
<1>2. AreTotals(total, values, Len(values))
  <2>1. \E f : AreTotals(f, values, Len(values))
    BY <1>1
  <2> QED
    BY <2>1
<1>3. Total(values) = total[Len(values)]
  BY Zenon DEF Total, AreTotals
<1> QED
  BY <1>2, <1>3

LEMMA TotalsStep ==
    ASSUME NEW values, NEW n \in Nat, NEW f, AreTotals(f, values, n)
    PROVE  f[0] = 0 /\ \A k \in 1..n : f[k] = f[k - 1] + values[k]
  BY DEF AreTotals

\* Totals of integers are integers.
LEMMA TotalsAreInt ==
    ASSUME NEW values, NEW n \in Nat, \A i \in 1..n : values[i] \in Int,
           NEW f, AreTotals(f, values, n)
    PROVE  \A k \in 0..n : f[k] \in Int
<1> DEFINE Bad == {k \in 0..n : f[k] \notin Int}
<1> SUFFICES ASSUME Bad # {} PROVE FALSE
  OBVIOUS
<1>1. PICK k \in Bad : \A m \in Bad : k <= m
  <2>1. Bad \in SUBSET Nat
    OBVIOUS
  <2> HIDE DEF Bad
  <2> QED
    BY <2>1, LeastNumber
<1>2. k \in 1..n /\ k - 1 \in 0..n
  BY <1>1 DEF AreTotals
<1>3. f[k - 1] \in Int
  BY <1>1, <1>2
<1> QED
  BY <1>1, <1>2, <1>3 DEF AreTotals

LEMMA TotalIsInt ==
    ASSUME NEW values, Len(values) \in Nat, \A i \in 1..Len(values) : values[i] \in Int
    PROVE  Total(values) \in Int
<1>1. PICK f : AreTotals(f, values, Len(values)) /\ Total(values) = f[Len(values)]
  BY TotalDef
<1>2. \A k \in 0..Len(values) : f[k] \in Int
  BY <1>1, TotalsAreInt
<1> QED
  BY <1>1, <1>2

\* What grows by at most c in every step grows by at most n times c in n steps.
LEMMA Growth ==
    ASSUME NEW n \in Nat, NEW d \in [0..n -> Int], NEW c \in Int, d[0] = 0,
           \A k \in 1..n : d[k] <= d[k - 1] + c
    PROVE  d[n] <= n * c
<1> DEFINE Bad == {k \in 0..n : ~(d[k] <= k * c)}
<1>1. Bad = {}
  <2> SUFFICES ASSUME Bad # {} PROVE FALSE
    OBVIOUS
  <2>1. PICK k \in Bad : \A j \in Bad : k <= j
    <3>1. Bad \in SUBSET Nat
      OBVIOUS
    <3> HIDE DEF Bad
    <3> QED
      BY <3>1, LeastNumber
  <2>2. k # 0
    BY <2>1
  <2>3. k \in 1..n /\ k - 1 \in 0..n
    BY <2>1, <2>2
  <2>4. d[k - 1] <= (k - 1) * c /\ d[k] <= d[k - 1] + c
    BY <2>1, <2>3
  <2>5. (k - 1) * c + c = k * c
    BY <2>3
  <2>6. d[k] \in Int /\ d[k - 1] \in Int /\ (k - 1) * c \in Int
    BY <2>3
  <2>7. d[k] <= k * c
    BY <2>4, <2>5, <2>6
  <2> QED
    BY <2>1, <2>7
<1>2. n \in 0..n /\ n \notin Bad
  <2> HIDE DEF Bad
  <2> QED
    BY <1>1
<1> QED
  BY <1>2

LEMMA Linear ==
    ASSUME NEW m \in Int, NEW q \in Int, NEW x \in Int, NEW y \in Int, NEW u \in Int, NEW v \in Int
    PROVE  m * (x + u) - q * (y + v) = (m * x - q * y) + (m * u - q * v)
  OBVIOUS

\* What is a bound for every pair of values is one for their totals.
LEMMA TotalsAreBounded ==
    ASSUME NEW a, NEW b, Len(a) \in Nat, Len(b) = Len(a),
           NEW m \in Int, NEW q \in Int, NEW c \in Int,
           \A i \in 1..Len(a) : a[i] \in Int /\ b[i] \in Int /\ m * a[i] - q * b[i] <= c
    PROVE  m * Total(a) - q * Total(b) <= Len(a) * c
<1> DEFINE n == Len(a)
<1>1. PICK f : AreTotals(f, a, n) /\ Total(a) = f[n]
  BY TotalDef
<1>2. PICK g : AreTotals(g, b, n) /\ Total(b) = g[n]
  BY TotalDef
<1>3. \A k \in 0..n : f[k] \in Int /\ g[k] \in Int
  BY <1>1, <1>2, TotalsAreInt
<1> DEFINE d == [k \in 0..n |-> m * f[k] - q * g[k]]
<1>4. d \in [0..n -> Int]
  BY <1>3
<1>5. d[0] = 0
  <2>1. f[0] = 0 /\ g[0] = 0
    BY <1>1, <1>2 DEF AreTotals
  <2> QED
    BY <2>1
<1>6. ASSUME NEW k \in 1..n PROVE d[k] <= d[k - 1] + c
  <2>1. k \in 0..n /\ k - 1 \in 0..n
    OBVIOUS
  <2>2. f[k] = f[k - 1] + a[k] /\ g[k] = g[k - 1] + b[k]
    BY <1>1, <1>2, TotalsStep
  <2>3. f[k - 1] \in Int /\ g[k - 1] \in Int /\ a[k] \in Int /\ b[k] \in Int
    BY <1>3, <2>1
  <2>4. d[k] = m * (f[k - 1] + a[k]) - q * (g[k - 1] + b[k])
    BY <2>1, <2>2
  <2>5. d[k] = d[k - 1] + (m * a[k] - q * b[k])
    <3>1. d[k - 1] = m * f[k - 1] - q * g[k - 1]
      BY <2>1
    <3>2. PICK x \in Int, y \in Int, u \in Int, v \in Int :
                  x = f[k - 1] /\ y = g[k - 1] /\ u = a[k] /\ v = b[k]
      BY <2>3
    <3>3. m * (x + u) - q * (y + v) = (m * x - q * y) + (m * u - q * v)
      BY Linear
    <3> HIDE DEF d
    <3> QED
      BY <2>4, <3>1, <3>2, <3>3
  <2>6. m * a[k] - q * b[k] <= c /\ m * a[k] - q * b[k] \in Int
    BY <2>3
  <2>7. d[k - 1] \in Int
    BY <1>4, <2>1
  <2> HIDE DEF d
  <2> QED
    BY <2>5, <2>6, <2>7
<1>7. d[n] <= n * c
  <2> HIDE DEF d
  <2> QED
    BY <1>4, <1>5, <1>6, Growth
<1> QED
  BY <1>1, <1>2, <1>7

\* f holds the products of the first values, up to n of them.
AreProducts(f, values, n) == f = [k \in 0..n |-> IF k = 0 THEN 1 ELSE f[k - 1] * values[k]]

LEMMA ProductDef ==
    ASSUME NEW values, Len(values) \in Nat
    PROVE  \E f : AreProducts(f, values, Len(values)) /\ Product(values) = f[Len(values)]
<1> DEFINE Bad == {n \in Nat : \A f : ~AreProducts(f, values, n)}
<1>1. Bad = {}
  <2> SUFFICES ASSUME Bad # {} PROVE FALSE
    OBVIOUS
  <2>1. PICK n \in Bad : \A m \in Bad : n <= m
    <3>1. Bad \in SUBSET Nat
      OBVIOUS
    <3> HIDE DEF Bad
    <3> QED
      BY <3>1, LeastNumber
  <2>2. n # 0
    <3>1. AreProducts([k \in 0..0 |-> 1], values, 0)
      BY DEF AreProducts
    <3> QED
      BY <3>1
  <2>3. PICK g : AreProducts(g, values, n - 1)
    <3>1. n - 1 \in Nat /\ n - 1 \notin Bad
      BY <2>1, <2>2
    <3> QED
      BY <3>1
  <2> DEFINE f == [k \in 0..n |-> IF k = n THEN g[n - 1] * values[n] ELSE g[k]]
  <2>4. AreProducts(f, values, n)
    <3>1. ASSUME NEW k \in 0..n
          PROVE  f[k] = IF k = 0 THEN 1 ELSE f[k - 1] * values[k]
      BY <2>2, <2>3 DEF AreProducts
    <3> QED
      BY <3>1 DEF AreProducts
  <2> QED
    BY <2>4
<1> DEFINE product == CHOOSE f : AreProducts(f, values, Len(values))
<1>2. AreProducts(product, values, Len(values))
  <2>1. \E f : AreProducts(f, values, Len(values))
    BY <1>1
  <2> QED
    BY <2>1
<1>3. Product(values) = product[Len(values)]
  BY Zenon DEF Product, AreProducts
<1> QED
  BY <1>2, <1>3

\* A product of positive numbers is one, and a multiple of each.
LEMMA ProductIsMultiple ==
    ASSUME NEW values, Len(values) \in Nat, \A i \in 1..Len(values) : values[i] \in Nat \ {0}
    PROVE  /\ Product(values) \in Nat \ {0}
           /\ \A i \in 1..Len(values) : \E e \in Nat \ {0} : Product(values) = e * values[i]
<1> DEFINE n == Len(values)
<1>1. PICK f : AreProducts(f, values, n) /\ Product(values) = f[n]
  BY ProductDef
<1>2. f[0] = 1 /\ \A k \in 1..n : f[k] = f[k - 1] * values[k]
  BY <1>1 DEF AreProducts
<1> DEFINE Good(k) == /\ f[k] \in Nat \ {0}
                      /\ \A i \in 1..k : \E e \in Nat \ {0} : f[k] = e * values[i]
           Bad == {k \in 0..n : ~Good(k)}
<1>3. Bad = {}
  <2> SUFFICES ASSUME Bad # {} PROVE FALSE
    OBVIOUS
  <2>1. PICK k \in Bad : \A j \in Bad : k <= j
    <3>1. Bad \in SUBSET Nat
      OBVIOUS
    <3> HIDE DEF Bad
    <3> QED
      BY <3>1, LeastNumber
  <2>2. CASE k = 0
    BY <1>2, <2>1, <2>2
  <2>3. CASE k # 0
    <3>1. k \in 1..n /\ k - 1 \in 0..n
      BY <2>1, <2>3
    <3>2. Good(k - 1)
      BY <2>1, <3>1
    <3>3. PICK x \in Nat \ {0}, v \in Nat \ {0} : x = f[k - 1] /\ v = values[k] /\ f[k] = x * v
      BY <1>2, <3>1, <3>2
    <3>4. f[k] \in Nat \ {0}
      BY <3>3
    <3>5. ASSUME NEW i \in 1..k PROVE \E e \in Nat \ {0} : f[k] = e * values[i]
      <4>1. CASE i = k
        BY <3>3, <4>1
      <4>2. CASE i # k
        <5>1. i \in 1..k - 1 /\ i \in 1..n
          BY <3>1, <4>2
        <5>2. PICK e \in Nat \ {0} : f[k - 1] = e * values[i]
          BY <3>2, <5>1
        <5>3. PICK y \in Nat \ {0} : y = values[i]
          BY <5>1
        <5>4. x * v = (e * v) * y /\ e * v \in Nat \ {0}
          <6>1. x = e * y
            BY <3>3, <5>2, <5>3
          <6> QED
            BY <6>1
        <5> QED
          BY <3>3, <5>3, <5>4
      <4> QED
        BY <4>1, <4>2
    <3> QED
      BY <2>1, <3>4, <3>5
  <2> QED
    BY <2>2, <2>3
<1>4. n \in 0..n /\ n \notin Bad
  <2> HIDE DEF Bad
  <2> QED
    BY <1>3
<1> QED
  BY <1>1, <1>4

------------------------------------------------------------------------------
(* Rounding                                                                *)

\* Twice the error of rounding to the nearest is at most one.
LEMMA HalfEvenIsNear ==
    ASSUME NEW num \in Nat, NEW den \in Nat \ {0}
    PROVE  /\ HalfEven(num, den) \in Int
           /\ 2 * (HalfEven(num, den) * den) - 2 * num <= den
           /\ 2 * num - 2 * (HalfEven(num, den) * den) <= den
<1>1. PICK below \in Nat, rest \in 0..den - 1 :
         below = num \div den /\ rest = num % den /\ num = den * below + rest
  BY Division
<1>2. HalfEven(num, den) \in {below, below + 1}
  BY <1>1 DEF HalfEven
<1>3. 2 * rest <= den \/ HalfEven(num, den) = below + 1
  BY <1>1 DEF HalfEven
<1>4. 2 * rest >= den \/ HalfEven(num, den) = below
  BY <1>1 DEF HalfEven
<1>5. CASE HalfEven(num, den) = below
  <2>1. HalfEven(num, den) * den = num - rest /\ 2 * rest <= den
    BY <1>1, <1>3, <1>5
  <2> QED
    BY <1>1, <1>5, <2>1
<1>6. CASE HalfEven(num, den) = below + 1
  <2>1. (below + 1) * den = num - rest + den /\ 2 * rest >= den
    BY <1>1, <1>4, <1>6
  <2> QED
    BY <1>1, <1>6, <2>1
<1> QED
  BY <1>2, <1>5, <1>6

------------------------------------------------------------------------------
(* The loss of a group                                                     *)

IsGroup(group) == group \in Seq(ScoredRows) /\ Len(group) \in Nat \ {0}

LEMMA WeightTypes ==
    ASSUME DecisionInit
    PROVE  /\ weights[0] \in Nat \ {0} /\ weights[1] \in Nat \ {0}
           /\ Grid \in Nat \ {0} /\ Quanta \in Nat \ {0}
           /\ Square(Grid) \in Nat \ {0} /\ Square(Grid) = Grid * Grid
<1>1. weights \in [{0, 1} -> Nat \ {0}]
  BY DecisionAssumption DEF DecisionInit
<1>2. weights[0] \in Nat \ {0} /\ weights[1] \in Nat \ {0}
  BY <1>1
<1>3. Grid \in Nat \ {0} /\ Quanta \in Nat \ {0}
  BY DecisionAssumption
<1>4. \A x \in Nat \ {0} : x * x \in Nat \ {0}
  OBVIOUS
<1> QED
  BY <1>2, <1>3, <1>4 DEF Square

\* A row weighs something, and its squared error is at most that of the opposite.
LEMMA RowTypes ==
    ASSUME DecisionInit, NEW row \in ScoredRows, NEW model \in {"before", "after"}
    PROVE  /\ weights[row.label] \in Nat \ {0}
           /\ Square(row[model] - Grid * row.label) \in 0..Square(Grid)
<1>1. row.label \in {0, 1} /\ row[model] \in 0..Grid
  BY DEF ScoredRows
<1>2. weights[row.label] \in Nat \ {0}
  BY <1>1, WeightTypes
<1>3. PICK x \in 0..Grid : Square(row[model] - Grid * row.label) = x * x
  <2>1. CASE row.label = 0
    <3>1. PICK x \in 0..Grid : x = row[model]
      BY <1>1
    <3>2. Grid \in Nat /\ x - Grid * 0 = x
      BY <3>1, WeightTypes
    <3> QED
      BY <2>1, <3>1, <3>2 DEF Square
  <2>2. CASE row.label = 1
    <3>1. PICK x \in 0..Grid : x = row[model]
      BY <1>1
    <3>2. Grid \in Nat /\ (x - Grid * 1) * (x - Grid * 1) = (Grid - x) * (Grid - x)
      BY <3>1, WeightTypes
    <3>3. Grid - x \in 0..Grid
      BY <3>1, <3>2
    <3> QED
      BY <2>2, <3>1, <3>2, <3>3 DEF Square
  <2> QED
    BY <1>1, <2>1, <2>2
<1>4. x * x \in 0..Grid * Grid
  <2>1. \A g \in Nat : \A y \in 0..g : y * y \in Nat /\ y * y <= g * g
    OBVIOUS
  <2> QED
    BY <2>1, WeightTypes
<1> QED
  BY <1>2, <1>3, <1>4, WeightTypes

\* The weights of a group and its weighted errors, row by row.
RowWeights(group) == [i \in 1..Len(group) |-> weights[group[i].label]]

RowLosses(group, model) ==
    [i \in 1..Len(group) |->
        weights[group[i].label] * Square(group[i][model] - Grid * group[i].label)]

LEMMA GroupTypes ==
    ASSUME DecisionInit, NEW group, IsGroup(group), NEW model \in {"before", "after"}
    PROVE  /\ TotalWeight(group) \in Nat \ {0}
           /\ WeightedLoss(group, model) \in 0..TotalWeight(group) * Square(Grid)
<1> DEFINE n == Len(group)
           w == RowWeights(group)
           l == RowLosses(group, model)
           sq == Square(Grid)
<1>1. /\ Total(w) = TotalWeight(group) /\ Total(l) = WeightedLoss(group, model)
      /\ n \in Nat \ {0} /\ sq \in Nat \ {0}
  BY WeightTypes DEF TotalWeight, WeightedLoss, RowWeights, RowLosses, IsGroup
<1>2. Len(w) = n /\ Len(l) = n
  <2>1. w = [i \in 1..n |-> w[i]] /\ l = [i \in 1..n |-> l[i]]
    BY DEF RowWeights, RowLosses
  <2> HIDE DEF w, l, n
  <2> QED
    BY <1>1, <2>1, FunctionIsSeq
<1>3. ASSUME NEW i \in 1..n
      PROVE  w[i] \in Nat \ {0} /\ l[i] \in Nat /\ l[i] <= sq * w[i]
  <2>1. group[i] \in ScoredRows
    BY ElementOfSeq DEF IsGroup
  <2>2. PICK x \in Nat \ {0}, y \in 0..sq :
           x = weights[group[i].label] /\ y = Square(group[i][model] - Grid * group[i].label)
    BY <2>1, RowTypes
  <2>3. w[i] = x /\ l[i] = x * y
    BY <2>2 DEF RowWeights, RowLosses
  <2>4. x * y \in Nat /\ x * y <= sq * x
    <3>1. \A s \in Nat : \A z \in 0..s : \A u \in Nat : u * z \in Nat /\ u * z <= s * u
      OBVIOUS
    <3> HIDE DEF sq
    <3> QED
      BY <1>1, <3>1
  <2> HIDE DEF w, l, sq
  <2> QED
    BY <2>3, <2>4
<1> HIDE DEF w, l, sq, n
<1>4. Total(w) \in Int /\ Total(l) \in Int
  BY <1>1, <1>2, <1>3, TotalIsInt
<1>5. Total(w) \in Nat \ {0}
  <2>1. \A i \in 1..n : w[i] \in Int /\ (-1) * w[i] - 0 * w[i] <= -1
    BY <1>3
  <2>2. (-1) * Total(w) - 0 * Total(w) <= n * (-1)
    BY <1>1, <1>2, <2>1, TotalsAreBounded
  <2> QED
    BY <1>1, <1>4, <2>2
<1>6. Total(l) >= 0
  <2>1. \A i \in 1..n : l[i] \in Int /\ (-1) * l[i] - 0 * l[i] <= 0
    BY <1>3
  <2>2. (-1) * Total(l) - 0 * Total(l) <= n * 0
    BY <1>1, <1>2, <2>1, TotalsAreBounded
  <2> QED
    BY <1>1, <1>4, <2>2
<1>7. Total(l) <= sq * Total(w)
  <2>1. \A i \in 1..n : l[i] \in Int /\ w[i] \in Int /\ 1 * l[i] - sq * w[i] <= 0
    <3> TAKE i \in 1..n
    <3>1. PICK x \in Int, y \in Int : x = l[i] /\ y = w[i] /\ x <= sq * y
      BY <1>3
    <3>2. sq * y \in Int
      BY <1>1
    <3> QED
      BY <3>1, <3>2
  <2>2. 1 * Total(l) - sq * Total(w) <= n * 0
    <3>1. sq \in Int /\ 1 \in Int /\ 0 \in Int /\ Len(l) \in Nat /\ Len(w) = Len(l)
      BY <1>1, <1>2
    <3>2. \A i \in 1..Len(l) : l[i] \in Int /\ w[i] \in Int /\ 1 * l[i] - sq * w[i] <= 0
      BY <1>2, <2>1
    <3>3. 1 * Total(l) - sq * Total(w) <= Len(l) * 0
      BY <3>1, <3>2, TotalsAreBounded, Zenon
    <3> QED
      BY <1>2, <3>3, Zenon
  <2>3. PICK x \in Int, y \in Int : x = Total(l) /\ y = Total(w)
    BY <1>4
  <2>4. sq * y \in Int /\ 1 * x - sq * y <= 0
    BY <1>1, <2>2, <2>3
  <2> QED
    BY <2>3, <2>4
<1>8. sq * Total(w) = Total(w) * sq /\ Total(w) * sq \in Nat
  BY <1>1, <1>5
<1> QED
  BY <1>1, <1>4, <1>5, <1>6, <1>7, <1>8 DEF sq

\* What a model's quanta on a group miss of its loss, twice, in units of the group.
LEMMA QuantaAreNear ==
    ASSUME DecisionInit, NEW group, IsGroup(group), NEW model \in {"before", "after"}
    PROVE  LET unit == TotalWeight(group) * Square(Grid)
           IN  /\ LossQuanta(group, model) \in Int
               /\ 2 * (LossQuanta(group, model) * unit) - 2 * (Quanta * WeightedLoss(group, model)) <= unit
               /\ 2 * (Quanta * WeightedLoss(group, model)) - 2 * (LossQuanta(group, model) * unit) <= unit
<1> DEFINE unit == TotalWeight(group) * Square(Grid)
           loss == WeightedLoss(group, model)
<1>1. unit \in Nat \ {0}
  <2>1. \A x, y \in Nat \ {0} : x * y \in Nat \ {0}
    OBVIOUS
  <2> QED
    BY <2>1, GroupTypes, WeightTypes
<1>2. loss \in 0..unit /\ loss \in Nat
  <2>1. loss \in 0..unit
    BY GroupTypes
  <2> HIDE DEF loss, unit
  <2> QED
    BY <1>1, <2>1
<1>3. Max({0, Min({unit, loss})}) = loss
  <2> HIDE DEF loss, unit
  <2>1. \A x \in {unit, loss} : loss <= x
    BY <1>1, <1>2
  <2>2. Min({unit, loss}) = loss
    BY <1>1, <1>2, <2>1 DEF Min
  <2> QED
    BY <1>2, <2>2 DEF Max
<1>4. LossQuanta(group, model) = HalfEven(Quanta * loss, unit)
  BY <1>3, Zenon DEF LossQuanta
<1>5. Quanta * loss \in Nat
  BY <1>2, WeightTypes
<1> HIDE DEF loss, unit
<1>6. /\ HalfEven(Quanta * loss, unit) \in Int
      /\ 2 * (HalfEven(Quanta * loss, unit) * unit) - 2 * (Quanta * loss) <= unit
      /\ 2 * (Quanta * loss) - 2 * (HalfEven(Quanta * loss, unit) * unit) <= unit
  BY <1>1, <1>5, HalfEvenIsNear
<1> QED
  BY <1>4, <1>6 DEF loss, unit

\* The rounded difference of a group misses the exact one by at most a quantum.
LEMMA DifferenceIsNear ==
    ASSUME DecisionInit, NEW group, IsGroup(group)
    PROVE  \E unit \in Nat \ {0}, d \in Int, x \in Int :
              /\ unit = TotalWeight(group) * Square(Grid)
              /\ d = Difference(group)
              /\ x = WeightedLoss(group, "after") - WeightedLoss(group, "before")
              /\ unit * d - Quanta * x <= unit /\ Quanta * x - unit * d <= unit
<1>1. PICK unit \in Nat \ {0} : unit = TotalWeight(group) * Square(Grid)
  <2>1. \A x, y \in Nat \ {0} : x * y \in Nat \ {0}
    OBVIOUS
  <2> QED
    BY <2>1, GroupTypes, WeightTypes
<1>2. ASSUME NEW model \in {"before", "after"}
      PROVE  \E q \in Int, l \in Nat :
                /\ q = LossQuanta(group, model) /\ l = WeightedLoss(group, model)
                /\ 2 * (q * unit) - 2 * (Quanta * l) <= unit
                /\ 2 * (Quanta * l) - 2 * (q * unit) <= unit
  <2>1. WeightedLoss(group, model) \in Nat
    BY GroupTypes
  <2> QED
    BY <1>1, <2>1, QuantaAreNear
<1>3. PICK qa \in Int, la \in Nat :
         /\ qa = LossQuanta(group, "after") /\ la = WeightedLoss(group, "after")
         /\ 2 * (qa * unit) - 2 * (Quanta * la) <= unit
         /\ 2 * (Quanta * la) - 2 * (qa * unit) <= unit
  BY <1>2
<1>4. PICK qb \in Int, lb \in Nat :
         /\ qb = LossQuanta(group, "before") /\ lb = WeightedLoss(group, "before")
         /\ 2 * (qb * unit) - 2 * (Quanta * lb) <= unit
         /\ 2 * (Quanta * lb) - 2 * (qb * unit) <= unit
  BY <1>2
<1>5. unit * (qa - qb) = qa * unit - qb * unit /\ Quanta * (la - lb) = Quanta * la - Quanta * lb
  BY WeightTypes
<1>6. qa * unit \in Int /\ qb * unit \in Int /\ Quanta * la \in Int /\ Quanta * lb \in Int
  BY WeightTypes
<1>7. /\ unit * (qa - qb) - Quanta * (la - lb) <= unit
      /\ Quanta * (la - lb) - unit * (qa - qb) <= unit
  BY <1>3, <1>4, <1>5, <1>6
<1>8. qa - qb \in Int /\ la - lb \in Int /\ Difference(group) = qa - qb
  BY <1>3, <1>4 DEF Difference
<1> QED
  BY <1>1, <1>3, <1>4, <1>7, <1>8

------------------------------------------------------------------------------
(* The decision                                                            *)

LEMMA GroupsAreGroups ==
    ASSUME DecisionInit
    PROVE  /\ Len(groups) \in Nat \ {0} /\ \A i \in 1..Len(groups) : IsGroup(groups[i])
           /\ gamma.num \in Nat /\ gamma.den \in Nat \ {0}
<1>1. groups \in Groups /\ gamma \in Gammas
  BY DEF DecisionInit
<1>2. groups \in Seq(Seq(ScoredRows)) /\ Len(groups) > 0
  BY <1>1, DecisionAssumption
<1>3. Len(groups) \in Nat
  BY <1>2, LenProperties
<1>4. ASSUME NEW i \in 1..Len(groups) PROVE IsGroup(groups[i])
  <2>1. groups[i] \in Seq(ScoredRows)
    BY <1>2, ElementOfSeq
  <2>2. Len(groups[i]) \in Nat /\ Len(groups[i]) > 0
    BY <1>1, <2>1, DecisionAssumption, LenProperties
  <2> QED
    BY <2>1, <2>2 DEF IsGroup
<1> QED
  BY <1>1, <1>2, <1>3, <1>4, DecisionAssumption

\* The total of the rounded differences misses the exact one by at most a quantum
\* for every group.
LEMMA TotalIsNear ==
    ASSUME DecisionInit
    PROVE  \E k \in Nat \ {0}, s \in Int, x \in Int :
              /\ k = CommonWeight * Square(Grid)
              /\ s = Total([i \in 1..Len(groups) |-> Difference(groups[i])])
              /\ x = ExactDifference
              /\ k * s - Quanta * x <= Len(groups) * k
              /\ Quanta * x - k * s <= Len(groups) * k
<1> DEFINE n == Len(groups)
           w == [i \in 1..n |-> TotalWeight(groups[i])]
           d == [i \in 1..n |-> Difference(groups[i])]
           Exact(i) == (WeightedLoss(groups[i], "after") - WeightedLoss(groups[i], "before"))
                          * (CommonWeight \div TotalWeight(groups[i]))
           x == [i \in 1..n |-> Exact(i)]
<1>1. n \in Nat \ {0} /\ \A i \in 1..n : IsGroup(groups[i])
  BY GroupsAreGroups
<1>2. Len(w) = n /\ Len(d) = n /\ Len(x) = n
  <2>1. w = [i \in 1..n |-> w[i]] /\ d = [i \in 1..n |-> d[i]] /\ x = [i \in 1..n |-> x[i]]
    OBVIOUS
  <2> HIDE DEF w, d, x, n
  <2> QED
    BY <1>1, <2>1, FunctionIsSeq
<1>3. \A i \in 1..n : w[i] \in Nat \ {0} /\ w[i] = TotalWeight(groups[i])
  BY <1>1, GroupTypes
<1>4. CommonWeight = Product(w) /\ Total(x) = ExactDifference
  BY DEF CommonWeight, ExactDifference
<1> HIDE DEF w
<1>5. PICK c \in Nat \ {0} : c = CommonWeight /\ \A i \in 1..n : \E e \in Nat \ {0} : c = e * w[i]
  BY <1>1, <1>2, <1>3, <1>4, ProductIsMultiple
<1>6. PICK g \in Nat \ {0}, m \in Nat \ {0} : g = Square(Grid) /\ m = Quanta
  BY WeightTypes
<1>7. PICK k \in Nat \ {0} : k = c * g
  <2>1. \A u, v \in Nat \ {0} : u * v \in Nat \ {0}
    OBVIOUS
  <2> QED
    BY <2>1
<1>8. ASSUME NEW i \in 1..n
      PROVE  /\ d[i] \in Int /\ x[i] \in Int
             /\ k * d[i] - m * x[i] <= k /\ (-k) * d[i] - (-m) * x[i] <= k
  <2>1. PICK unit \in Nat \ {0}, a \in Int, b \in Int :
           /\ unit = TotalWeight(groups[i]) * Square(Grid)
           /\ a = Difference(groups[i])
           /\ b = WeightedLoss(groups[i], "after") - WeightedLoss(groups[i], "before")
           /\ unit * a - m * b <= unit /\ m * b - unit * a <= unit
    BY <1>1, <1>6, DifferenceIsNear
  <2>2. PICK e \in Nat \ {0}, v \in Nat \ {0} : v = w[i] /\ c = e * v
    BY <1>3, <1>5
  <2>3. c \div v = e
    BY <2>2, Quotient
  <2>4. d[i] = a
    BY <2>1
  <2>5. x[i] = b * e
    BY <1>3, <1>5, <2>1, <2>2, <2>3
  <2>6. k = e * unit
    <3>1. unit = v * g
      BY <1>3, <1>6, <2>1, <2>2
    <3> QED
      BY <1>7, <2>2, <3>1
  <2>7. /\ k * a - m * (b * e) = e * (unit * a - m * b)
        /\ (-k) * a - (-m) * (b * e) = e * (m * b - unit * a)
    BY <2>6
  <2>8. \A y \in Int : y <= unit => e * y <= e * unit
    OBVIOUS
  <2>9. unit * a - m * b \in Int /\ m * b - unit * a \in Int /\ b * e \in Int
    OBVIOUS
  <2>10. k * a - m * (b * e) <= k /\ (-k) * a - (-m) * (b * e) <= k
    BY <2>1, <2>6, <2>7, <2>8, <2>9
  <2> QED
    BY <2>4, <2>5, <2>9, <2>10
<1> HIDE DEF d, x
<1>9. PICK s \in Int, y \in Int : s = Total(d) /\ y = Total(x)
  BY <1>1, <1>2, <1>8, TotalIsInt
<1>10. k * s - m * y <= n * k
  <2>1. k \in Int /\ m \in Int /\ Len(d) \in Nat /\ Len(x) = Len(d)
    BY <1>1, <1>2
  <2>2. \A i \in 1..Len(d) : d[i] \in Int /\ x[i] \in Int /\ k * d[i] - m * x[i] <= k
    BY <1>2, <1>8
  <2>3. k * Total(d) - m * Total(x) <= Len(d) * k
    BY <2>1, <2>2, TotalsAreBounded, Zenon
  <2> QED
    BY <1>2, <1>9, <2>3, Zenon
<1>11. (-k) * s - (-m) * y <= n * k
  <2>1. k \in Int /\ -k \in Int /\ -m \in Int /\ Len(d) \in Nat /\ Len(x) = Len(d)
    BY <1>1, <1>2
  <2>2. \A i \in 1..Len(d) : d[i] \in Int /\ x[i] \in Int /\ (-k) * d[i] - (-m) * x[i] <= k
    BY <1>2, <1>8
  <2>3. (-k) * Total(d) - (-m) * Total(x) <= Len(d) * k
    BY <2>1, <2>2, TotalsAreBounded, Zenon
  <2> QED
    BY <1>2, <1>9, <2>3, Zenon
<1>12. (-k) * s - (-m) * y = m * y - k * s
  OBVIOUS
<1>13. m * y - k * s <= n * k
  BY <1>11, <1>12
<1>14. s = Total([i \in 1..Len(groups) |-> Difference(groups[i])])
  BY <1>9 DEF d
<1> QED
  BY <1>4, <1>5, <1>6, <1>7, <1>9, <1>10, <1>13, <1>14

LEMMA CommonWeightIsNat ==
    ASSUME DecisionInit
    PROVE  CommonWeight \in Nat
<1> DEFINE n == Len(groups)
           w == [i \in 1..n |-> TotalWeight(groups[i])]
<1>1. n \in Nat /\ \A i \in 1..n : w[i] \in Nat \ {0}
  BY GroupsAreGroups, GroupTypes
<1>2. w = [i \in 1..n |-> w[i]]
  OBVIOUS
<1>3. CommonWeight = Product(w)
  BY DEF CommonWeight
<1> HIDE DEF w, n
<1>4. Len(w) = n
  BY <1>1, <1>2, FunctionIsSeq
<1> QED
  BY <1>1, <1>3, <1>4, ProductIsMultiple

\* From near totals to decisions: n groups, threshold num/den, q quanta per unit.
LEMMA Judgement ==
    ASSUME NEW k \in Nat \ {0}, NEW s \in Int, NEW e \in Int, NEW n \in Nat \ {0},
           NEW num \in Nat, NEW den \in Nat \ {0}, NEW q \in Nat,
           k * s - e <= n * k, e - k * s <= n * k
    PROVE  /\ s * den <= -num * n * q => e * den <= n * k * (den - num * q)
           /\ s * den > -num * n * q => e * den > -(n * k) * (den + num * q)
<1>1. \A y, z \in Int : y <= z => y * den <= z * den
  OBVIOUS
<1>2. \A y, z \in Int : y <= z => k * y <= k * z
  OBVIOUS
<1>3. \A y, z \in Int : y < z => k * y < k * z
  OBVIOUS
<1>4. e * den <= (n * k + k * s) * den /\ (k * s - n * k) * den <= e * den
  BY <1>1
<1>5. /\ (n * k + k * s) * den = k * (n * den + s * den)
      /\ (k * s - n * k) * den = k * (s * den - n * den)
  OBVIOUS
<1>6. PICK t \in Int, r \in Int, b \in Int : t = s * den /\ r = n * den /\ b = num * n * q
  OBVIOUS
<1>7. -num * n * q = -b
  BY <1>6
<1>8. n * k * (den - num * q) = k * (r - b) /\ -(n * k) * (den + num * q) = k * (-r - b)
  BY <1>6
<1>9. ASSUME t <= -b PROVE e * den <= k * (r - b)
  <2>1. k * (r + t) <= k * (r - b)
    BY <1>2, <1>9
  <2> QED
    BY <1>4, <1>5, <1>6, <2>1
<1>10. ASSUME t > -b PROVE e * den > k * (-r - b)
  <2>1. k * (-r - b) < k * (t - r)
    BY <1>3, <1>10
  <2> QED
    BY <1>4, <1>5, <1>6, <2>1
<1> QED
  BY <1>6, <1>7, <1>8, <1>9, <1>10

\* Rounding never misjudges by more than a quantum, whatever the number of groups
\* and rows and whatever the class weights: each group's two roundings cost at
\* most half a quantum each, and the mean of such errors is no larger
\* (_loss_quanta, gate_decision).
THEOREM GateIsExactWithinAQuantum == DecisionInit => DecisionsHoldWithinAQuantum
<1> SUFFICES ASSUME DecisionInit PROVE DecisionsHoldWithinAQuantum
  OBVIOUS
<1>1. PICK k \in Nat \ {0}, s \in Int, x \in Int :
         /\ k = CommonWeight * Square(Grid)
         /\ s = Total([i \in 1..Len(groups) |-> Difference(groups[i])])
         /\ x = ExactDifference
         /\ k * s - Quanta * x <= Len(groups) * k
         /\ Quanta * x - k * s <= Len(groups) * k
  BY TotalIsNear
<1>2. PICK n \in Nat \ {0}, num \in Nat, den \in Nat \ {0}, q \in Nat :
         n = Len(groups) /\ num = gamma.num /\ den = gamma.den /\ q = Quanta
  BY GroupsAreGroups, WeightTypes
<1>3. PICK e \in Int : e = q * x
  OBVIOUS
<1>4. /\ s * den <= -num * n * q => e * den <= n * k * (den - num * q)
      /\ s * den > -num * n * q => e * den > -(n * k) * (den + num * q)
  <2>1. k * s - e <= n * k /\ e - k * s <= n * k
    BY <1>1, <1>2, <1>3
  <2> QED
    BY <2>1, Judgement
<1>5. PICK c \in Nat, g \in Nat : c = CommonWeight /\ g = Square(Grid) /\ k = c * g
  <2>1. CommonWeight \in Nat
    BY <1>1, CommonWeightIsNat
  <2> QED
    BY <1>1, <2>1, WeightTypes
<1>6. n * c * g = n * k /\ x * q * den = e * den /\ -(n * c * g) = -(n * k)
  BY <1>3, <1>5
<1>7. (GateDecision = "commit") <=> s * den <= -num * n * q
  BY <1>1, <1>2 DEF GateDecision
<1>8. s * den > -num * n * q \/ s * den <= -num * n * q
  OBVIOUS
<1>9. CASE GateDecision = "commit"
  <2>1. x * q * den <= n * c * g * (den - num * q)
    BY <1>4, <1>6, <1>7, <1>9
  <2> QED
    BY <1>1, <1>2, <1>5, <1>9, <2>1 DEF DecisionsHoldWithinAQuantum
<1>10. CASE GateDecision # "commit"
  <2>1. x * q * den > -(n * c * g) * (den + num * q)
    BY <1>4, <1>6, <1>7, <1>8, <1>10
  <2> QED
    BY <1>1, <1>2, <1>5, <1>10, <2>1 DEF DecisionsHoldWithinAQuantum
<1> QED
  BY <1>9, <1>10
================================================================================

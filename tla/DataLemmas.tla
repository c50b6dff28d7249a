------------------------------ MODULE DataLemmas ------------------------------
(***************************************************************************)
(* Numbers, sequences and sums over finite sets, for the proofs.  The      *)
(* library's induction theorems take the property to be proved as an       *)
(* operator, which the provers cannot instantiate; here a property is the  *)
(* set of its counterexamples, of which some is the least.  A sum of       *)
(* numbers is the cardinality of a set of marks, so no order of summation  *)
(* matters.                                                                *)
(***************************************************************************)
EXTENDS Integers, Sequences, FiniteSetTheorems, SequenceTheorems, TLAPS

------------------------------------------------------------------------------
(* Induction                                                               *)

\* A set of natural numbers has a least element.
LEMMA LeastNumber ==
    ASSUME NEW T \in SUBSET Nat, T # {}
    PROVE  \E n \in T : \A m \in T : n <= m
<1> DEFINE R == {p \in Nat \X Nat : p[1] < p[2]}
<1>1. IsWellFoundedOn(R, Nat)
  BY NatLessThanWellFounded DEF OpToRel
<1>2. PICK n \in T : \A m \in T : ~(<<m, n>> \in R)
  BY <1>1, WFMin
<1>3. ASSUME NEW m \in T PROVE n <= m
  <2>1. m \in Nat /\ n \in Nat /\ ~(<<m, n>> \in R)
    BY <1>2
  <2>2. ~(m < n)
    BY <2>1
  <2> QED
    BY <2>1, <2>2
<1> QED
  BY <1>3

\* Among subsets of a finite set there is one that contains no other.
LEMMA LeastSubset ==
    ASSUME NEW D, IsFiniteSet(D), NEW T \in SUBSET (SUBSET D), T # {}
    PROVE  \E A \in T : \A B \in T : B \subseteq A => B = A
<1>1. IsWellFoundedOn(StrictSubsetOrdering(D), SUBSET D)
  BY FS_StrictSubsetOrderingWellFounded, FS_FiniteSubsetsOfFinite
<1>2. PICK A \in T : \A B \in T : ~(<<B, A>> \in StrictSubsetOrdering(D))
  BY <1>1, WFMin
<1>3. ASSUME NEW B \in T, B \subseteq A PROVE B = A
  BY <1>2, <1>3 DEF StrictSubsetOrdering
<1> QED
  BY <1>3

\* A set of numbers with 0 and every successor has all of them.
LEMMA InductiveSet ==
    ASSUME NEW T \in SUBSET Nat, 0 \in T, \A n \in T : n + 1 \in T
    PROVE  T = Nat
<1> SUFFICES ASSUME Nat \ T # {} PROVE FALSE
  OBVIOUS
<1>1. PICK n \in Nat \ T : \A m \in Nat \ T : n <= m
  BY LeastNumber
<1>2. n - 1 \in Nat
  BY <1>1
<1>3. n - 1 \in T
  <2>1. ~(n <= n - 1)
    BY <1>1
  <2> QED
    BY <1>1, <1>2, <2>1
<1>4. (n - 1) + 1 \in T
  BY <1>3
<1> QED
  BY <1>1, <1>4

\* f holds the values 0 to n of a recursion.
IsRecursionUpTo(f, a, step, V, n) ==
    /\ f \in [0..n -> V] /\ f[0] = a
    /\ \A i \in 0..n - 1 : f[i + 1] = step[<<i, f[i]>>]

LEMMA PrefixesAgree ==
    ASSUME NEW V, NEW a, NEW step, NEW m \in Nat, NEW n \in Nat, NEW f, NEW g,
           IsRecursionUpTo(f, a, step, V, m), IsRecursionUpTo(g, a, step, V, n)
    PROVE  \A i \in Nat : i <= m /\ i <= n => f[i] = g[i]
<1> DEFINE T == {i \in Nat : i <= m /\ i <= n => f[i] = g[i]}
<1>1. 0 \in T
  BY DEF IsRecursionUpTo
<1>2. ASSUME NEW i \in T PROVE i + 1 \in T
  <2> SUFFICES ASSUME i + 1 <= m, i + 1 <= n PROVE f[i + 1] = g[i + 1]
    OBVIOUS
  <2>1. i \in 0..m - 1 /\ i \in 0..n - 1 /\ f[i] = g[i]
    BY <1>2
  <2>2. f[i + 1] = step[<<i, f[i]>>] /\ g[i + 1] = step[<<i, g[i]>>]
    BY <2>1 DEF IsRecursionUpTo
  <2> QED
    BY <2>1, <2>2
<1>3. T \in SUBSET Nat
  OBVIOUS
<1>4. T = Nat
  <2> HIDE DEF T
  <2> QED
    BY <1>1, <1>2, <1>3, InductiveSet
<1> QED
  BY <1>4

\* A recursion over all numbers, and that it has a solution.
IsRecursion(f, a, step, V) ==
    /\ f \in [Nat -> V]
    /\ f = [i \in Nat |-> IF i = 0 THEN a ELSE step[<<i - 1, f[i - 1]>>]]

LEMMA Recursion ==
    ASSUME NEW V, NEW a \in V, NEW step \in [Nat \X V -> V]
    PROVE  \E f : IsRecursion(f, a, step, V)
<1> DEFINE T == {n \in Nat : \E f : IsRecursionUpTo(f, a, step, V, n)}
<1>1. 0 \in T
  <2>1. IsRecursionUpTo([i \in 0..0 |-> a], a, step, V, 0)
    BY DEF IsRecursionUpTo
  <2> QED
    BY <2>1
<1>2. ASSUME NEW n \in T PROVE n + 1 \in T
  <2>1. PICK f : IsRecursionUpTo(f, a, step, V, n)
    OBVIOUS
  <2> DEFINE g == [i \in 0..n + 1 |-> IF i = n + 1 THEN step[<<n, f[n]>>] ELSE f[i]]
  <2>2. f[n] \in V /\ step[<<n, f[n]>>] \in V
    <3>1. f[n] \in V
      BY <2>1 DEF IsRecursionUpTo
    <3>2. <<n, f[n]>> \in Nat \X V
      BY <3>1
    <3> QED
      BY <3>1, <3>2
  <2>3. g \in [0..n + 1 -> V]
    BY <2>1, <2>2 DEF IsRecursionUpTo
  <2>4. g[0] = a
    BY <2>1 DEF IsRecursionUpTo
  <2>5. ASSUME NEW i \in 0..(n + 1) - 1 PROVE g[i + 1] = step[<<i, g[i]>>]
    <3>1. g[i] = f[i]
      OBVIOUS
    <3>2. CASE i = n
      <4>1. g[i + 1] = step[<<n, f[n]>>]
        BY <3>2
      <4> HIDE DEF g
      <4> QED
        BY <3>1, <3>2, <4>1
    <3>3. CASE i # n
      <4>1. i \in 0..n - 1 /\ i + 1 \in 0..n + 1 /\ i + 1 # n + 1
        BY <3>3
      <4> QED
        BY <2>1, <3>1, <4>1 DEF IsRecursionUpTo
    <3> QED
      BY <3>2, <3>3
  <2>6. IsRecursionUpTo(g, a, step, V, n + 1)
    <3> HIDE DEF g
    <3> QED
      BY <2>3, <2>4, <2>5 DEF IsRecursionUpTo
  <2> QED
    BY <2>6
<1>3. \A n \in Nat : \E f : IsRecursionUpTo(f, a, step, V, n)
  <2>1. T \in SUBSET Nat
    OBVIOUS
  <2>2. T = Nat
    <3> HIDE DEF T
    <3> QED
      BY <1>1, <1>2, <2>1, InductiveSet
  <2> QED
    BY <2>2
<1> DEFINE Of(n) == CHOOSE f : IsRecursionUpTo(f, a, step, V, n)
           h == [n \in Nat |-> Of(n)[n]]
<1>4. \A n \in Nat : IsRecursionUpTo(Of(n), a, step, V, n)
  BY <1>3
<1>5. \A n \in Nat : h[n] = Of(n)[n]
  OBVIOUS
<1> HIDE DEF Of
<1>6. h \in [Nat -> V] /\ h[0] = a
  BY <1>4 DEF IsRecursionUpTo
<1>7. ASSUME NEW n \in Nat PROVE h[n + 1] = step[<<n, h[n]>>]
  <2>1. Of(n)[n] = Of(n + 1)[n]
    BY <1>4, PrefixesAgree
  <2>2. Of(n + 1)[n + 1] = step[<<n, Of(n + 1)[n]>>]
    BY <1>4 DEF IsRecursionUpTo
  <2> HIDE DEF h
  <2> QED
    BY <1>5, <2>1, <2>2
<1>8. h = [i \in Nat |-> IF i = 0 THEN a ELSE step[<<i - 1, h[i - 1]>>]]
  <2> HIDE DEF h
  <2>1. ASSUME NEW i \in Nat PROVE h[i] = IF i = 0 THEN a ELSE step[<<i - 1, h[i - 1]>>]
    <3>1. CASE i = 0
      BY <1>6, <3>1
    <3>2. CASE i # 0
      <4>1. i - 1 \in Nat /\ (i - 1) + 1 = i
        BY <3>2
      <4>2. h[(i - 1) + 1] = step[<<i - 1, h[i - 1]>>]
        BY <1>7, <4>1
      <4> QED
        BY <3>2, <4>1, <4>2
    <3> QED
      BY <3>1, <3>2
  <2>2. h = [i \in Nat |-> h[i]]
    BY <1>6
  <2> QED
    BY <2>1, <2>2
<1> HIDE DEF h
<1> QED
  BY <1>6, <1>8 DEF IsRecursion

\* A loop whose counter rises to a bound, as a recursion towards the bound, has a
\* solution, and its value is that of a counter at which the loop stops.
IsLoop(f, a, b, stop, val, next) ==
    f = [t \in a..b |-> IF t \in stop THEN val[t] ELSE f[next[t]]]

LEMMA LoopExists ==
    ASSUME NEW a \in Nat, NEW b \in Nat, NEW stop, NEW val, NEW next,
           \A t \in a..b : t \notin stop => next[t] \in a..b /\ t < next[t]
    PROVE  \E f : IsLoop(f, a, b, stop, val, next)
<1> DEFINE Solves(f, n) ==
             \A t \in a..b : b - n <= t => f[t] = IF t \in stop THEN val[t] ELSE f[next[t]]
           T == {n \in Nat : \E f : Solves(f, n)}
<1>1. 0 \in T
  <2>1. Solves([t \in a..b |-> val[t]], 0)
    OBVIOUS
  <2> HIDE DEF Solves
  <2> QED
    BY <2>1
<1>2. ASSUME NEW n \in T PROVE n + 1 \in T
  <2>1. PICK f : Solves(f, n)
    OBVIOUS
  <2> DEFINE g == [t \in a..b |-> IF t = b - (n + 1)
                                  THEN IF t \in stop THEN val[t] ELSE f[next[t]]
                                  ELSE f[t]]
  <2>2. ASSUME NEW t \in a..b, b - (n + 1) <= t
        PROVE  g[t] = IF t \in stop THEN val[t] ELSE g[next[t]]
    <3>1. t \notin stop => g[next[t]] = f[next[t]]
      <4> SUFFICES ASSUME t \notin stop PROVE g[next[t]] = f[next[t]]
        OBVIOUS
      <4>1. next[t] \in a..b /\ next[t] # b - (n + 1)
        BY <2>2
      <4> QED
        BY <4>1
    <3>2. CASE t = b - (n + 1)
      <4>1. g[t] = IF t \in stop THEN val[t] ELSE f[next[t]]
        BY <3>2
      <4> HIDE DEF g
      <4> QED
        BY <3>1, <4>1
    <3>3. CASE t # b - (n + 1)
      <4>1. g[t] = f[t] /\ b - n <= t
        BY <2>2, <3>3
      <4> HIDE DEF g
      <4> QED
        BY <2>1, <3>1, <4>1
    <3> QED
      BY <3>2, <3>3
  <2>3. Solves(g, n + 1)
    <3> HIDE DEF g
    <3> QED
      BY <2>2
  <2> HIDE DEF Solves
  <2> QED
    BY <2>3
<1>3. b \in T
  <2>1. T \in SUBSET Nat
    OBVIOUS
  <2> HIDE DEF T
  <2> QED
    BY <1>1, <1>2, <2>1, InductiveSet
<1>4. PICK f : Solves(f, b)
  BY <1>3
<1> DEFINE g == [t \in a..b |-> f[t]]
<1>5. ASSUME NEW t \in a..b PROVE g[t] = IF t \in stop THEN val[t] ELSE g[next[t]]
  <2>1. f[t] = IF t \in stop THEN val[t] ELSE f[next[t]]
    BY <1>4
  <2> QED
    BY <2>1
<1>6. g = [t \in a..b |-> IF t \in stop THEN val[t] ELSE g[next[t]]]
  <2>1. g = [t \in a..b |-> g[t]]
    OBVIOUS
  <2> HIDE DEF g
  <2> QED
    BY <1>5, <2>1
<1> HIDE DEF g
<1> QED
  BY <1>6 DEF IsLoop

LEMMA LoopStops ==
    ASSUME NEW a \in Nat, NEW b \in Nat, NEW stop, NEW val, NEW next,
           \A t \in a..b : t \notin stop => next[t] \in a..b /\ t < next[t],
           NEW f, IsLoop(f, a, b, stop, val, next)
    PROVE  \A t \in a..b : \E u \in a..b : u \in stop /\ f[t] = val[u]
<1> DEFINE T == {n \in Nat : \A t \in a..b : b - n <= t => \E u \in a..b : u \in stop /\ f[t] = val[u]}
<1>1. \A t \in a..b : f[t] = IF t \in stop THEN val[t] ELSE f[next[t]]
  BY DEF IsLoop
<1>2. 0 \in T
  BY <1>1
<1>3. ASSUME NEW n \in T PROVE n + 1 \in T
  <2> SUFFICES ASSUME NEW t \in a..b, b - (n + 1) <= t
               PROVE  \E u \in a..b : u \in stop /\ f[t] = val[u]
    OBVIOUS
  <2>1. CASE t \in stop
    BY <1>1, <2>1
  <2>2. CASE t \notin stop
    <3>1. next[t] \in a..b /\ b - n <= next[t]
      BY <2>2
    <3>2. \E u \in a..b : u \in stop /\ f[next[t]] = val[u]
      BY <3>1
    <3> QED
      BY <1>1, <2>2, <3>2
  <2> QED
    BY <2>1, <2>2
<1>4. b \in T
  <2>1. T \in SUBSET Nat
    OBVIOUS
  <2> HIDE DEF T
  <2> QED
    BY <1>2, <1>3, <2>1, InductiveSet
<1> QED
  BY <1>4

------------------------------------------------------------------------------
(* Sequences                                                               *)

\* A function on 1..n is a sequence of length n.
LEMMA FunctionIsSeq ==
    ASSUME NEW n \in Nat, NEW f, f = [i \in 1..n |-> f[i]]
    PROVE  f \in Seq({f[i] : i \in 1..n}) /\ Len(f) = n
<1> DEFINE S == {f[i] : i \in 1..n}
<1>1. f \in [1..n -> S]
  OBVIOUS
<1>2. f \in Seq(S)
  <2> HIDE DEF S
  <2> QED
    BY <1>1, SeqDef
<1>3. Len(f) \in Nat /\ DOMAIN f = 1..Len(f)
  <2> HIDE DEF S
  <2> QED
    BY <1>2, LenProperties
<1>4. 1..Len(f) = 1..n
  BY <1>1, <1>3
<1> QED
  BY <1>2, <1>3, <1>4

------------------------------------------------------------------------------
(* Division                                                                *)

\* A multiple of n that is less than another is less by n.
LEMMA Multiples ==
    ASSUME NEW n \in Nat \ {0}, NEW k \in Int, NEW l \in Int, k < l
    PROVE  n * k + n <= n * l
<1>1. n * k + n = n * (k + 1)
  OBVIOUS
<1>2. n * (k + 1) <= n * l
  <2>1. l - (k + 1) \in Nat
    OBVIOUS
  <2>2. n * (l - (k + 1)) >= 0
    BY <2>1
  <2> QED
    BY <2>2
<1> QED
  BY <1>1, <1>2

\* The quotient and the remainder, and that there are no others.
LEMMA Division ==
    ASSUME NEW n \in Nat \ {0}, NEW w \in Nat
    PROVE  /\ w = n * (w \div n) + (w % n)
           /\ w \div n \in Nat /\ w % n \in 0..n - 1
           /\ \A k \in Nat, j \in 0..n - 1 : w = n * k + j => w \div n = k /\ w % n = j
<1>1. w = n * (w \div n) + (w % n) /\ w \div n \in Nat /\ w % n \in 0..n - 1
  OBVIOUS
<1>2. ASSUME NEW k \in Nat, NEW j \in 0..n - 1, w = n * k + j
      PROVE  w \div n = k /\ w % n = j
  <2> DEFINE q == w \div n
             r == w % n
  <2>1. n * q + r = n * k + j /\ q \in Nat /\ r \in 0..n - 1
    BY <1>1, <1>2
  <2> HIDE DEF q, r
  <2>2. ~(q < k)
    <3> SUFFICES ASSUME q < k PROVE FALSE
      OBVIOUS
    <3>1. n * q + n <= n * k
      BY <2>1, Multiples
    <3> QED
      BY <2>1, <3>1
  <2>3. ~(k < q)
    <3> SUFFICES ASSUME k < q PROVE FALSE
      OBVIOUS
    <3>1. n * k + n <= n * q
      BY <2>1, Multiples
    <3> QED
      BY <2>1, <3>1
  <2>4. q = k
    BY <2>1, <2>2, <2>3
  <2> QED
    BY <2>1, <2>4 DEF q, r
<1> QED
  BY <1>1, <1>2

LEMMA Quotient ==
    ASSUME NEW v \in Nat \ {0}, NEW e \in Nat \ {0}
    PROVE  (e * v) \div v = e
<1>1. PICK w \in Nat : w = e * v /\ w = v * e + 0
  OBVIOUS
<1>2. 0 \in 0..v - 1
  OBVIOUS
<1>3. w \div v = e
  BY <1>1, <1>2, Division
<1> QED
  BY <1>1, <1>3

------------------------------------------------------------------------------
(* Sums                                                                    *)

\* f holds the sums of w over the subsets of D, as a fold computes them.
IsSum(f, w, D) ==
    f = [s \in SUBSET D |-> IF s = {} THEN 0
                            ELSE LET x == CHOOSE x \in s : TRUE
                                 IN  w[x] + f[s \ {x}]]

\* Every element of s with as many marks as it weighs.
Marks(w, s) == {p \in s \X Nat : 1 <= p[2] /\ p[2] <= w[p[1]]}

\* One element has as many marks as it weighs ...
LEMMA MarksOfOne ==
    ASSUME NEW x, NEW w, w[x] \in Nat
    PROVE  IsFiniteSet(Marks(w, {x})) /\ Cardinality(Marks(w, {x})) = w[x]
<1> DEFINE b == [i \in 1..w[x] |-> <<x, i>>]
<1>1. b \in Bijection(1..w[x], Marks(w, {x}))
  <2>1. ASSUME NEW i \in 1..w[x] PROVE b[i] = <<x, i>> /\ b[i] \in Marks(w, {x})
    BY DEF Marks
  <2>2. b \in [1..w[x] -> Marks(w, {x})]
    BY <2>1
  <2>3. \A i, j \in 1..w[x] : b[i] = b[j] => i = j
    BY <2>1
  <2>4. \A p \in Marks(w, {x}) : p[2] \in 1..w[x] /\ b[p[2]] = p
    BY <2>1 DEF Marks
  <2> HIDE DEF b
  <2> QED
    BY <2>2, <2>3, <2>4 DEF Bijection, Injection, Surjection, IsInjective
<1> QED
  BY <1>1, FS_CountingElements, FS_NatBijection DEF ExistsBijection

\* ... and adds as many to the marks of the others.
LEMMA MarksAdd ==
    ASSUME NEW S, NEW w, NEW x, x \notin S, w[x] \in Nat, IsFiniteSet(Marks(w, S))
    PROVE  /\ IsFiniteSet(Marks(w, S \cup {x}))
           /\ Cardinality(Marks(w, S \cup {x})) = w[x] + Cardinality(Marks(w, S))
<1>1. Marks(w, S \cup {x}) = Marks(w, S) \cup Marks(w, {x})
  BY DEF Marks
<1>2. Marks(w, S) \cap Marks(w, {x}) = {}
  BY DEF Marks
<1>3. Cardinality(Marks(w, S)) \in Nat
  BY FS_CardinalityType
<1> QED
  <2>1. /\ IsFiniteSet(Marks(w, {x})) /\ Cardinality(Marks(w, {x})) = w[x]
        /\ Cardinality({}) = 0
    BY MarksOfOne, FS_EmptySet
  <2>2. /\ IsFiniteSet(Marks(w, S) \cup Marks(w, {x}))
        /\ Cardinality(Marks(w, S) \cup Marks(w, {x}))
             = Cardinality(Marks(w, S)) + Cardinality(Marks(w, {x}))
               - Cardinality(Marks(w, S) \cap Marks(w, {x}))
    BY <2>1, FS_Union
  <2>3. Cardinality(Marks(w, S) \cap Marks(w, {x})) = 0
    BY <1>2, <2>1
  <2>4. Cardinality(Marks(w, S) \cup Marks(w, {x})) = Cardinality(Marks(w, S)) + w[x]
    BY <1>3, <2>1, <2>2, <2>3
  <2>5. /\ IsFiniteSet(Marks(w, S \cup {x}))
        /\ Cardinality(Marks(w, S \cup {x})) = Cardinality(Marks(w, S)) + w[x]
    BY <1>1, <2>2, <2>4, Zenon
  <2> QED
    BY <1>3, <2>5

\* A finite set has finitely many marks.
LEMMA MarksFinite ==
    ASSUME NEW D, IsFiniteSet(D), NEW w, \A x \in D : w[x] \in Nat
    PROVE  IsFiniteSet(Marks(w, D))
<1> DEFINE Bad == {s \in SUBSET D : ~IsFiniteSet(Marks(w, s))}
<1> SUFFICES ASSUME Bad # {} PROVE FALSE
  OBVIOUS
<1>1. PICK A \in Bad : \A B \in Bad : B \subseteq A => B = A
  <2>1. Bad \in SUBSET (SUBSET D)
    OBVIOUS
  <2> HIDE DEF Bad
  <2> QED
    BY <2>1, LeastSubset
<1>2. CASE A = {}
  <2>1. Marks(w, A) = {}
    BY <1>2 DEF Marks
  <2> QED
    BY <2>1, FS_EmptySet
<1>3. ASSUME NEW x \in A PROVE FALSE
  <2>1. A \ {x} \notin Bad
    BY <1>1
  <2>2. (A \ {x}) \cup {x} = A /\ A \ {x} \in SUBSET D /\ x \in D
    BY <1>3
  <2> QED
    BY <2>1, <2>2, MarksAdd
<1> QED
  BY <1>2, <1>3

\* Whoever computes the sums counts the marks ...
LEMMA SumIsCount ==
    ASSUME NEW D, IsFiniteSet(D), NEW w, \A x \in D : w[x] \in Nat, NEW f, IsSum(f, w, D)
    PROVE  \A s \in SUBSET D : f[s] = Cardinality(Marks(w, s))
<1> DEFINE Bad == {s \in SUBSET D : f[s] # Cardinality(Marks(w, s))}
<1> SUFFICES ASSUME Bad # {} PROVE FALSE
  OBVIOUS
<1>1. PICK A \in Bad : \A B \in Bad : B \subseteq A => B = A
  <2>1. Bad \in SUBSET (SUBSET D)
    OBVIOUS
  <2> HIDE DEF Bad
  <2> QED
    BY <2>1, LeastSubset
<1>2. CASE A = {}
  <2>1. Marks(w, A) = {}
    BY <1>2 DEF Marks
  <2>2. f[A] = 0
    BY <1>2 DEF IsSum
  <2> QED
    BY <2>1, <2>2, FS_EmptySet
<1>3. CASE A # {}
  <2> DEFINE x == CHOOSE x \in A : TRUE
  <2>1. x \in A
    BY <1>3
  <2>2. f[A] = w[x] + f[A \ {x}]
    BY <1>3 DEF IsSum
  <2> HIDE DEF x
  <2>3. f[A \ {x}] = Cardinality(Marks(w, A \ {x}))
    BY <1>1, <2>1
  <2>4. (A \ {x}) \cup {x} = A /\ A \ {x} \in SUBSET D /\ w[x] \in Nat
    BY <2>1
  <2>5. IsFiniteSet(Marks(w, A \ {x}))
    BY <2>4, MarksFinite, FS_Subset
  <2> QED
    BY <2>2, <2>3, <2>4, <2>5, MarksAdd
<1> QED
  BY <1>2, <1>3

\* ... and the numbers of marks are sums, so that sums there are.
LEMMA CountIsSum ==
    ASSUME NEW D, IsFiniteSet(D), NEW w, \A x \in D : w[x] \in Nat
    PROVE  IsSum([s \in SUBSET D |-> Cardinality(Marks(w, s))], w, D)
<1> DEFINE g == [s \in SUBSET D |-> Cardinality(Marks(w, s))]
<1>1. g[{}] = 0
  <2>1. Marks(w, {}) = {}
    BY DEF Marks
  <2> QED
    BY <2>1, FS_EmptySet
<1>2. ASSUME NEW s \in SUBSET D, s # {}
      PROVE  g[s] = LET x == CHOOSE x \in s : TRUE IN w[x] + g[s \ {x}]
  <2> DEFINE x == CHOOSE x \in s : TRUE
  <2>1. x \in s
    BY <1>2
  <2> HIDE DEF x
  <2>2. (s \ {x}) \cup {x} = s /\ s \ {x} \in SUBSET D /\ w[x] \in Nat
    BY <2>1
  <2>3. IsFiniteSet(Marks(w, s \ {x}))
    BY <2>2, MarksFinite, FS_Subset
  <2>4. Cardinality(Marks(w, s)) = w[x] + Cardinality(Marks(w, s \ {x}))
    BY <2>2, <2>3, MarksAdd
  <2>5. g[s] = w[x] + g[s \ {x}]
    BY <2>2, <2>4
  <2> QED
    BY <2>5 DEF x
<1>3. g = [s \in SUBSET D |-> g[s]]
  OBVIOUS
<1> QED
  BY <1>1, <1>2 DEF IsSum
==============================================================================

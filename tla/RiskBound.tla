------------------------------- MODULE RiskBound -------------------------------
(***************************************************************************)
(* Whether n source groups keep the risk within an allocation (gate.py):   *)
(* exp(-x), with x = n * (epsilon + gamma)^2 / 2, is enclosed by fixed-     *)
(* point arithmetic with directed rounding, more finely until the enclosure *)
(* lies on one side of alpha.  Exponents and alphas are fractions, and all  *)
(* arithmetic is that of integers.  The code's literals are the constants.  *)
(***************************************************************************)
EXTENDS Integers, FiniteSetsExt

CONSTANTS
    FirstTerms, LastTerms, SpareTerms,  \* 16, 384 and 32
    GuardBits,                          \* 16
    FirstPrecision, SparePrecision,     \* 192 and 96
    PrecisionSpan                       \* 4096

\* The limits leave the first number of terms and the first precision a range.
ASSUME RiskAssumption ==
    /\ {FirstTerms, LastTerms, SpareTerms, GuardBits} \subseteq Nat
    /\ {FirstPrecision, SparePrecision, PrecisionSpan} \subseteq Nat
    /\ 2 <= FirstTerms /\ FirstTerms <= LastTerms
    /\ 0 < FirstPrecision /\ FirstPrecision <= PrecisionSpan /\ SparePrecision <= PrecisionSpan

\* _risk_exponent: n groups, each at half the square of epsilon + gamma.
Exponent(rate, n) == [num |-> n * rate.num, den |-> rate.den]

PowerOfTwo(n) ==
    LET power[i \in Nat] == IF i = 0 THEN 1 ELSE 2 * power[i - 1]
    IN  power[n]

FloorDiv(a, b) == a \div b

CeilDiv(a, b) == -((-a) \div b)

BitLength(k) == CHOOSE b \in 0..k : k < PowerOfTwo(b) /\ (b = 0 \/ PowerOfTwo(b - 1) <= k)

CeilLog2(k) == CHOOSE e \in 0..k : k <= PowerOfTwo(e) /\ (e = 0 \/ PowerOfTwo(e - 1) < k)

\* How often x is halved until it is at most 1/2.
Squarings(x) ==
    LET IsHalved(s) == 2 * x.num <= x.den * PowerOfTwo(s)
    IN  CHOOSE s \in 0..x.num : IsHalved(s) /\ (s = 0 \/ ~IsHalved(s - 1))

Scale(x, terms, precision) == PowerOfTwo(precision + Squarings(x) + GuardBits + CeilLog2(terms + 1))

\* The k-th term of the series, rounded down and up at every step.
Term(value, scale, k) ==
    LET term[i \in Nat] ==
          IF i = 0 THEN [lower |-> scale, upper |-> scale]
          ELSE LET before == term[i - 1]
               IN  [lower |-> FloorDiv(before.lower * value, scale * i),
                    upper |-> CeilDiv(before.upper * value, scale * i)]
    IN  term[k]

\* The series up to its k-th term: odd terms are taken away, even ones added, so
\* that the sum is rounded down and up.
PartialSum(value, scale, k) ==
    LET sum[i \in Nat] ==
          IF i = 0 THEN [lower |-> scale, upper |-> scale]
          ELSE LET before == sum[i - 1]
                   term == Term(value, scale, i)
               IN  IF i % 2 = 1
                   THEN [lower |-> before.lower - term.upper, upper |-> before.upper - term.lower]
                   ELSE [lower |-> before.lower + term.lower, upper |-> before.upper + term.upper]
    IN  sum[k]

\* A series is closed from below by its last odd term, and from above by the even
\* term after that, which is one more than the limit if the limit is odd.
LastEven(terms) == 2 * ((terms + 1) \div 2)

SeriesLower(value, scale, terms) ==
    Max({0, PartialSum(value, scale, LastEven(terms) - 1).lower})

SeriesUpper(value, scale, terms) ==
    Min({scale, PartialSum(value, scale, LastEven(terms)).upper})

\* The halvings undone.
Squared(lower, upper, scale, times) ==
    LET power[i \in Nat] ==
          IF i = 0 THEN [lower |-> lower, upper |-> upper]
          ELSE LET before == power[i - 1]
               IN  [lower |-> FloorDiv(before.lower * before.lower, scale),
                    upper |-> CeilDiv(before.upper * before.upper, scale)]
    IN  power[times]

\* _exp_neg_taylor_interval: e^-x is between lower/scale and upper/scale.
ExpNegInterval(x, terms, precision) ==
    LET scale == Scale(x, terms, precision)
        halves == x.den * PowerOfTwo(Squarings(x))
        lower == SeriesLower(CeilDiv(x.num * scale, halves), scale, terms)
        upper == SeriesUpper(FloorDiv(x.num * scale, halves), scale, terms)
        e == Squared(lower, upper, scale, Squarings(x))
    IN  [lower |-> e.lower, upper |-> e.upper, scale |-> scale]

IsPrecise(e, precision) == (e.upper - e.lower) * PowerOfTwo(precision) <= e.scale

\* risk_bound_interval: terms are added by halves until the width is reached; the
\* enclosure that the last number of terms leaves too wide is an ArithmeticError.
RiskBoundInterval(x, precision) ==
    LET last == Max({LastTerms, precision + SpareTerms})
        from[terms \in FirstTerms..last] ==
          LET e == ExpNegInterval(x, terms, precision)
          IN  IF IsPrecise(e, precision) \/ terms = last
              THEN e
              ELSE from[Min({last, CeilDiv(3 * terms, 2)})]
    IN  from[FirstTerms]

\* Mutant: an enclosure that only touches alpha is taken to be below it.
TouchesAlpha(e, alpha) == e.lower * alpha.den <= alpha.num * e.scale

IsBelow(e, alpha) == e.upper * alpha.den <= alpha.num * e.scale

IsAbove(e, alpha) == e.lower * alpha.den > alpha.num * e.scale

\* risk_is_satisfied: precision is doubled until alpha is outside the enclosure.
RiskIsSatisfied(x, alpha) ==
    LET magnitude == Max({0, BitLength(alpha.den) - BitLength(alpha.num)})
        first == Max({FirstPrecision, magnitude + SparePrecision})
        limit == magnitude + PrecisionSpan
        at[precision \in first..limit] ==
          LET e == RiskBoundInterval(x, precision)
          IN  CASE ~IsPrecise(e, precision) -> "raises"
                [] IsPrecise(e, precision) /\ IsBelow(e, alpha) -> "yes"
                [] IsPrecise(e, precision) /\ ~IsBelow(e, alpha) /\ IsAbove(e, alpha) -> "no"
                [] OTHER -> IF precision = limit THEN "raises"
                            ELSE at[Min({2 * precision, limit})]
    IN  at[first]
================================================================================

----------------------------- MODULE GateDecision -----------------------------
(***************************************************************************)
(* The judgement of a candidate on its probe (gate.py): the weighted       *)
(* squared error of either model on every source group, rounded to quanta, *)
(* and the mean of the rounded differences against the threshold.  The     *)
(* sigmoid is in the data: a row has the predictions of both models, as    *)
(* multiples of 1/Grid, and products are exact where the code computes to  *)
(* the decimal precision of the policy.                                    *)
(***************************************************************************)
EXTENDS Integers, Sequences, FiniteSetsExt

CONSTANTS
    Grid,      \* predictions are in 0..Grid
    Quanta,    \* per unit of loss, the inverse of group_loss_quantum
    Groups,    \* sequences of source groups, which are sequences of rows
    Weights,   \* class_weights of the evaluation policy, by label
    Gammas     \* the margins of the risk, as fractions

ScoredRows == [label : {0, 1}, before : 0..Grid, after : 0..Grid]

ASSUME DecisionAssumption ==
    /\ Grid \in Nat \ {0} /\ Quanta \in Nat \ {0}
    /\ Weights \subseteq [{0, 1} -> Nat \ {0}]
    /\ \A g \in Groups : g \in Seq(Seq(ScoredRows)) /\ Len(g) > 0 /\ \A i \in 1..Len(g) : Len(g[i]) > 0
    /\ \A m \in Gammas : m.num \in Nat /\ m.den \in Nat \ {0}

VARIABLES
    groups,    \* of the released probe
    weights,   \* of the candidate's policy
    gamma      \* of the candidate's allocation

decisionVars == <<groups, weights, gamma>>

DecisionInit == groups \in Groups /\ weights \in Weights /\ gamma \in Gammas

Total(values) ==
    LET total[k \in 0..Len(values)] == IF k = 0 THEN 0 ELSE total[k - 1] + values[k]
    IN  total[Len(values)]

Square(x) == x * x

TotalWeight(group) == Total([i \in 1..Len(group) |-> weights[group[i].label]])

\* The loss of a model is this over the total weight and the square of Grid.
WeightedLoss(group, model) ==
    Total([i \in 1..Len(group) |->
              weights[group[i].label] * Square(group[i][model] - Grid * group[i].label)])

\* Rounded to the nearest, and half way between two to the even one.
HalfEven(num, den) ==
    LET below == num \div den
        rest == 2 * (num % den)
    IN  IF rest < den \/ (rest = den /\ below % 2 = 0) THEN below ELSE below + 1

LossQuanta(group, model) ==
    LET unit == TotalWeight(group) * Square(Grid)
    IN  HalfEven(Quanta * Max({0, Min({unit, WeightedLoss(group, model)})}), unit)

\* Mutant: the models are taken in the wrong order.
Gain(group) == LossQuanta(group, "before") - LossQuanta(group, "after")

Difference(group) == LossQuanta(group, "after") - LossQuanta(group, "before")

\* The mean of the differences is at most -gamma.
GateDecision ==
    IF Total([i \in 1..Len(groups) |-> Difference(groups[i])]) * gamma.den
         <= -gamma.num * Len(groups) * Quanta
    THEN "commit"
    ELSE "reject"

------------------------------------------------------------------------------
(* Properties                                                              *)

Product(values) ==
    LET product[k \in 0..Len(values)] == IF k = 0 THEN 1 ELSE product[k - 1] * values[k]
    IN  product[Len(values)]

CommonWeight == Product([i \in 1..Len(groups) |-> TotalWeight(groups[i])])

\* The loss difference on the grid of all groups' weights, before any rounding.
ExactDifference ==
    Total([i \in 1..Len(groups) |->
              (WeightedLoss(groups[i], "after") - WeightedLoss(groups[i], "before"))
                  * (CommonWeight \div TotalWeight(groups[i]))])

\* Rounding never misjudges by more than a quantum: what is committed improves the
\* mean loss by gamma less one quantum, and what improves it by gamma and a quantum
\* is not rejected.
DecisionsHoldWithinAQuantum ==
    LET unit == Len(groups) * CommonWeight * Square(Grid)
        exact == ExactDifference * Quanta * gamma.den
    IN  IF GateDecision = "commit"
        THEN exact <= unit * (gamma.den - gamma.num * Quanta)
        ELSE exact > -unit * (gamma.den + gamma.num * Quanta)
================================================================================

----------------------------- MODULE RequiredGroups -----------------------------
(***************************************************************************)
(* required_groups (gate.py): the smallest number of source groups whose   *)
(* risk is within alpha.  A decimal estimate is tested first; if it is not *)
(* the answer, the search gallops away from it in steps that double and    *)
(* bisects what lies between the last two tests.  A test may fail to       *)
(* decide (RiskBound says how), which ends the search.                     *)
(***************************************************************************)
EXTENDS Integers

CONSTANTS
    Risks,      \* alpha, epsilon and gamma
    Estimates,  \* what the decimal logarithm may give, rounded up, at least 1
    Test(_, _), \* risk_is_satisfied: "yes", "no" or "raises"
    Least(_)    \* how many groups a risk really needs

ASSUME EstimateAssumption == Estimates \subseteq Nat \ {0}

VARIABLES
    risk, estimate,      \* the arguments and the estimate
    phase,
    lower, upper, step   \* the variables of required_groups

searchVars == <<risk, estimate, phase, lower, upper, step>>

Larger(a, b) == IF a > b THEN a ELSE b

SearchInit ==
    /\ risk \in Risks /\ estimate \in Estimates
    /\ phase = "estimate"
    /\ lower = 0 /\ upper = estimate /\ step = 1

Answer(n) ==
    /\ phase' = "done" /\ upper' = n
    /\ UNCHANGED <<risk, estimate, lower, step>>

Raise ==
    /\ phase' = "raised"
    /\ UNCHANGED <<risk, estimate, lower, upper, step>>

Search(newPhase, newLower, newUpper, newStep) ==
    /\ phase' = newPhase /\ lower' = newLower /\ upper' = newUpper /\ step' = newStep
    /\ UNCHANGED <<risk, estimate>>

\* Mutant: an estimate that suffices is taken for the smallest.
Suffices(n) == Test(risk, n) = "yes"

\* Nothing smaller is enough.
IsMinimal(n) == n = 1 \/ Test(risk, n - 1) = "no"

TestEstimate ==
    /\ phase = "estimate"
    /\ CASE Test(risk, estimate) = "yes" ->
              IF IsMinimal(estimate) THEN Answer(estimate)
              ELSE IF Test(risk, estimate - 1) = "raises" THEN Raise
              ELSE Search("down", Larger(0, estimate - 2), estimate - 1, 1)
         [] Test(risk, estimate) = "no" -> Search("up", estimate, estimate + 1, 1)
         [] OTHER -> Raise

\* Mutant: the search runs below zero.
BelowUnclamped(s) == estimate - s

Below(s) == Larger(0, estimate - s)

\* The first step below the estimate is tested twice: it is the estimate less two.
GallopDown ==
    /\ phase = "down"
    /\ CASE lower > 0 /\ Test(risk, lower) = "yes" ->
              Search("down", Below(2 * step), lower, 2 * step)
         [] lower > 0 /\ Test(risk, lower) = "raises" -> Raise
         [] OTHER -> Search("bisect", lower, upper, step)

GallopUp ==
    /\ phase = "up"
    /\ CASE Test(risk, upper) = "no" -> Search("up", upper, estimate + 2 * step, 2 * step)
         [] Test(risk, upper) = "yes" -> Search("bisect", lower, upper, step)
         [] OTHER -> Raise

\* Mutant: the search goes on between two neighbours.
LeavesAny == lower < upper

LeavesGap == lower + 1 < upper

Bisect ==
    LET midpoint == (lower + upper) \div 2
    IN  /\ phase = "bisect"
        /\ IF ~LeavesGap THEN Answer(upper)
           ELSE CASE Test(risk, midpoint) = "yes" -> Search("bisect", lower, midpoint, step)
                  [] Test(risk, midpoint) = "no" -> Search("bisect", midpoint, upper, step)
                  [] OTHER -> Raise

SearchNext == TestEstimate \/ GallopDown \/ GallopUp \/ Bisect

SearchSpec == SearchInit /\ [][SearchNext]_searchVars

------------------------------------------------------------------------------
(* Properties                                                              *)

Phases == {"estimate", "down", "up", "bisect", "done", "raised"}

\* The bounds of the search are numbers of groups.
TypeOK ==
    /\ phase \in Phases /\ estimate \in Nat \ {0}
    /\ lower \in Nat /\ upper \in Nat \ {0} /\ step \in Nat \ {0}

\* Wherever the estimate is and however the search gets there, what it answers is
\* the smallest sample that suffices: neither a wasted group nor a risk above alpha.
AnswersAreLeast == phase = "done" => upper = Least(risk)

\* A test that decides is right about the real bound, on both sides of alpha.
IsRight(r, n) ==
    /\ Test(r, n) = "yes" => n >= Least(r)
    /\ Test(r, n) = "no" => n < Least(r)

TestsAreRight == IsRight(risk, estimate)

\* The search comes to an end.
SearchEnds == <>(phase \in {"done", "raised"})
================================================================================

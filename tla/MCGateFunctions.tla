---------------------------- MODULE MCGateFunctions ----------------------------
(***************************************************************************)
(* The pure functions of the gate on small numbers: the search for the     *)
(* sample size, the evidence of a release and the decision, each varied    *)
(* beside one instance of the others.                                      *)
(***************************************************************************)
EXTENDS RiskReference, PublicRelease, GateDecision, TLC

\* 10^4 times e^(-k/8) rounded down, from k = 0.
ExpTable == <<10000, 8824, 7788, 6872, 6065, 5352, 4723, 4168, 3678, 3246, 2865,
              2528, 2231, 1969, 1737, 1533, 1353, 1194, 1053, 930, 820, 724, 639,
              564, 497, 439, 387, 342, 301, 266, 235, 207, 183, 161, 142, 125, 111,
              98, 86, 76, 67, 59, 52, 46, 40, 36, 31, 28, 24, 21, 19, 17, 15, 13, 11,
              10, 9, 8, 7, 6, 5>>

\* All rates are eighths.
MCReference(x) == ExpTable[x.num + 1]

\* (epsilon + gamma)^2 / 2 and alpha.
Rates == {[num |-> 1, den |-> 8], [num |-> 3, den |-> 8]}

Alphas == {[num |-> 1, den |-> 2], [num |-> 1, den |-> 8],
           [num |-> 3, den |-> 16], [num |-> 7, den |-> 8]}

\* A risk carries its tests, so that each is computed once.  From the estimates
\* of the run the search goes no further than 24 groups.
MCRisks ==
    {[rate |-> rate, alpha |-> alpha,
      tests |-> [n \in 1..24 |-> RiskIsSatisfied(Exponent(rate, n), alpha)]] :
        rate \in Rates, alpha \in Alphas}

\* No groups at all are an error.
MCTest(r, n) == IF n = 0 THEN "raises" ELSE r.tests[n]

MCLeast(r) ==
    LET IsEnough(n) ==
          (Reference(Exponent(r.rate, n)) + 1) * r.alpha.den <= r.alpha.num * ReferenceUnits
    IN  CHOOSE n \in 1..20 : IsEnough(n) /\ (n = 1 \/ ~IsEnough(n - 1))

\* Trees with odd levels at the bottom, above it and at both.
MCCatalogs ==
    {[i \in 1..n |-> [id |-> i, payload |-> payload[i]]] :
        n \in 1..6, payload \in {<<1, 2, 3, 4, 5, 6>>, <<2, 1, 3, 5, 4, 6>>}}

MCWords == {[c \in {0, 1} |-> w[c + 1]] : w \in {<<5, 3>>, <<5, 6>>, <<7, 2>>}}

\* A group with a row of either label, or two groups with a row each.
MCGroups ==
    LET Rows(labels) == [label : labels, before : 0..Grid, after : 0..Grid]
    IN  {<<<<first, second>>>> : first \in Rows({0}), second \in Rows({1})}
        \cup {<<<<first>>, <<second>>>> : first \in Rows({0, 1}), second \in Rows({1})}

MCWeights == {[label \in {0, 1} |-> w[label + 1]] : w \in {<<1, 1>>, <<2, 1>>}}

MCGammas == {[num |-> 0, den |-> 1], [num |-> 1, den |-> 4], [num |-> 3, den |-> 8]}

OneSearch == risk.rate.num = 1 /\ risk.alpha.den = 2 /\ estimate = 6

OneCatalog ==
    /\ catalog = <<[id |-> 1, payload |-> 1]>> /\ eligible = <<1>>
    /\ score = 2 /\ words = [c \in Counters |-> 0]

OneDecision ==
    /\ groups = <<<<[label |-> 0, before |-> 1, after |-> 0]>>>>
    /\ weights = [label \in {0, 1} |-> 1] /\ gamma = [num |-> 0, den |-> 1]

MCInit ==
    /\ SearchInit
    /\ \/ OneCatalog /\ OneDecision
       \/ OneSearch /\ EvidenceInit /\ score \in {1, 6} /\ OneDecision
       \/ OneSearch /\ OneCatalog /\ DecisionInit

MCNext == SearchNext /\ UNCHANGED <<evidenceVars, decisionVars>>

mcVars == <<searchVars, evidenceVars, decisionVars>>

MCSpec == MCInit /\ [][MCNext]_mcVars /\ WF_mcVars(MCNext)
================================================================================

----------------------------- MODULE RiskReference -----------------------------
(***************************************************************************)
(* The enclosures that the search for the sample size rests on, beside a   *)
(* table of the exponential.                                               *)
(***************************************************************************)
EXTENDS RequiredGroups, RiskBound

CONSTANTS
    Reference(_),       \* e^-x in units, rounded down
    ReferenceUnits,     \* how many units are one
    ReferencePrecision  \* the finest precision compared

\* The enclosure of the reference exponential contains it, at every precision and
\* with any number of terms.
EnclosuresHold ==
    phase = "estimate" =>
        \A terms \in FirstTerms..LastTerms, precision \in FirstPrecision..ReferencePrecision :
            LET x == Exponent(risk.rate, estimate)
                e == ExpNegInterval(x, terms, precision)
            IN  /\ e.lower * ReferenceUnits <= (Reference(x) + 1) * e.scale
                /\ e.upper * ReferenceUnits >= Reference(x) * e.scale
================================================================================

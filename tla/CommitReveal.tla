----------------------------- MODULE CommitReveal -----------------------------
(***************************************************************************)
(* What the beacon promises a verifier: a round is promised to one         *)
(* fixation while its predecessor is the last round there is, and the next *)
(* round that is revealed is the promised one.  Nobody can fix a candidate *)
(* for a round whose randomness exists, and no promise is exchanged.       *)
(***************************************************************************)
EXTENDS Naturals

CONSTANTS
    Genesis,
    FixedFor(_, _)  \* whether a fixation is for the round after another

VARIABLES
    head,     \* the last revealed round
    promised  \* every fixation a round was ever promised to

vars == <<head, promised>>

Init == head = Genesis /\ promised = {}

Commit ==
    \E c \in promised' \ promised :
        /\ promised' = promised \cup {c}
        /\ FixedFor(c, head)
        /\ \A d \in promised : ~FixedFor(d, head)
        /\ UNCHANGED head

Reveal ==
    \E c \in promised :
        /\ FixedFor(c, head)
        /\ head' = [number |-> head.number + 1, fixation |-> c]
        /\ UNCHANGED promised

Next == Commit \/ Reveal

Spec == Init /\ [][Next]_vars
================================================================================

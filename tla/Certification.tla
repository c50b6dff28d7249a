----------------------------- MODULE Certification -----------------------------
(***************************************************************************)
(* What the witness quorum promises whoever accepts its signatures: of the *)
(* statements about one scope, at most one is ever certified, and what is  *)
(* certified stays certified.  The scope of a core is the attempt it       *)
(* judges, the scope of a handover is the context that is left.            *)
(***************************************************************************)

VARIABLE certified  \* the statements that 2f+1 signatures exist for

Init == certified = {}

Certify ==
    \E s \in certified' \ certified :
        /\ certified' = certified \cup {s}
        /\ \A t \in certified : t.scope # s.scope

Spec == Init /\ [][Certify]_certified
================================================================================

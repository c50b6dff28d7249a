-------------------------------- MODULE OneUse --------------------------------
(***************************************************************************)
(* What the release of probes promises whoever accepts its evidence: a     *)
(* fixation is judged by one probe, an allocation pays for one fixation,   *)
(* and no source manifest is in the evidence of two fixations.             *)
(***************************************************************************)

CONSTANT Sources  \* the source manifests of a probe

VARIABLE used     \* the fixations with the probes released for them

Init == used = {}

Use ==
    \E u \in used' \ used :
        /\ used' = used \cup {u}
        /\ \A v \in used :
              /\ v.fixation # u.fixation
              /\ v.fixation.slot # u.fixation.slot
              /\ Sources[v.probe] \cap Sources[u.probe] = {}

Spec == Init /\ [][Use]_used
================================================================================

--------------------------- MODULE MCAuditRegistry ---------------------------
(* Small instances of the audit registry for TLC.                          *)
EXTENDS AuditRegistry

CONSTANTS p1, p2, r1, r2, m0, m1, probe1, probe2, probe3, twin1,
          MaxAttempts, MaxKeys,   \* two caps of the initial policy
          StartVersion            \* the model version the registry is created at

\* The first two probes share a source manifest, the third is disjoint.
MCManifests(probe) ==
    CASE probe = probe1 -> {"a"}
      [] probe = probe2 -> {"a", "b"}
      [] probe = probe3 -> {"c"}

MCInitialContext ==
    [twin |-> twin1, state_version |-> 0, policy |-> p1,
     model_version |-> StartVersion, authority |-> r1]

\* One handover, to the model version before or after the first commit.
ChainProposals ==
    {[MCInitialContext EXCEPT !.state_version = 1, !.model_version = v] : v \in {0, 1}}

\* Up to two handovers; a new roster, a new policy, a foreign twin and the
\* version after a commit are among them.
Successor(state, version, p, r) ==
    [MCInitialContext EXCEPT !.state_version = state, !.model_version = version,
                             !.policy = p, !.authority = r]

LineageProposals ==
    {Successor(1, 1, p1, r2), Successor(1, 1, p2, r1), Successor(1, 2, p1, r2),
     Successor(2, 2, p1, r2)}
    \cup {[Successor(1, 1, p1, r1) EXCEPT !.twin = t] : t \in Twins \ {twin1}}

\* The second roster replaces one of two keys.
MCKeys(roster) == IF roster = r1 THEN {1, 2} ELSE {2, 3}

MCProfile(p) ==
    IF p = p1
    THEN [max_attempts |-> MaxAttempts, max_verification_keys |-> MaxKeys,
          max_handover_count |-> 1]
    ELSE [max_attempts |-> 1, max_verification_keys |-> 3, max_handover_count |-> 2]
==============================================================================

---------------------------- MODULE MCProbeRelease ----------------------------
(* Small instances of probe release for TLC.                               *)
EXTENDS ProbeRelease, TLC

\* Two copies of a store and one whose catalog reuses a source of theirs.
MCFrameOf == [s \in Stores |-> IF s = "s3" THEN "B" ELSE "A"]

MCCatalog == "A" :> {1, 2, 3} @@ "B" :> {4}

MCSources ==
    1 :> {"m1", "n1"} @@ 2 :> {"m2", "n2"} @@ 3 :> {"m3", "n3"} @@ 4 :> {"m1", "n4"}

\* The value picks the probe that is preceded by that many, modulo the population.
MCDraw(r, E) ==
    CHOOSE p \in E : Cardinality({q \in E : q < p}) = r % Cardinality(E)

Proposal(slot, frame, round, eligible) ==
    [slot |-> slot, frame |-> frame, round |-> round, eligible |-> eligible,
     excluded |-> {}, groups |-> 2]

\* Two candidates of one allocation and one of another, fixed with the same
\* population, and one that is judged by the reused source.
First    == Proposal("a0", "A", 2, {1, 2, 3})
Rival    == Proposal("a0", "A", 3, {1, 2, 3})
Parallel == Proposal("a1", "A", 3, {1, 2, 3})
Later    == Proposal("b0", "B", 3, {4})
MCCandidates == {First, Rival, Parallel, Later}

MCPersistent == {First}
================================================================================

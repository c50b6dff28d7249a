------------------------------ MODULE MerkleTree ------------------------------
(***************************************************************************)
(* The binary hash tree over ordered leaves (canonical.py).  Hashes are    *)
(* the terms they are made of: a leaf's hash and an inner node's hash are  *)
(* never equal, since no leaf's encoding is the 64 bytes of two hashes.    *)
(***************************************************************************)
EXTENDS Integers, Sequences, SequencesExt

LeafHash(leaf) == <<"leaf", leaf>>

Node(left, right) == <<"node", left, right>>

\* Mutant: the last node of an odd level is left out.
EvenPart(level) ==
    IF Len(level) = 1 THEN level \o level
    ELSE IF Len(level) % 2 = 1 THEN Front(level) ELSE level

\* The last node of an odd level is its own sibling.
Padded(level) == IF Len(level) % 2 = 1 THEN Append(level, Last(level)) ELSE level

Parents(level) ==
    LET nodes == Padded(level)
    IN  [i \in 1..Len(nodes) \div 2 |-> Node(nodes[2 * i - 1], nodes[2 * i])]

\* Level by level from the leaves on, and further than the root.
Levels(leaves) ==
    LET level[h \in 0..Len(leaves)] ==
          IF h = 0 THEN [i \in 1..Len(leaves) |-> LeafHash(leaves[i])] ELSE Parents(level[h - 1])
    IN  level

\* The first level of one node.
Height(leaves) == CHOOSE h \in 0..Len(leaves) :
    Len(Levels(leaves)[h]) = 1 /\ \A g \in 0..h - 1 : Len(Levels(leaves)[g]) > 1

MerkleRoot(leaves) == IF leaves = <<>> THEN <<"empty">> ELSE Levels(leaves)[Height(leaves)][1]

Sibling(position) == IF position % 2 = 1 THEN position - 1 ELSE position + 1

\* Where a leaf's ancestors are; positions count from 0.
Positions(leaves, index) ==
    LET position[h \in 0..Len(leaves)] == IF h = 0 THEN index ELSE position[h - 1] \div 2
    IN  position

MerklePath(leaves, index) ==
    [h \in 1..Height(leaves) |->
        LET position == Positions(leaves, index)[h - 1]
        IN  [sibling |-> Padded(Levels(leaves)[h - 1])[Sibling(position) + 1],
             left |-> position % 2 = 1]]

\* Mutant: the side of a sibling is ignored.
ClimbLeft(node, turn) == Node(node, turn.sibling)

Climb(node, turn) == IF turn.left THEN Node(turn.sibling, node) ELSE Node(node, turn.sibling)

\* The nodes from a leaf's hash up along the path.
Nodes(leaf, path) ==
    LET node[h \in 0..Len(path)] == IF h = 0 THEN LeafHash(leaf) ELSE Climb(node[h - 1], path[h])
    IN  node

VerifyMerklePath(leaf, path, root) == Nodes(leaf, path)[Len(path)] = root
================================================================================

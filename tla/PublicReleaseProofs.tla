-------------------------- MODULE PublicReleaseProofs --------------------------
(***************************************************************************)
(* What the hash tree and the public tokens guarantee for catalogs of any  *)
(* length, proved with TLAPS.                                              *)
(***************************************************************************)
EXTENDS PublicRelease, DataLemmas, SequenceTheorems, TLAPS

------------------------------------------------------------------------------
(* Terms and levels                                                        *)

\* Hashes are terms, so a node determines its children and is no leaf's hash.
LEMMA Terms ==
    /\ \A a, b : LeafHash(a) = LeafHash(b) => a = b
    /\ \A a, b, c, d : Node(a, b) = Node(c, d) => a = c /\ b = d
    /\ \A a, b, c : LeafHash(a) # Node(b, c)
  BY DEF LeafHash, Node

\* A level as the code builds it: at least one node.
IsLevel(level) ==
    /\ Len(level) \in Nat \ {0}
    /\ level = [i \in 1..Len(level) |-> level[i]]

\* Halving, rounded up and down.
LEMMA Halves ==
    ASSUME NEW m \in Nat
    PROVE  /\ m % 2 = 1 => m + 1 = 2 * ((m + 1) \div 2)
           /\ m % 2 # 1 => m % 2 = 0 /\ m = 2 * ((m + 1) \div 2) /\ m = 2 * (m \div 2)
           /\ (2 * m) \div 2 = m /\ (2 * m + 1) \div 2 = m
           /\ m \div 2 \in Nat /\ (m + 1) \div 2 \in Nat
  OBVIOUS

\* Padding adds the last node again, where the number of nodes is odd.
LEMMA PaddedLevel ==
    ASSUME NEW level, IsLevel(level)
    PROVE  /\ Len(Padded(level)) = 2 * ((Len(level) + 1) \div 2)
           /\ \A i \in 1..Len(level) : Padded(level)[i] = level[i]
           /\ Len(level) % 2 = 1 => Padded(level)[Len(level) + 1] = level[Len(level)]
<1> DEFINE S == {level[i] : i \in 1..Len(level)}
<1>1. level \in Seq(S)
  BY FunctionIsSeq DEF IsLevel
<1>2. Last(level) = level[Len(level)] /\ Last(level) \in S
  BY DEF Last, IsLevel
<1>3. CASE Len(level) % 2 = 1
  <2>1. Padded(level) = Append(level, Last(level))
    BY <1>3 DEF Padded
  <2>2. /\ Len(Padded(level)) = Len(level) + 1
        /\ \A i \in 1..Len(level) : Padded(level)[i] = level[i]
        /\ Padded(level)[Len(level) + 1] = level[Len(level)]
    <3> HIDE DEF S
    <3> QED
      BY <1>1, <1>2, <2>1, AppendProperties
  <2> QED
    BY <1>3, <2>2, Halves DEF IsLevel
<1>4. CASE Len(level) % 2 # 1
  <2>1. Padded(level) = level
    BY <1>4 DEF Padded
  <2> QED
    BY <1>4, <2>1, Halves DEF IsLevel
<1> QED
  BY <1>3, <1>4

\* The parents of a level are a level of half as many nodes, rounded up.
LEMMA ParentLevel ==
    ASSUME NEW level, IsLevel(level)
    PROVE  /\ IsLevel(Parents(level))
           /\ Len(Parents(level)) = (Len(level) + 1) \div 2
           /\ \A i \in 1..Len(Parents(level)) :
                 Parents(level)[i] = Node(Padded(level)[2 * i - 1], Padded(level)[2 * i])
<1> DEFINE half == (Len(level) + 1) \div 2
<1>1. half \in Nat \ {0} /\ (2 * half) \div 2 = half
  BY Halves DEF IsLevel
<1>2. Parents(level) = [i \in 1..half |-> Node(Padded(level)[2 * i - 1], Padded(level)[2 * i])]
  <2>1. Len(Padded(level)) = 2 * half
    BY PaddedLevel
  <2> QED
    BY <1>1, <2>1 DEF Parents
<1>3. Parents(level) = [i \in 1..half |-> Parents(level)[i]]
  BY <1>2
<1>4. Len(Parents(level)) = half
  BY <1>1, <1>3, FunctionIsSeq
<1> QED
  BY <1>1, <1>2, <1>3, <1>4 DEF IsLevel

------------------------------------------------------------------------------
(* The recursive functions exist                                           *)

\* The leaves' hashes.
Leaves(leaves) == [i \in 1..Len(leaves) |-> LeafHash(leaves[i])]

\* f holds the levels 0 to n.
AreLevels(f, leaves, n) ==
    f = [h \in 0..n |-> IF h = 0 THEN Leaves(leaves) ELSE Parents(f[h - 1])]

LEMMA LevelsDef ==
    ASSUME NEW leaves, Len(leaves) \in Nat
    PROVE  AreLevels(Levels(leaves), leaves, Len(leaves))
<1> DEFINE Bad == {n \in Nat : \A f : ~AreLevels(f, leaves, n)}
<1>1. Bad = {}
  <2> SUFFICES ASSUME Bad # {} PROVE FALSE
    OBVIOUS
  <2>1. PICK n \in Bad : \A m \in Bad : n <= m
    <3>1. Bad \in SUBSET Nat
      OBVIOUS
    <3> HIDE DEF Bad
    <3> QED
      BY <3>1, LeastNumber
  <2>2. n # 0
    <3>1. AreLevels([h \in 0..0 |-> Leaves(leaves)], leaves, 0)
      BY DEF AreLevels
    <3> QED
      BY <3>1
  <2>3. PICK g : AreLevels(g, leaves, n - 1)
    <3>1. n - 1 \in Nat /\ n - 1 \notin Bad
      BY <2>1, <2>2
    <3> QED
      BY <3>1
  <2> DEFINE f == [h \in 0..n |-> IF h = n THEN Parents(g[n - 1]) ELSE g[h]]
  <2>4. AreLevels(f, leaves, n)
    <3>1. ASSUME NEW h \in 0..n
          PROVE  f[h] = IF h = 0 THEN Leaves(leaves) ELSE Parents(f[h - 1])
      BY <2>2, <2>3 DEF AreLevels
    <3> QED
      BY <3>1 DEF AreLevels
  <2> QED
    BY <2>4
<1>2. \E f : AreLevels(f, leaves, Len(leaves))
  BY <1>1
<1>3. Levels(leaves) = CHOOSE f : AreLevels(f, leaves, Len(leaves))
  BY Zenon DEF Levels, AreLevels, Leaves
<1> QED
  BY <1>2, <1>3

\* f holds the positions 0 to n of a leaf's ancestors.
ArePositions(f, index, n) ==
    f = [h \in 0..n |-> IF h = 0 THEN index ELSE f[h - 1] \div 2]

LEMMA PositionsDef ==
    ASSUME NEW leaves, NEW index, Len(leaves) \in Nat
    PROVE  ArePositions(Positions(leaves, index), index, Len(leaves))
<1> DEFINE Bad == {n \in Nat : \A f : ~ArePositions(f, index, n)}
<1>1. Bad = {}
  <2> SUFFICES ASSUME Bad # {} PROVE FALSE
    OBVIOUS
  <2>1. PICK n \in Bad : \A m \in Bad : n <= m
    <3>1. Bad \in SUBSET Nat
      OBVIOUS
    <3> HIDE DEF Bad
    <3> QED
      BY <3>1, LeastNumber
  <2>2. n # 0
    <3>1. ArePositions([h \in 0..0 |-> index], index, 0)
      BY DEF ArePositions
    <3> QED
      BY <3>1
  <2>3. PICK g : ArePositions(g, index, n - 1)
    <3>1. n - 1 \in Nat /\ n - 1 \notin Bad
      BY <2>1, <2>2
    <3> QED
      BY <3>1
  <2> DEFINE f == [h \in 0..n |-> IF h = n THEN g[n - 1] \div 2 ELSE g[h]]
  <2>4. ArePositions(f, index, n)
    <3>1. ASSUME NEW h \in 0..n
          PROVE  f[h] = IF h = 0 THEN index ELSE f[h - 1] \div 2
      BY <2>2, <2>3 DEF ArePositions
    <3> QED
      BY <3>1 DEF ArePositions
  <2> QED
    BY <2>4
<1>2. \E f : ArePositions(f, index, Len(leaves))
  BY <1>1
<1>3. Positions(leaves, index) = CHOOSE f : ArePositions(f, index, Len(leaves))
  BY Zenon DEF Positions, ArePositions
<1> QED
  BY <1>2, <1>3

\* f holds the nodes 0 to n that a path leads through.
AreNodes(f, leaf, path, n) ==
    f = [h \in 0..n |-> IF h = 0 THEN LeafHash(leaf) ELSE Climb(f[h - 1], path[h])]

LEMMA NodesDef ==
    ASSUME NEW leaf, NEW path, Len(path) \in Nat
    PROVE  AreNodes(Nodes(leaf, path), leaf, path, Len(path))
<1> DEFINE Bad == {n \in Nat : \A f : ~AreNodes(f, leaf, path, n)}
<1>1. Bad = {}
  <2> SUFFICES ASSUME Bad # {} PROVE FALSE
    OBVIOUS
  <2>1. PICK n \in Bad : \A m \in Bad : n <= m
    <3>1. Bad \in SUBSET Nat
      OBVIOUS
    <3> HIDE DEF Bad
    <3> QED
      BY <3>1, LeastNumber
  <2>2. n # 0
    <3>1. AreNodes([h \in 0..0 |-> LeafHash(leaf)], leaf, path, 0)
      BY DEF AreNodes
    <3> QED
      BY <3>1
  <2>3. PICK g : AreNodes(g, leaf, path, n - 1)
    <3>1. n - 1 \in Nat /\ n - 1 \notin Bad
      BY <2>1, <2>2
    <3> QED
      BY <3>1
  <2> DEFINE f == [h \in 0..n |-> IF h = n THEN Climb(g[n - 1], path[n]) ELSE g[h]]
  <2>4. AreNodes(f, leaf, path, n)
    <3>1. ASSUME NEW h \in 0..n
          PROVE  f[h] = IF h = 0 THEN LeafHash(leaf) ELSE Climb(f[h - 1], path[h])
      BY <2>2, <2>3 DEF AreNodes
    <3> QED
      BY <3>1 DEF AreNodes
  <2> QED
    BY <2>4
<1>2. \E f : AreNodes(f, leaf, path, Len(path))
  BY <1>1
<1>3. Nodes(leaf, path) = CHOOSE f : AreNodes(f, leaf, path, Len(path))
  BY Zenon DEF Nodes, AreNodes
<1> QED
  BY <1>2, <1>3

------------------------------------------------------------------------------
(* The shape of the tree                                                   *)

\* Every level is one, the next has half as many nodes, rounded up ...
LEMMA LevelShape ==
    ASSUME NEW leaves, Len(leaves) \in Nat \ {0}
    PROVE  /\ Levels(leaves)[0] = Leaves(leaves) /\ Len(Leaves(leaves)) = Len(leaves)
           /\ \A h \in 0..Len(leaves) : IsLevel(Levels(leaves)[h])
           /\ \A h \in 1..Len(leaves) :
                 /\ Levels(leaves)[h] = Parents(Levels(leaves)[h - 1])
                 /\ Len(Levels(leaves)[h]) = (Len(Levels(leaves)[h - 1]) + 1) \div 2
<1> DEFINE n == Len(leaves)
           L == Levels(leaves)
<1> HIDE DEF L
<1>1. /\ L[0] = Leaves(leaves)
      /\ \A h \in 1..n : L[h] = Parents(L[h - 1])
  <2>1. L = [h \in 0..n |-> IF h = 0 THEN Leaves(leaves) ELSE Parents(L[h - 1])]
    BY LevelsDef DEF AreLevels, L
  <2> QED
    BY <2>1
<1>2. IsLevel(Leaves(leaves)) /\ Len(Leaves(leaves)) = n
  <2>1. Leaves(leaves) = [i \in 1..n |-> Leaves(leaves)[i]]
    BY DEF Leaves
  <2>2. Len(Leaves(leaves)) = n
    BY <2>1, FunctionIsSeq
  <2> QED
    BY <2>1, <2>2 DEF IsLevel
<1>3. \A h \in 0..n : IsLevel(L[h])
  <2> DEFINE Bad == {h \in 0..n : ~IsLevel(L[h])}
  <2> SUFFICES ASSUME Bad # {} PROVE FALSE
    OBVIOUS
  <2>1. PICK h \in Bad : \A g \in Bad : h <= g
    <3>1. Bad \in SUBSET Nat
      OBVIOUS
    <3> HIDE DEF Bad
    <3> QED
      BY <3>1, LeastNumber
  <2>2. h \in 1..n
    BY <1>1, <1>2, <2>1
  <2>3. IsLevel(L[h - 1])
    BY <2>1, <2>2
  <2> QED
    BY <1>1, <2>1, <2>2, <2>3, ParentLevel
<1>4. ASSUME NEW h \in 1..n PROVE Len(L[h]) = (Len(L[h - 1]) + 1) \div 2
  <2>1. IsLevel(L[h - 1])
    BY <1>3
  <2> QED
    BY <1>1, <2>1, ParentLevel
<1> QED
  BY <1>1, <1>2, <1>3, <1>4 DEF L

\* ... so some level has one node, and Height is the first.
LEMMA HeightDef ==
    ASSUME NEW leaves, Len(leaves) \in Nat \ {0}
    PROVE  /\ Height(leaves) \in 0..Len(leaves)
           /\ Len(Levels(leaves)[Height(leaves)]) = 1
           /\ \A h \in 0..Height(leaves) - 1 : Len(Levels(leaves)[h]) > 1
<1> DEFINE n == Len(leaves)
           w == [h \in 0..n |-> Len(Levels(leaves)[h])]
<1>1. /\ w[0] = n
      /\ \A h \in 0..n : w[h] \in Nat \ {0}
      /\ \A h \in 1..n : w[h] = (w[h - 1] + 1) \div 2
  <2>1. \A h \in 0..n : w[h] = Len(Levels(leaves)[h])
    OBVIOUS
  <2> HIDE DEF w
  <2>2. w[0] = n
    <3>1. 0 \in 0..n
      OBVIOUS
    <3>2. Levels(leaves)[0] = Leaves(leaves) /\ Len(Leaves(leaves)) = n
      BY LevelShape
    <3> QED
      BY <2>1, <3>1, <3>2
  <2>3. ASSUME NEW h \in 0..n PROVE w[h] \in Nat \ {0}
    <3>1. IsLevel(Levels(leaves)[h])
      BY LevelShape
    <3> QED
      BY <2>1, <3>1 DEF IsLevel
  <2>4. ASSUME NEW h \in 1..n PROVE w[h] = (w[h - 1] + 1) \div 2
    <3>1. h \in 0..n /\ h - 1 \in 0..n
      OBVIOUS
    <3> QED
      BY <2>1, <3>1, LevelShape
  <2> QED
    BY <2>2, <2>3, <2>4
<1> HIDE DEF w
<1>2. \A h \in 0..n : w[h] = 1 \/ w[h] + h <= n
  <2> DEFINE Bad == {h \in 0..n : ~(w[h] = 1 \/ w[h] + h <= n)}
  <2> SUFFICES ASSUME Bad # {} PROVE FALSE
    OBVIOUS
  <2>1. PICK h \in Bad : \A g \in Bad : h <= g
    <3>1. Bad \in SUBSET Nat
      OBVIOUS
    <3> HIDE DEF Bad
    <3> QED
      BY <3>1, LeastNumber
  <2>2. h \in 1..n
    BY <1>1, <2>1
  <2>3. w[h - 1] = 1 \/ w[h - 1] + (h - 1) <= n
    BY <2>1, <2>2
  <2>4. w[h - 1] \in Nat \ {0} /\ w[h] = (w[h - 1] + 1) \div 2
    BY <1>1, <2>2
  <2>5. w[h] = 1 \/ w[h] <= w[h - 1] - 1
    BY <2>4
  <2> QED
    BY <1>1, <2>1, <2>2, <2>3, <2>5
<1>3. w[n] = 1
  BY <1>1, <1>2
<1>4. PICK h \in 0..n : w[h] = 1 /\ \A g \in 0..n : w[g] = 1 => h <= g
  <2> DEFINE T == {h \in 0..n : w[h] = 1}
  <2>1. T \in SUBSET Nat /\ T # {}
    BY <1>3
  <2>2. PICK h \in T : \A g \in T : h <= g
    <3> HIDE DEF T
    <3> QED
      BY <2>1, LeastNumber
  <2> QED
    BY <2>2
<1>5. \A g \in 0..n : w[g] = Len(Levels(leaves)[g])
  BY DEF w
<1>6. ASSUME NEW g \in 0..h - 1 PROVE Len(Levels(leaves)[g]) > 1
  <2>1. g \in 0..n /\ ~(h <= g)
    OBVIOUS
  <2>2. w[g] \in Nat \ {0} /\ w[g] # 1
    BY <1>1, <1>4, <2>1
  <2> QED
    BY <1>5, <2>1, <2>2
<1>7. Len(Levels(leaves)[h]) = 1
  BY <1>4, <1>5
<1> QED
  BY <1>6, <1>7 DEF Height

------------------------------------------------------------------------------
(* The path of a leaf verifies                                             *)

\* One turn of the path leads from a node to its parent.
LEMMA TurnToParent ==
    ASSUME NEW level, IsLevel(level), NEW p \in 0..Len(level) - 1
    PROVE  /\ p \div 2 \in 0..Len(Parents(level)) - 1
           /\ Climb(level[p + 1], [sibling |-> Padded(level)[Sibling(p) + 1], left |-> p % 2 = 1])
                = Parents(level)[p \div 2 + 1]
<1> DEFINE q == p \div 2
           turn == [sibling |-> Padded(level)[Sibling(p) + 1], left |-> p % 2 = 1]
<1>1. Len(level) \in Nat \ {0} /\ p \in Nat
  BY DEF IsLevel
<1>2. q \in 0..(Len(level) + 1) \div 2 - 1
  BY <1>1
<1>3. q \in 0..Len(Parents(level)) - 1 /\ q + 1 \in 1..Len(Parents(level))
  <2> HIDE DEF q
  <2>1. Len(Parents(level)) \in Nat
    BY ParentLevel DEF IsLevel
  <2> QED
    BY <1>2, <2>1, ParentLevel
<1>4. Parents(level)[q + 1] = Node(Padded(level)[2 * (q + 1) - 1], Padded(level)[2 * (q + 1)])
  BY <1>3, ParentLevel
<1>5. Padded(level)[p + 1] = level[p + 1]
  BY <1>1, PaddedLevel
<1>6. CASE p % 2 = 1
  <2>1. 2 * (q + 1) - 1 = Sibling(p) + 1 /\ 2 * (q + 1) = p + 1
    BY <1>1, <1>6 DEF Sibling
  <2>2. Climb(level[p + 1], turn) = Node(Padded(level)[Sibling(p) + 1], level[p + 1])
    BY <1>6 DEF Climb
  <2> QED
    BY <1>3, <1>4, <1>5, <2>1, <2>2
<1>7. CASE p % 2 # 1
  <2>1. 2 * (q + 1) - 1 = p + 1 /\ 2 * (q + 1) = Sibling(p) + 1
    BY <1>1, <1>7 DEF Sibling
  <2>2. Climb(level[p + 1], turn) = Node(level[p + 1], Padded(level)[Sibling(p) + 1])
    BY <1>7 DEF Climb
  <2> QED
    BY <1>3, <1>4, <1>5, <2>1, <2>2
<1> QED
  BY <1>6, <1>7

\* The path that the code computes for an index verifies the leaf that is there.
LEMMA PathVerifies ==
    ASSUME NEW leaves, Len(leaves) \in Nat \ {0}, NEW index \in 0..Len(leaves) - 1
    PROVE  /\ Len(MerklePath(leaves, index)) = Height(leaves)
           /\ VerifyMerklePath(leaves[index + 1], MerklePath(leaves, index), MerkleRoot(leaves))
<1> DEFINE n == Len(leaves)
           L == Levels(leaves)
           pos == Positions(leaves, index)
           path == MerklePath(leaves, index)
           H == Height(leaves)
           node == Nodes(leaves[index + 1], path)
<1>1. H \in 0..n /\ H \in Nat
  BY HeightDef
<1>2. path = [h \in 1..H |-> path[h]]
  BY DEF MerklePath
<1>3. Len(path) = H
  <2> HIDE DEF path, H
  <2> QED
    BY <1>1, <1>2, FunctionIsSeq
<1>4. \A h \in 1..H : path[h] =
        [sibling |-> Padded(L[h - 1])[Sibling(pos[h - 1]) + 1], left |-> pos[h - 1] % 2 = 1]
  BY DEF MerklePath
<1>5. node = [h \in 0..H |-> IF h = 0 THEN LeafHash(leaves[index + 1]) ELSE Climb(node[h - 1], path[h])]
  <2> HIDE DEF path, H
  <2>1. AreNodes(Nodes(leaves[index + 1], path), leaves[index + 1], path, Len(path))
    BY <1>1, <1>3, NodesDef
  <2> QED
    BY <1>3, <2>1 DEF AreNodes
<1>6. pos = [h \in 0..n |-> IF h = 0 THEN index ELSE pos[h - 1] \div 2]
  BY PositionsDef DEF ArePositions
<1> HIDE DEF path, node, pos, H
<1>7. \A h \in 0..H : pos[h] \in 0..Len(L[h]) - 1 /\ node[h] = L[h][pos[h] + 1]
  <2> DEFINE Bad == {h \in 0..H : ~(pos[h] \in 0..Len(L[h]) - 1 /\ node[h] = L[h][pos[h] + 1])}
  <2> SUFFICES ASSUME Bad # {} PROVE FALSE
    OBVIOUS
  <2>1. PICK h \in Bad : \A g \in Bad : h <= g
    <3>1. Bad \in SUBSET Nat
      OBVIOUS
    <3> HIDE DEF Bad
    <3> QED
      BY <3>1, LeastNumber
  <2>2. CASE h = 0
    <3>1. pos[0] = index /\ node[0] = LeafHash(leaves[index + 1])
      BY <1>1, <1>5, <1>6
    <3>2. L[0] = Leaves(leaves) /\ Len(L[0]) = n
      BY LevelShape
    <3>3. Leaves(leaves)[index + 1] = LeafHash(leaves[index + 1])
      BY DEF Leaves
    <3> QED
      BY <2>1, <2>2, <3>1, <3>2, <3>3
  <2>3. CASE h # 0
    <3>1. h \in 1..H /\ h - 1 \in 0..H /\ h \in 1..n /\ h - 1 \in 0..n
      BY <1>1, <2>1, <2>3
    <3>2. pos[h - 1] \in 0..Len(L[h - 1]) - 1 /\ node[h - 1] = L[h - 1][pos[h - 1] + 1]
      BY <2>1, <3>1
    <3>3. IsLevel(L[h - 1]) /\ L[h] = Parents(L[h - 1])
      BY <3>1, LevelShape
    <3>4. pos[h] = pos[h - 1] \div 2 /\ node[h] = Climb(node[h - 1], path[h])
      BY <1>5, <1>6, <3>1
    <3>5. path[h] = [sibling |-> Padded(L[h - 1])[Sibling(pos[h - 1]) + 1],
                     left |-> pos[h - 1] % 2 = 1]
      BY <1>4, <3>1
    <3>6. pos[h] \in 0..Len(L[h]) - 1 /\ node[h] = L[h][pos[h] + 1]
      <4> HIDE DEF L
      <4> QED
        BY <3>2, <3>3, <3>4, <3>5, TurnToParent
    <3> QED
      BY <2>1, <3>6
  <2> QED
    BY <2>2, <2>3
<1>8. node[H] = L[H][1]
  <2>1. Len(L[H]) = 1
    BY HeightDef DEF H
  <2>2. pos[H] \in 0..Len(L[H]) - 1 /\ node[H] = L[H][pos[H] + 1]
    <3>1. H \in 0..H
      BY <1>1
    <3> HIDE DEF L
    <3> QED
      BY <1>7, <3>1
  <2>3. pos[H] + 1 = 1
    BY <2>1, <2>2
  <2> QED
    BY <2>2, <2>3
<1>9. MerkleRoot(leaves) = L[H][1]
  <2>1. leaves # <<>>
    OBVIOUS
  <2> QED
    BY <2>1 DEF MerkleRoot, H
<1> QED
  BY <1>3, <1>8, <1>9 DEF VerifyMerklePath, node, path, H

------------------------------------------------------------------------------
(* The token of the drawn probe                                            *)

\* What catalog, population and hashes are.
LEMMA EvidenceTypes ==
    ASSUME EvidenceInit
    PROVE  /\ Len(catalog) \in Nat \ {0}
           /\ catalog \in Seq([id : Nat, payload : Payloads])
           /\ \A i, j \in 1..Len(catalog) : i < j => catalog[i].id < catalog[j].id
           /\ Len(eligible) \in Nat \ {0}
           /\ eligible \in [1..Len(eligible) -> ids(catalog)]
           /\ words \in [Counters -> 0..Modulus - 1]
<1>1. /\ catalog \in Seq([id : Nat, payload : Payloads])
      /\ \A i, j \in 1..Len(catalog) : i < j => catalog[i].id < catalog[j].id
      /\ words \in [Counters -> 0..Modulus - 1]
  BY EvidenceAssumption DEF EvidenceInit, Counters
<1>2. Len(catalog) \in Nat
  BY <1>1, LenProperties
<1>3. PICK n \in 1..Len(catalog) : eligible \in [1..n -> ids(catalog)]
  BY DEF EvidenceInit
<1>4. n \in Nat \ {0} /\ Len(catalog) # 0
  BY <1>2, <1>3
<1>5. Len(eligible) = n
  <2>1. eligible = [i \in 1..n |-> eligible[i]]
    BY <1>3
  <2> QED
    BY <1>4, <2>1, FunctionIsSeq
<1> QED
  BY <1>1, <1>2, <1>3, <1>4, <1>5

\* The draw picks the least counter, and an entry of the catalog.
LEMMA DrawDef ==
    ASSUME EvidenceInit, Accepts(Len(eligible)) # {}
    PROVE  /\ DrawCounter(Len(eligible)) \in Accepts(Len(eligible))
           /\ DrawCounter(Len(eligible)) \in Counters
           /\ DrawIndex(Len(eligible)) + 1 \in 1..Len(eligible)
           /\ Drawn \in 1..Len(catalog)
           /\ catalog[Drawn].id = eligible[DrawIndex(Len(eligible)) + 1]
<1> DEFINE n == Len(eligible)
<1>1. \E c \in Accepts(n) : \A d \in Accepts(n) : c <= d
  <2>1. Accepts(n) \in SUBSET Nat
    BY EvidenceAssumption DEF Accepts, Counters
  <2> QED
    BY <2>1, LeastNumber
<1>2. DrawCounter(n) \in Accepts(n)
  BY <1>1 DEF DrawCounter
<1>3. DrawCounter(n) \in Counters
  BY <1>2 DEF Accepts
<1>4. words[DrawCounter(n)] \in Nat /\ n \in Nat \ {0}
  BY <1>3, EvidenceTypes, EvidenceAssumption
<1>5. DrawIndex(n) + 1 \in 1..n
  BY <1>4 DEF DrawIndex
<1>6. \E i \in 1..Len(catalog) : catalog[i].id = eligible[DrawIndex(n) + 1]
  <2>1. eligible[DrawIndex(n) + 1] \in ids(catalog)
    BY <1>5, EvidenceTypes
  <2> QED
    BY <2>1 DEF ids
<1>7. Drawn \in 1..Len(catalog) /\ catalog[Drawn].id = eligible[DrawIndex(n) + 1]
  BY <1>6 DEF Drawn
<1> QED
  BY <1>2, <1>3, <1>5, <1>7

\* The token of the drawn probe is well formed and verifies, for catalogs,
\* populations and hash functions of any size: a release that was paid for has
\* evidence that everybody can check (ProbeRelease.public_release,
\* verify_public_release).
THEOREM EvidenceIsAccepted == EvidenceInit => TokensVerify
<1> SUFFICES ASSUME EvidenceInit, Accepts(Len(eligible)) # {}, catalog[Drawn].payload # score
             PROVE  IsWellFormed(PublicToken) /\ VerifyPublicRelease(PublicToken)
  BY DEF TokensVerify
<1> DEFINE n == Len(eligible)
           path == MerklePath(catalog, Drawn - 1)
<1>1. /\ PublicToken.root = MerkleRoot(catalog) /\ PublicToken.eligible = eligible
      /\ PublicToken.entry = catalog[Drawn] /\ PublicToken.path = path
      /\ PublicToken.counter = DrawCounter(n)
      /\ PublicToken.signed = ReleaseFields(PublicToken)
  BY DEF PublicToken, Token, ReleaseFields
<1>2. IsWellFormed(PublicToken)
  BY <1>1, DrawDef DEF IsWellFormed
<1>3. \A i \in 1..Len(eligible) : eligible[i] \in ids(catalog)
  BY EvidenceTypes
<1>4. IsDrawn(PublicToken)
  BY <1>1, DrawDef DEF IsDrawn
<1>5. IsInCatalog(PublicToken)
  <2>1. Drawn - 1 \in 0..Len(catalog) - 1 /\ (Drawn - 1) + 1 = Drawn
    BY DrawDef, EvidenceTypes
  <2>2. VerifyMerklePath(catalog[Drawn], path, MerkleRoot(catalog))
    BY <2>1, EvidenceTypes, PathVerifies
  <2> QED
    BY <1>1, <2>2 DEF IsInCatalog
<1> QED
  BY <1>1, <1>2, <1>3, <1>4, <1>5 DEF VerifyPublicRelease

------------------------------------------------------------------------------
(* Only leaves have paths                                                  *)

\* Padding adds no new node.
LEMMA PaddedNodes ==
    ASSUME NEW level, IsLevel(level), NEW i \in 1..2 * ((Len(level) + 1) \div 2)
    PROVE  \E j \in 1..Len(level) : Padded(level)[i] = level[j]
<1>1. Len(level) \in Nat \ {0}
  BY DEF IsLevel
<1>2. CASE i <= Len(level)
  BY <1>1, <1>2, PaddedLevel
<1>3. CASE i > Len(level)
  <2>1. Len(level) % 2 = 1 /\ i = Len(level) + 1
    BY <1>1, <1>3
  <2> QED
    BY <1>1, <2>1, PaddedLevel
<1> QED
  BY <1>1, <1>2, <1>3

\* x is a node of the level.
Has(level, x) == \E i \in 1..Len(level) : x = level[i]

\* What a node of the tree is made of is in the level below it.
LEMMA ChildrenOfParents ==
    ASSUME NEW level, IsLevel(level), NEW a, NEW b, Has(Parents(level), Node(a, b))
    PROVE  Has(level, a) /\ Has(level, b)
<1> DEFINE half == (Len(level) + 1) \div 2
<1>1. PICK i \in 1..Len(Parents(level)) : Node(a, b) = Parents(level)[i]
  BY DEF Has
<1>2. i \in 1..half /\ half \in Nat
  BY <1>1, ParentLevel, Halves DEF IsLevel
<1>3. a = Padded(level)[2 * i - 1] /\ b = Padded(level)[2 * i]
  BY <1>1, ParentLevel, Terms
<1>4. 2 * i - 1 \in 1..2 * half /\ 2 * i \in 1..2 * half
  <2> HIDE DEF half
  <2> QED
    BY <1>2
<1> QED
  BY <1>3, <1>4, PaddedNodes DEF Has

\* The nodes that a verifying path leads through are nodes of the tree, from the
\* root down, so the path is as long as the tree is high and begins at a leaf.
LEMMA OnlyLeavesHavePaths ==
    ASSUME NEW leaves, Len(leaves) \in Nat \ {0}, NEW leaf, NEW path, Len(path) \in Nat,
           VerifyMerklePath(leaf, path, MerkleRoot(leaves))
    PROVE  \E i \in 1..Len(leaves) : leaf = leaves[i]
<1> DEFINE L == Levels(leaves)
           H == Height(leaves)
           m == Len(path)
           node == Nodes(leaf, path)
<1>1. H \in 0..Len(leaves) /\ H \in Nat /\ Len(L[H]) = 1
  BY HeightDef
<1>2. /\ node[0] = LeafHash(leaf)
      /\ \A h \in 1..m : node[h] = Climb(node[h - 1], path[h])
  <2>1. node = [h \in 0..m |-> IF h = 0 THEN LeafHash(leaf) ELSE Climb(node[h - 1], path[h])]
    BY NodesDef DEF AreNodes
  <2> HIDE DEF node, m
  <2>2. m \in Nat
    BY DEF m
  <2> QED
    BY <2>1, <2>2
<1>3. node[m] = L[H][1]
  <2>1. leaves # <<>>
    OBVIOUS
  <2> QED
    BY <2>1 DEF MerkleRoot, VerifyMerklePath
<1>4. ASSUME NEW h \in 1..m PROVE \E a, b : node[h] = Node(a, b) /\ (node[h - 1] = a \/ node[h - 1] = b)
  BY <1>2 DEF Climb
<1>5. ASSUME NEW h \in 0..H PROVE IsLevel(L[h])
  <2>1. h \in 0..Len(leaves)
    BY <1>1
  <2> QED
    BY <2>1, LevelShape
<1>6. ASSUME NEW h \in 1..H PROVE L[h] = Parents(L[h - 1])
  <2>1. h \in 1..Len(leaves)
    BY <1>1
  <2> QED
    BY <2>1, LevelShape
<1>7. L[0] = Leaves(leaves) /\ Len(L[0]) = Len(leaves)
  BY LevelShape
<1> HIDE DEF L, H, node, m
<1>8. m \in Nat
  BY DEF m
<1>9. \A g \in 0..m, h \in 0..H : m - g = H - h => Has(L[h], node[g])
  <2> DEFINE Bad == {k \in Nat : \E g \in 0..m, h \in 0..H :
                        m - g = k /\ H - h = k /\ ~Has(L[h], node[g])}
  <2> SUFFICES ASSUME NEW g \in 0..m, NEW h \in 0..H, m - g = H - h, ~Has(L[h], node[g])
               PROVE  FALSE
    OBVIOUS
  <2>0. m - g \in Nat /\ m - g \in Bad
    BY <1>1, <1>8
  <2>1. PICK k \in Bad : \A i \in Bad : k <= i
    <3>1. Bad \in SUBSET Nat /\ Bad # {}
      BY <2>0
    <3> HIDE DEF Bad
    <3> QED
      BY <3>1, LeastNumber
  <2>2. PICK f \in 0..m, e \in 0..H : m - f = k /\ H - e = k /\ ~Has(L[e], node[f])
    BY <2>1
  <2>3. CASE k = 0
    <3>1. f = m /\ e = H
      BY <1>1, <1>8, <2>2, <2>3
    <3>2. Has(L[H], node[m])
      BY <1>1, <1>3 DEF Has
    <3> QED
      BY <2>2, <3>1, <3>2
  <2>4. CASE k # 0
    <3>1. PICK i \in 1..m, j \in 1..H : i - 1 = f /\ j - 1 = e
      <4>1. f + 1 \in 1..m /\ e + 1 \in 1..H /\ (f + 1) - 1 = f /\ (e + 1) - 1 = e
        BY <1>1, <1>8, <2>1, <2>2, <2>4
      <4> QED
        BY <4>1
    <3>2. k - 1 \in Nat /\ m - i = k - 1 /\ H - j = k - 1 /\ i \in 0..m /\ j \in 0..H
      BY <1>1, <1>8, <2>1, <2>2, <2>4, <3>1
    <3>3. Has(L[j], node[i])
      <4>1. k - 1 \notin Bad
        BY <2>1, <3>2
      <4> QED
        BY <3>2, <4>1
    <3>4. PICK a, b : node[i] = Node(a, b) /\ (node[f] = a \/ node[f] = b)
      BY <1>4, <3>1
    <3>5. L[j] = Parents(L[e]) /\ IsLevel(L[e])
      BY <1>5, <1>6, <3>1
    <3>6. Has(L[e], a) /\ Has(L[e], b)
      BY <3>3, <3>4, <3>5, ChildrenOfParents
    <3> QED
      BY <2>2, <3>4, <3>6
  <2> QED
    BY <2>3, <2>4
<1>10. ASSUME NEW h \in 1..H, NEW x, Has(L[h], x) PROVE \E a, b : x = Node(a, b)
  <2>1. L[h] = Parents(L[h - 1]) /\ IsLevel(L[h - 1])
    <3>1. h - 1 \in 0..H
      BY <1>1
    <3> QED
      BY <1>5, <1>6, <3>1
  <2> QED
    BY <1>10, <2>1, ParentLevel DEF Has
<1>11. ASSUME NEW x, Has(L[0], x) PROVE \E i \in 1..Len(leaves) : x = LeafHash(leaves[i])
  BY <1>7, <1>11 DEF Has, Leaves
<1>12. ~(m < H)
  <2> SUFFICES ASSUME m < H PROVE FALSE
    OBVIOUS
  <2>1. PICK h \in 1..H : h = H - m
    BY <1>1, <1>8
  <2>2. Has(L[h], node[0])
    BY <1>1, <1>8, <1>9, <2>1
  <2>3. PICK a, b : node[0] = Node(a, b)
    BY <1>10, <2>2
  <2> QED
    BY <1>2, <2>3, Terms
<1>13. ~(m > H)
  <2> SUFFICES ASSUME m > H PROVE FALSE
    OBVIOUS
  <2>1. PICK g \in 1..m : g = m - H
    BY <1>1, <1>8
  <2>2. Has(L[0], node[g])
    BY <1>1, <1>8, <1>9, <2>1
  <2>3. PICK a, b : node[g] = Node(a, b)
    BY <1>4
  <2> QED
    BY <1>11, <2>2, <2>3, Terms
<1>14. Has(L[0], node[0])
  BY <1>1, <1>8, <1>9, <1>12, <1>13
<1> QED
  BY <1>2, <1>11, <1>14, Terms

\* Entries of a catalog that have the same name are the same.
LEMMA NamesAreUnique ==
    ASSUME NEW c \in Catalogs, NEW i \in 1..Len(c), NEW j \in 1..Len(c), c[i].id = c[j].id
    PROVE  i = j
<1>1. c \in Seq([id : Nat, payload : Payloads]) /\ Len(c) \in Nat
  BY EvidenceAssumption, LenProperties
<1>2. c[i].id \in Nat /\ c[j].id \in Nat
  <2>1. c[i] \in [id : Nat, payload : Payloads] /\ c[j] \in [id : Nat, payload : Payloads]
    BY <1>1, ElementOfSeq
  <2> QED
    BY <2>1
<1>3. ~(i < j) /\ ~(j < i)
  BY <1>2, EvidenceAssumption
<1> QED
  BY <1>1, <1>3

\* A token that shows the drawn name and verifies shows the drawn entry with its
\* payload, along whatever path, and however high the tree: the store cannot
\* show another payload under the drawn name, nor an inner node as a leaf
\* (verify_merkle_path, verify_public_release).
THEOREM VerifiedTokensNameTheDraw == EvidenceInit => TokensNameTheDraw
<1> SUFFICES ASSUME EvidenceInit,
                    NEW entry \in [id : ids(catalog), payload : Payloads], NEW counter \in Counters,
                    IsDrawn(Token(entry, <<>>, counter)), NEW path \in Paths,
                    VerifyPublicRelease([Token(entry, <<>>, counter) EXCEPT !.path = path])
             PROVE  entry = catalog[Drawn]
  BY DEF TokensNameTheDraw
<1> DEFINE token == [Token(entry, <<>>, counter) EXCEPT !.path = path]
<1>1. /\ token.path = path /\ token.entry = entry /\ token.eligible = eligible
      /\ Token(entry, <<>>, counter).entry = entry
      /\ Token(entry, <<>>, counter).eligible = eligible
  BY DEF Token
<1>2. Accepts(Len(eligible)) # {} /\ entry.id = eligible[DrawIndex(Len(eligible)) + 1]
  BY <1>1 DEF IsDrawn
<1>3. VerifyMerklePath(entry, path, MerkleRoot(catalog))
  <2>1. IsInCatalog(token)
    BY DEF VerifyPublicRelease
  <2> HIDE DEF token
  <2> QED
    BY <1>1, <2>1 DEF IsInCatalog
<1>4. Len(catalog) \in Nat \ {0}
  BY EvidenceTypes
<1>5. Len(path) \in Nat
  <2>1. PICK m \in 0..Height(catalog) : path \in [1..m -> [sibling : Hashes, left : BOOLEAN]]
    BY DEF Paths, BoundedSeq, SeqOf
  <2>2. m \in Nat
    BY <1>4, HeightDef
  <2>3. path = [h \in 1..m |-> path[h]]
    BY <2>1
  <2> QED
    BY <2>2, <2>3, FunctionIsSeq
<1>6. PICK i \in 1..Len(catalog) : entry = catalog[i]
  BY <1>3, <1>4, <1>5, OnlyLeavesHavePaths
<1>7. Drawn \in 1..Len(catalog) /\ catalog[Drawn].id = catalog[i].id
  BY <1>2, <1>6, DrawDef
<1>8. catalog \in Catalogs
  BY DEF EvidenceInit
<1> QED
  BY <1>6, <1>7, <1>8, NamesAreUnique

------------------------------------------------------------------------------
(* A root stands for one catalog                                           *)

\* No node stands twice in the level.
Distinct(level) == \A i, j \in 1..Len(level) : level[i] = level[j] => i = j

LEMMA ParentsAreDistinct ==
    ASSUME NEW level, IsLevel(level), Distinct(level)
    PROVE  Distinct(Parents(level))
<1> DEFINE half == (Len(level) + 1) \div 2
<1>1. half \in Nat /\ 2 * half - 1 <= Len(level) /\ Len(level) \in Nat /\ Len(Parents(level)) = half
  BY ParentLevel DEF IsLevel
<1> SUFFICES ASSUME NEW i \in 1..Len(Parents(level)), NEW j \in 1..Len(Parents(level)),
                    Parents(level)[i] = Parents(level)[j]
             PROVE  i = j
  BY DEF Distinct
<1>2. Padded(level)[2 * i - 1] = Padded(level)[2 * j - 1]
  BY ParentLevel, Terms
<1>3. 2 * i - 1 \in 1..Len(level) /\ 2 * j - 1 \in 1..Len(level)
  <2> HIDE DEF half
  <2> QED
    BY <1>1
<1>4. level[2 * i - 1] = level[2 * j - 1]
  BY <1>2, <1>3, PaddedLevel
<1>5. 2 * i - 1 = 2 * j - 1
  BY <1>3, <1>4 DEF Distinct
<1> QED
  BY <1>1, <1>5

LEMMA SamePadding ==
    ASSUME NEW a, NEW b, IsLevel(a), IsLevel(b), Parents(a) = Parents(b),
           NEW k \in 1..Len(Parents(a))
    PROVE  Padded(a)[2 * k - 1] = Padded(b)[2 * k - 1] /\ Padded(a)[2 * k] = Padded(b)[2 * k]
<1>1. Parents(a)[k] = Node(Padded(a)[2 * k - 1], Padded(a)[2 * k])
  BY ParentLevel
<1>2. Parents(b)[k] = Node(Padded(b)[2 * k - 1], Padded(b)[2 * k])
  BY ParentLevel
<1> QED
  BY <1>1, <1>2, Terms

\* A level whose padding shows would end with a node twice, so parents of levels
\* of distinct nodes have one origin: first the lengths ...
LEMMA NoLongerOrigin ==
    ASSUME NEW a, NEW b, IsLevel(a), IsLevel(b), Distinct(a), Parents(a) = Parents(b)
    PROVE  Len(a) <= Len(b)
<1> SUFFICES ASSUME Len(a) > Len(b) PROVE FALSE
  BY DEF IsLevel
<1> DEFINE half == (Len(a) + 1) \div 2
<1>1. Len(a) \in Nat \ {0} /\ Len(b) \in Nat \ {0}
  BY DEF IsLevel
<1>2. half = (Len(b) + 1) \div 2 /\ Len(Parents(a)) = half
  BY ParentLevel
<1>3. Len(a) = 2 * half /\ Len(b) = 2 * half - 1 /\ Len(b) % 2 = 1 /\ half \in Nat \ {0}
  BY <1>1, <1>2
<1> HIDE DEF half
<1>4. Padded(a)[2 * half - 1] = Padded(b)[2 * half - 1] /\ Padded(a)[2 * half] = Padded(b)[2 * half]
  <2>1. half \in 1..Len(Parents(a))
    BY <1>2, <1>3
  <2> QED
    BY <2>1, SamePadding
<1>5. 2 * half - 1 \in 1..Len(a) /\ 2 * half \in 1..Len(a) /\ 2 * half - 1 \in 1..Len(b)
  BY <1>3
<1>6. a[2 * half - 1] = b[2 * half - 1] /\ a[2 * half] = Padded(b)[2 * half]
  BY <1>4, <1>5, PaddedLevel
<1>7. Padded(b)[2 * half] = b[2 * half - 1]
  <2>1. Padded(b)[Len(b) + 1] = b[Len(b)] /\ Len(b) + 1 = 2 * half
    BY <1>3, PaddedLevel
  <2> QED
    BY <1>3, <2>1
<1>8. 2 * half - 1 = 2 * half
  BY <1>5, <1>6, <1>7 DEF Distinct
<1> QED
  BY <1>3, <1>8

\* ... then the nodes.
LEMMA OneOrigin ==
    ASSUME NEW a, NEW b, IsLevel(a), IsLevel(b), Distinct(a), Distinct(b), Parents(a) = Parents(b)
    PROVE  a = b
<1> DEFINE half == (Len(a) + 1) \div 2
<1>1. Len(a) = Len(b) /\ Len(a) \in Nat \ {0}
  <2>1. Len(a) <= Len(b) /\ Len(b) <= Len(a)
    BY NoLongerOrigin
  <2>2. Len(a) \in Nat \ {0} /\ Len(b) \in Nat \ {0}
    BY DEF IsLevel
  <2> QED
    BY <2>1, <2>2
<1>2. ASSUME NEW i \in 1..Len(a) PROVE a[i] = b[i]
  <2>1. PICK k \in 1..half : i = 2 * k - 1 \/ i = 2 * k
    <3>1. (i + 1) \div 2 \in 1..half /\ (i = 2 * ((i + 1) \div 2) - 1 \/ i = 2 * ((i + 1) \div 2))
      BY <1>1
    <3> QED
      BY <3>1
  <2>2. k \in 1..Len(Parents(a))
    BY ParentLevel
  <2>3. Padded(a)[2 * k - 1] = Padded(b)[2 * k - 1] /\ Padded(a)[2 * k] = Padded(b)[2 * k]
    BY <2>2, SamePadding
  <2>4. Padded(a)[i] = Padded(b)[i]
    BY <2>1, <2>3
  <2> QED
    BY <1>1, <2>4, PaddedLevel
<1>3. a = [i \in 1..Len(a) |-> a[i]] /\ b = [i \in 1..Len(a) |-> b[i]]
  BY <1>1 DEF IsLevel
<1> QED
  BY <1>2, <1>3

LEMMA LevelsAreDistinct ==
    ASSUME NEW leaves, Len(leaves) \in Nat \ {0}, Distinct(leaves)
    PROVE  \A h \in 0..Len(leaves) : Distinct(Levels(leaves)[h])
<1> DEFINE n == Len(leaves)
           L == Levels(leaves)
           Bad == {h \in 0..n : ~Distinct(L[h])}
<1> SUFFICES ASSUME Bad # {} PROVE FALSE
  OBVIOUS
<1>1. PICK h \in Bad : \A g \in Bad : h <= g
  <2>1. Bad \in SUBSET Nat
    OBVIOUS
  <2> HIDE DEF Bad
  <2> QED
    BY <2>1, LeastNumber
<1>2. CASE h = 0
  <2>1. L[0] = Leaves(leaves) /\ Len(L[0]) = n
    BY LevelShape
  <2>2. \A i \in 1..n : Leaves(leaves)[i] = LeafHash(leaves[i])
    BY DEF Leaves
  <2>3. Distinct(Leaves(leaves))
    BY <2>1, <2>2, Terms DEF Distinct
  <2> QED
    BY <1>1, <1>2, <2>1, <2>3
<1>3. CASE h # 0
  <2>1. h \in 1..n /\ h - 1 \in 0..n
    BY <1>1, <1>3
  <2>2. IsLevel(L[h - 1]) /\ L[h] = Parents(L[h - 1])
    BY <2>1, LevelShape
  <2>3. Distinct(L[h - 1])
    BY <1>1, <2>1
  <2> QED
    BY <1>1, <2>2, <2>3, ParentsAreDistinct
<1> QED
  BY <1>2, <1>3

\* Trees of one root have the same levels from the root down ...
LEMMA SameLevels ==
    ASSUME NEW c, NEW d, Len(c) \in Nat \ {0}, Len(d) \in Nat \ {0},
           Distinct(c), Distinct(d), MerkleRoot(c) = MerkleRoot(d)
    PROVE  \A g \in 0..Height(c), h \in 0..Height(d) :
              Height(c) - g = Height(d) - h => Levels(c)[g] = Levels(d)[h]
<1> DEFINE C == Levels(c)
           D == Levels(d)
           m == Height(c)
           n == Height(d)
<1>1. m \in Nat /\ n \in Nat /\ Len(C[m]) = 1 /\ Len(D[n]) = 1
  BY HeightDef
<1>2. ASSUME NEW g \in 0..m, NEW h \in 0..n
      PROVE  IsLevel(C[g]) /\ Distinct(C[g]) /\ IsLevel(D[h]) /\ Distinct(D[h])
  <2>1. g \in 0..Len(c) /\ h \in 0..Len(d)
    BY HeightDef
  <2> QED
    BY <2>1, LevelShape, LevelsAreDistinct
<1>3. ASSUME NEW g \in 1..m, NEW h \in 1..n
      PROVE  C[g] = Parents(C[g - 1]) /\ D[h] = Parents(D[h - 1])
  <2>1. g \in 1..Len(c) /\ h \in 1..Len(d)
    BY HeightDef
  <2> QED
    BY <2>1, LevelShape
<1>4. C[m] = D[n]
  <2>1. c # <<>> /\ d # <<>>
    OBVIOUS
  <2>2. C[m][1] = D[n][1]
    BY <2>1 DEF MerkleRoot
  <2>3. m \in 0..m /\ n \in 0..n
    BY <1>1
  <2>4. C[m] = [i \in 1..1 |-> C[m][i]] /\ D[n] = [i \in 1..1 |-> D[n][i]]
    BY <1>1, <1>2, <2>3 DEF IsLevel
  <2>5. \A i \in 1..1 : C[m][i] = D[n][i]
    BY <2>2
  <2> HIDE DEF C, D, m, n
  <2> QED
    BY <2>4, <2>5
<1> HIDE DEF C, D, m, n
<1> SUFFICES ASSUME NEW g0 \in 0..m, NEW h0 \in 0..n, m - g0 = n - h0, C[g0] # D[h0]
             PROVE  FALSE
  BY DEF C, D, m, n
<1> DEFINE Bad == {k \in Nat : \E g \in 0..m, h \in 0..n : m - g = k /\ n - h = k /\ C[g] # D[h]}
<1>5. PICK k \in Bad : \A i \in Bad : k <= i
  <2>1. m - g0 \in Nat /\ m - g0 \in Bad
    BY <1>1
  <2>2. Bad \in SUBSET Nat /\ Bad # {}
    BY <2>1
  <2> HIDE DEF Bad
  <2> QED
    BY <2>2, LeastNumber
<1>6. PICK g \in 0..m, h \in 0..n : m - g = k /\ n - h = k /\ C[g] # D[h]
  BY <1>5
<1>7. CASE k = 0
  <2>1. g = m /\ h = n
    BY <1>1, <1>6, <1>7
  <2> QED
    BY <1>4, <1>6, <2>1
<1>8. CASE k # 0
  <2>1. PICK i \in 1..m, j \in 1..n : i - 1 = g /\ j - 1 = h
    <3>1. g + 1 \in 1..m /\ h + 1 \in 1..n /\ (g + 1) - 1 = g /\ (h + 1) - 1 = h
      BY <1>1, <1>5, <1>6, <1>8
    <3> QED
      BY <3>1
  <2>2. k - 1 \in Nat /\ m - i = k - 1 /\ n - j = k - 1 /\ i \in 0..m /\ j \in 0..n
    BY <1>1, <1>5, <1>6, <1>8, <2>1
  <2>3. C[i] = D[j]
    <3>1. k - 1 \notin Bad
      BY <1>5, <2>2
    <3> QED
      BY <2>2, <3>1
  <2>4. Parents(C[g]) = Parents(D[h])
    BY <1>3, <2>1, <2>3
  <2>5. C[g] = D[h]
    BY <1>2, <2>4, OneOrigin
  <2> QED
    BY <1>6, <2>5
<1> QED
  BY <1>7, <1>8

\* ... and no higher tree has the leaves of another for an inner level.
LEMMA NotHigher ==
    ASSUME NEW c, NEW d, Len(c) \in Nat \ {0}, Len(d) \in Nat \ {0},
           Distinct(c), Distinct(d), MerkleRoot(c) = MerkleRoot(d)
    PROVE  Height(d) <= Height(c)
<1> SUFFICES ASSUME Height(d) > Height(c) PROVE FALSE
  BY HeightDef
<1>1. PICK h \in 1..Height(d) : h = Height(d) - Height(c)
  BY HeightDef
<1>2. 0 \in 0..Height(c) /\ h \in 0..Height(d) /\ Height(c) - 0 = Height(d) - h
  BY <1>1, HeightDef
<1>3. Levels(c)[0] = Levels(d)[h]
  BY <1>2, SameLevels
<1>4. Levels(c)[0] = Leaves(c) /\ Len(Leaves(c)) = Len(c)
  BY LevelShape
<1>5. Levels(d)[h] = Parents(Levels(d)[h - 1]) /\ IsLevel(Levels(d)[h - 1])
  <2>1. h \in 1..Len(d) /\ h - 1 \in 0..Len(d)
    BY HeightDef
  <2> QED
    BY <2>1, LevelShape
<1>6. Leaves(c) = Parents(Levels(d)[h - 1])
  BY <1>3, <1>4, <1>5, Zenon
<1>7. PICK a, b : Leaves(c)[1] = Node(a, b)
  <2>1. 1 \in 1..Len(Parents(Levels(d)[h - 1]))
    BY <1>5, ParentLevel DEF IsLevel
  <2> QED
    BY <1>5, <1>6, <2>1, ParentLevel
<1>8. Leaves(c)[1] = LeafHash(c[1])
  BY DEF Leaves
<1>9. LeafHash(c[1]) # Node(a, b)
  BY Terms
<1> QED
  BY <1>7, <1>8, <1>9

LEMMA OneTree ==
    ASSUME NEW c, NEW d, Len(c) \in Nat \ {0}, Len(d) \in Nat \ {0},
           Distinct(c), Distinct(d), MerkleRoot(c) = MerkleRoot(d)
    PROVE  Len(c) = Len(d) /\ \A i \in 1..Len(c) : c[i] = d[i]
<1>1. Height(c) = Height(d) /\ Height(c) \in Nat
  <2>1. Height(c) <= Height(d) /\ Height(d) <= Height(c)
    BY NotHigher
  <2>2. Height(c) \in Nat /\ Height(d) \in Nat
    BY HeightDef
  <2> QED
    BY <2>1, <2>2
<1>2. Leaves(c) = Leaves(d)
  <2>1. 0 \in 0..Height(c) /\ 0 \in 0..Height(d) /\ Height(c) - 0 = Height(d) - 0
    BY <1>1
  <2>2. Levels(c)[0] = Levels(d)[0]
    BY <2>1, SameLevels
  <2> QED
    BY <2>2, LevelShape
<1>3. Len(c) = Len(d)
  BY <1>2, LevelShape
<1>4. ASSUME NEW i \in 1..Len(c) PROVE c[i] = d[i]
  <2>1. Leaves(c)[i] = LeafHash(c[i])
    BY DEF Leaves
  <2>2. Leaves(d)[i] = LeafHash(d[i])
    BY <1>3 DEF Leaves
  <2> QED
    BY <1>2, <2>1, <2>2, Terms
<1> QED
  BY <1>3, <1>4

\* A signed root stands for one catalog among all catalogs, of whatever length:
\* the domains of leaves and nodes and the distinct names make up for the last
\* node of an odd level being hashed with itself (merkle_root).
THEOREM RootsAreBinding == EvidenceInit => RootsBindCatalogs
<1> SUFFICES ASSUME EvidenceInit, NEW other \in Catalogs, MerkleRoot(other) = MerkleRoot(catalog)
             PROVE  other = catalog
  BY DEF RootsBindCatalogs
<1> DEFINE Entries == [id : Nat, payload : Payloads]
<1>1. catalog \in Catalogs /\ Len(catalog) \in Nat \ {0}
  BY EvidenceTypes DEF EvidenceInit
<1>2. catalog \in Seq(Entries) /\ other \in Seq(Entries) /\ Len(other) \in Nat
  BY <1>1, EvidenceAssumption, LenProperties
<1>3. ASSUME NEW c \in Catalogs PROVE Distinct(c)
  BY NamesAreUnique DEF Distinct
<1>4. Len(other) # 0
  <2> SUFFICES ASSUME Len(other) = 0 PROVE FALSE
    OBVIOUS
  <2>1. MerkleRoot(other) = <<"empty">>
    <3>1. other = <<>>
      BY <1>2, EmptySeq
    <3> QED
      BY <3>1 DEF MerkleRoot
  <2>2. MerkleRoot(catalog) = Levels(catalog)[Height(catalog)][1] /\ catalog # <<>>
    BY <1>1 DEF MerkleRoot
  <2>3. Levels(catalog)[Height(catalog)][1] # <<"empty">>
    <3> DEFINE H == Height(catalog)
               L == Levels(catalog)
    <3>1. H \in 0..Len(catalog) /\ Len(L[H]) = 1
      BY <1>1, HeightDef
    <3>2. CASE H = 0
      <4>1. L[0] = Leaves(catalog) /\ Len(catalog) \in Nat \ {0}
        BY <1>1, LevelShape
      <4>2. L[H][1] = LeafHash(catalog[1])
        BY <3>2, <4>1 DEF Leaves
      <4> QED
        BY <4>2 DEF LeafHash
    <3>3. CASE H # 0
      <4>1. H \in 1..Len(catalog) /\ H - 1 \in 0..Len(catalog)
        BY <3>1, <3>3
      <4>2. L[H] = Parents(L[H - 1]) /\ IsLevel(L[H - 1])
        BY <1>1, <4>1, LevelShape
      <4>3. PICK a, b : L[H][1] = Node(a, b)
        BY <3>1, <4>2, ParentLevel
      <4> QED
        BY <4>3 DEF Node
    <3> QED
      BY <3>2, <3>3
  <2> QED
    BY <2>1, <2>2, <2>3
<1>5. Len(other) = Len(catalog) /\ \A i \in 1..Len(other) : other[i] = catalog[i]
  BY <1>1, <1>2, <1>3, <1>4, OneTree
<1> QED
  BY <1>2, <1>5, SeqEqual

------------------------------------------------------------------------------
(* The draw is unbiased                                                    *)

\* The numbers below n * q with remainder i, one for each quotient.
LEMMA OneForEachQuotient ==
    ASSUME NEW n \in Nat \ {0}, NEW q \in Nat, NEW i \in 0..n - 1
    PROVE  Cardinality({w \in 0..n * q - 1 : w % n = i}) = q
<1> DEFINE S == {w \in 0..n * q - 1 : w % n = i}
           f == [k \in 1..q |-> n * (k - 1) + i]
<1>1. n * q \in Nat
  OBVIOUS
<1>2. ASSUME NEW k \in 1..q PROVE f[k] \in S
  <2>1. n * (k - 1) + n <= n * q
    BY Multiples
  <2>2. k - 1 \in Nat /\ n * (k - 1) \in Nat /\ f[k] = n * (k - 1) + i
    OBVIOUS
  <2>3. f[k] \in 0..n * q - 1
    <3> HIDE DEF f
    <3> QED
      BY <1>1, <2>1, <2>2
  <2>4. f[k] % n = i
    <3> HIDE DEF f
    <3>1. PICK e \in Nat, w \in Nat : e = k - 1 /\ w = f[k] /\ w = n * e + i
      BY <2>2
    <3>2. w % n = i
      BY <3>1, Division
    <3> QED
      BY <3>1, <3>2
  <2> QED
    BY <2>3, <2>4
<1>3. ASSUME NEW k \in 1..q, NEW l \in 1..q, f[k] = f[l] PROVE k = l
  <2>1. n * (k - 1) = n * (l - 1)
    BY <1>3
  <2>2. ~(k - 1 < l - 1) /\ ~(l - 1 < k - 1)
    BY <2>1, Multiples
  <2> QED
    BY <2>2
<1>4. ASSUME NEW w \in S PROVE \E k \in 1..q : f[k] = w
  <2>1. w \in Nat /\ w < n * q /\ w % n = i
    BY <1>1
  <2>2. w = n * (w \div n) + i /\ w \div n \in Nat
    BY <2>1, Division
  <2>3. w \div n < q
    <3> DEFINE k == w \div n
    <3> HIDE DEF k
    <3> SUFFICES ASSUME ~(k < q) PROVE FALSE
      BY DEF k
    <3>1. n * q <= n * k
      <4>1. k = q \/ n * q + n <= n * k
        BY <2>2, Multiples DEF k
      <4> QED
        BY <2>2, <4>1 DEF k
    <3> QED
      BY <1>1, <2>1, <2>2, <3>1 DEF k
  <2>4. f[w \div n + 1] = w
    BY <2>2, <2>3
  <2>5. w \div n + 1 \in 1..q
    BY <2>2, <2>3
  <2> QED
    BY <2>4, <2>5
<1>5. f \in Bijection(1..q, S)
  <2>1. f = [k \in 1..q |-> f[k]]
    OBVIOUS
  <2> HIDE DEF f, S
  <2>2. f \in [1..q -> S]
    BY <1>2, <2>1
  <2> QED
    BY <1>3, <1>4, <2>2 DEF Bijection, Injection, Surjection, IsInjective
<1> QED
  <2> HIDE DEF f, S
  <2>1. Cardinality(S) = q
    BY <1>5, FS_CountingElements DEF ExistsBijection
  <2> QED
    BY <2>1 DEF S

\* No index is drawn more often than another, for populations of any size: the
\* limit is a multiple of the size, so hashes below it have every remainder
\* equally often (_uniform_index).
THEOREM DrawsAreUnbiased == EvidenceInit => DrawIsUnbiased
<1> SUFFICES ASSUME EvidenceInit PROVE DrawIsUnbiased
  OBVIOUS
<1> DEFINE n == Len(eligible)
           q == Modulus \div n
<1>1. n \in Nat \ {0} /\ Modulus \in Nat
  BY EvidenceTypes, EvidenceAssumption
<1>2. Limit(n) = n * q /\ q \in Nat
  <2>1. Modulus = n * q + (Modulus % n) /\ q \in Nat /\ Modulus % n \in 0..n - 1
    BY <1>1, Division
  <2> HIDE DEF q, n
  <2> QED
    BY <1>1, <2>1 DEF Limit
<1>3. ASSUME NEW i \in 0..n - 1 PROVE Cardinality({w \in 0..Limit(n) - 1 : w % n = i}) = q
  <2> HIDE DEF n, q
  <2>1. Cardinality({w \in 0..n * q - 1 : w % n = i}) = q
    BY <1>1, <1>2, OneForEachQuotient
  <2> QED
    BY <1>2, <2>1, Zenon
<1> QED
  BY <1>3 DEF DrawIsUnbiased
================================================================================

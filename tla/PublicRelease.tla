----------------------------- MODULE PublicRelease -----------------------------
(***************************************************************************)
(* The evidence that a released probe is the one its candidate drew        *)
(* (gate.py): a frame signed before the fixation commits to a catalog by   *)
(* the root of a hash tree, the draw is a function of candidate and beacon *)
(* round, and the public token shows the drawn leaf with its path.  What   *)
(* else the receipts of a candidate bind is compared for equality and is   *)
(* the same in every token of the model.                                   *)
(***************************************************************************)
EXTENDS MerkleTree, FiniteSets

CONSTANTS
    Catalogs,    \* sequences of entries with ascending ids
    Words,       \* what the draw hashes to: functions from 0..LastCounter
    Modulus,     \* 2^256
    LastCounter, \* UINT32_MAX
    Payloads,    \* payload commitments
    HeightBound  \* of the trees whose paths are tried one by one

ASSUME EvidenceAssumption ==
    /\ LastCounter \in Nat /\ Modulus \in Nat
    /\ Words \subseteq [0..LastCounter -> 0..Modulus - 1]
    /\ \A c \in Catalogs :
          /\ c \in Seq([id : Nat, payload : Payloads])
          /\ \A i, j \in 1..Len(c) : i < j => c[i].id < c[j].id

VARIABLES
    catalog,   \* the entries of the signed frame
    score,     \* the candidate's score_probe_commitment
    eligible,  \* the candidate's eligible_probe_id_hashes, ascending
    words      \* the hashes of frame, fixation, randomness and counter

evidenceVars == <<catalog, score, eligible, words>>

ids(entries) == {entries[i].id : i \in 1..Len(entries)}

EvidenceInit ==
    /\ catalog \in Catalogs
    /\ \E n \in 1..Len(catalog) : eligible \in [1..n -> ids(catalog)]
    /\ \A i, j \in DOMAIN eligible : i < j => eligible[i] < eligible[j]
    /\ score \in Payloads /\ words \in Words

------------------------------------------------------------------------------
(* The draw                                                                *)

\* Mutant: every hash is reduced.
WholeRange(size) == Modulus

\* The largest multiple of the population size that hashes reach.
Limit(size) == Modulus - (Modulus % size)

Counters == 0..LastCounter

\* The first hash below the limit decides, counters above it are exhausted.
Accepts(size) == {c \in Counters : words[c] < Limit(size)}

DrawCounter(size) == CHOOSE c \in Accepts(size) : \A d \in Accepts(size) : c <= d

DrawIndex(size) == words[DrawCounter(size)] % size

------------------------------------------------------------------------------
(* Tokens                                                                  *)

\* _release_fields, as far as they can differ between two tokens of a candidate.
ReleaseFields(token) ==
    [root |-> token.root, eligible |-> token.eligible,
     counter |-> token.counter, entry |-> token.entry]

Drawn == CHOOSE i \in 1..Len(catalog) : catalog[i].id = eligible[DrawIndex(Len(eligible)) + 1]

\* A token that shows this leaf, with what the store signs for it.
Token(entry, path, counter) ==
    LET shown == [root |-> MerkleRoot(catalog), eligible |-> eligible,
                  entry |-> entry, counter |-> counter]
    IN  [root |-> shown.root, eligible |-> eligible, entry |-> entry, path |-> path,
         counter |-> counter, signed |-> ReleaseFields(shown)]

\* ProbeRelease.public_release for the release of the drawn probe.
PublicToken ==
    Token(catalog[Drawn], MerklePath(catalog, Drawn - 1), DrawCounter(Len(eligible)))

\* PublicProbeRelease.__post_init__
IsWellFormed(token) ==
    /\ \E i \in 1..Len(token.eligible) : token.eligible[i] = token.entry.id
    /\ token.counter \in Counters

\* Mutant: any leaf of the population will do.
IsEligible(token) == \E i \in 1..Len(token.eligible) : token.eligible[i] = token.entry.id

\* The selected leaf is the drawn one.
IsDrawn(token) ==
    LET size == Len(token.eligible)
    IN  /\ Accepts(size) # {}
        /\ token.counter = DrawCounter(size)
        /\ token.entry.id = token.eligible[DrawIndex(size) + 1]

IsInCatalog(token) == VerifyMerklePath(token.entry, token.path, MerkleRoot(catalog))

VerifyPublicRelease(token) ==
    /\ token.root = MerkleRoot(catalog)
    /\ token.eligible = eligible
    /\ \A i \in 1..Len(token.eligible) : token.eligible[i] \in ids(catalog)
    /\ token.entry.payload # score
    /\ IsDrawn(token)
    /\ IsInCatalog(token)
    /\ token.signed = ReleaseFields(token)

------------------------------------------------------------------------------
(* Properties                                                              *)

\* The token of the drawn probe is well formed and verifies, so no release that
\* is paid for is lost for want of evidence; unless it names the score probe.
TokensVerify ==
    Accepts(Len(eligible)) # {} /\ catalog[Drawn].payload # score =>
        IsWellFormed(PublicToken) /\ VerifyPublicRelease(PublicToken)

\* Paths made of any hashes of the tree, no longer than the tree is high.
Hashes == UNION {Range(Padded(Levels(catalog)[h])) : h \in 0..Height(catalog)}

Paths == BoundedSeq([sibling : Hashes, left : BOOLEAN], Height(catalog))

\* Whatever entry, path and counter a token shows: if it verifies, it shows the
\* entry of the drawn probe, payload included, although the store signs anything.
\* Paths are tried for tokens that show a drawn name.
TokensNameTheDraw ==
    \A entry \in [id : ids(catalog), payload : Payloads], counter \in Counters :
        LET token == Token(entry, <<>>, counter)
        IN  Height(catalog) <= HeightBound /\ IsDrawn(token) =>
               \A path \in Paths :
                  VerifyPublicRelease([token EXCEPT !.path = path]) => entry = catalog[Drawn]

\* A signed root stands for one catalog: repeating the last node of odd levels
\* does not make two sequences of distinct entries one.
RootsBindCatalogs ==
    \A other \in Catalogs : MerkleRoot(other) = MerkleRoot(catalog) => other = catalog

\* Of the hashes that the draw accepts, each index gets the same number.
DrawIsUnbiased ==
    LET size == Len(eligible)
        Leading(i) == {w \in 0..Limit(size) - 1 : w % size = i}
    IN  \A i, j \in 0..size - 1 : Cardinality(Leading(i)) = Cardinality(Leading(j))
================================================================================

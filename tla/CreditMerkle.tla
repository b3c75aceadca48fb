---------------------------- MODULE CreditMerkle ----------------------------
(***************************************************************************)
(* The second Merkle construction of the repository: the tree over credit  *)
(* events of packages/gdid-core/src/credit.ts.  It is built layer by layer *)
(* from the leaves up, and a layer of odd length pairs its last hash with  *)
(* itself, where merkle.ts would split at a power of two.                  *)
(*                                                                         *)
(* Hashes are terms, as in Merkle.  pairHash has no prefix byte, but what  *)
(* it hashes is hexadecimal and an event is a JSON object: the two never   *)
(* meet.  asSha256Prefixed only settles the spelling of a hash.            *)
(***************************************************************************)
EXTENDS Integers, Sequences, SequencesExt

EmptyCreditRoot == <<"empty">>
PairHash(left, right) == <<"pair", left, right>>

(* Element i of a layer, counted from 0, or nothing. *)
At(layer, i) == IF i < Len(layer) THEN {layer[i + 1]} ELSE {}

(* layer[i] ?? fallback *)
OrElse(option, fallback) == IF option = {} THEN fallback ELSE CHOOSE h \in option : TRUE

NextLayer(layer) ==
    [i \in 1..((Len(layer) + 1) \div 2) |->
       LET left == layer[2 * i - 1]
       IN  PairHash(left, OrElse(At(layer, 2 * i - 1), left))]

(* The loop of buildMerkleProof after so many turns; merkleRoot's is the   *)
(* same without the index.                                                 *)
Climbed(leaves, index, turns) ==
    LET at[k \in 0..turns] ==
          IF k = 0 THEN [layer |-> leaves, idx |-> index]
          ELSE LET was == at[k - 1]
               IN  [layer |-> NextLayer(was.layer), idx |-> was.idx \div 2]
    IN  at[turns]

Layer(leaves, height) == Climbed(leaves, 0, height).layer

(* The loop ends with the first layer of one hash. *)
Depth(leaves) == CHOOSE d \in 0..Len(leaves) :
                   /\ Len(Layer(leaves, d)) = 1
                   /\ \A e \in 0..(d - 1) : Len(Layer(leaves, e)) > 1

CreditMerkleRoot(leaves) ==
    IF leaves = <<>> THEN EmptyCreditRoot ELSE Layer(leaves, Depth(leaves))[1]

SiblingIn(layer, idx) ==
    LET pairIdx == IF idx % 2 = 1 THEN idx - 1 ELSE idx + 1
    IN  OrElse(At(layer, pairIdx), layer[idx + 1])

(* The siblings of buildMerkleProof, for an index in range. *)
MerkleSiblings(leaves, index) ==
    [k \in 1..Depth(leaves) |->
       LET was == Climbed(leaves, index, k - 1) IN SiblingIn(was.layer, was.idx)]

(* Mutant: the side of a sibling is taken from the leaf's index all along. *)
JoinSiblingOneSided(was, sibling) ==
    [hash |-> IF was.idx % 2 = 1 THEN PairHash(sibling, was.hash)
                                 ELSE PairHash(was.hash, sibling),
     idx  |-> was.idx]

JoinSibling(was, sibling) ==
    [hash |-> IF was.idx % 2 = 1 THEN PairHash(sibling, was.hash)
                                 ELSE PairHash(was.hash, sibling),
     idx  |-> was.idx \div 2]

WalkSiblings(leafHash, index, siblings) ==
    LET at[k \in 0..Len(siblings)] ==
          IF k = 0 THEN [hash |-> leafHash, idx |-> index]
                   ELSE JoinSibling(at[k - 1], siblings[k])
    IN  at[Len(siblings)]

(* The index is not compared with anything, and neither is the length of   *)
(* the path.                                                               *)
VerifyMerkleProof(leafHash, index, siblings, root) ==
    WalkSiblings(leafHash, index, siblings).hash = root
=============================================================================

----------------------------- MODULE MerkleAudit -----------------------------
(***************************************************************************)
(* A server holds a log of distinct leaves and answers an auditor with a   *)
(* proof: a path put together from hashes, one at a time.  The hashes it   *)
(* can use are those of the nodes of its own tree and those of one leaf    *)
(* the log never held.  The auditor holds the tree's root and runs the     *)
(* verifiers of Merkle on whatever it is given.  The same leaves, taken as *)
(* credit events, have a second tree, and its verifier is tried likewise.  *)
(***************************************************************************)
EXTENDS TlogVectors, CreditMerkle

CONSTANTS
    MaxLeaves,     \* bound: the largest tree
    MaxSearch,     \* bound: the largest tree all paths are tried on
    MaxCredit,     \* bound: the same, of the credit tree and the referee
    MaxPath        \* bound: the longest path tried

VARIABLES
    leaves,        \* the leaf hashes of the log
    path           \* the proof put together so far

auditVars == <<leaves, path>>

Foreign == HashLeaf(0)

(* The nodes of the tree over [lo, hi), as RFC 9162 shapes it. *)
TreeNodes ==
    LET nodes[lo \in Nat, n \in Nat \ {0}] ==
          IF n = 1
          THEN {leaves[lo + 1]}
          ELSE LET k == LargestPowerOfTwoBelow(n)
               IN  {SubtreeRoot(leaves, lo, lo + n)}
                     \cup nodes[lo, k] \cup nodes[lo + k, n - k]
    IN  nodes[0, Len(leaves)]

(* The hashes of the credit tree over the same leaves. *)
CreditNodes == UNION {Range(Layer(leaves, k)) : k \in 0..Depth(leaves)}

AuditInit == leaves = <<HashLeaf(1)>> /\ path = <<>>

(* The log grows before any proof is asked for. *)
AddLeaf ==
    /\ path = <<>>
    /\ Len(leaves) < MaxLeaves
    /\ leaves' = Append(leaves, HashLeaf(Len(leaves) + 1))
    /\ UNCHANGED path

AddSibling ==
    /\ Len(leaves) <= MaxSearch
    /\ Len(path) < MaxPath
    /\ \/ \E h \in TreeNodes \cup {Foreign} :
            /\ Range(path) \subseteq TreeNodes \cup {Foreign}
            /\ path' = Append(path, h)
       \/ \E h \in CreditNodes \cup {Foreign} :
            /\ Len(leaves) <= MaxCredit
            /\ Range(path) \subseteq CreditNodes \cup {Foreign}
            /\ path' = Append(path, h)
    /\ UNCHANGED leaves

AuditNext == AddLeaf \/ AddSibling

AuditSpec == AuditInit /\ [][AuditNext]_auditVars

-----------------------------------------------------------------------------

LogRoot == MerkleRootFromLeafHashes(leaves)

Prefix(m) == SubSeq(leaves, 1, m)

(* The log that agrees with this one up to size m but for one leaf. *)
Rewritten(m, i) == [Prefix(m) EXCEPT ![i] = Foreign]

(* Every proof the log can produce is accepted, for every leaf and every   *)
(* pair of sizes: the recursive generators and the iterative verifiers     *)
(* agree on the shape of the tree.                                         *)
HonestProofsVerify ==
    path = <<>> =>
      /\ \A i \in 0..(Len(leaves) - 1) :
           VerifyInclusion(leaves[i + 1], i, Len(leaves), InclusionPath(i, leaves), LogRoot)
      /\ \A m \in 1..(Len(leaves) - 1) :
           VerifyConsistency(m, Len(leaves), MerkleRootFromLeafHashes(Prefix(m)), LogRoot,
                             ConsistencyPath(m, leaves))

(* verifyInclusion accepts exactly what inclusionPath produces: the right  *)
(* leaf at the right index with the honest path, and no other hash (an     *)
(* interior node passed off as a leaf, a leaf of another position), no     *)
(* other order, no shorter and no longer path.                             *)
InclusionProofsExact ==
    Len(leaves) <= MaxSearch =>
    \A i \in 0..(Len(leaves) - 1), h \in TreeNodes \cup {Foreign} :
      VerifyInclusion(h, i, Len(leaves), path, LogRoot) <=>
        h = leaves[i + 1] /\ path = InclusionPath(i, leaves)

(* verifyConsistency accepts exactly what consistencyPath produces, and    *)
(* only for the root of this log's own prefix: a log that rewrote one leaf *)
(* it had already committed to can offer no path that links its old root   *)
(* to the new one.                                                         *)
ConsistencyProofsExact ==
    Len(leaves) <= MaxSearch =>
    \A m \in 1..(Len(leaves) - 1) :
      LET honest == MerkleRootFromLeafHashes(Prefix(m))
          forged == {MerkleRootFromLeafHashes(Rewritten(m, i)) : i \in 1..m}
      IN  \A first \in {honest} \cup forged :
            VerifyConsistency(m, Len(leaves), first, LogRoot, path) <=>
              first = honest /\ path = ConsistencyPath(m, leaves)

(* The referee of the conformance suite, written without the library,      *)
(* gives the library's verdict on every path an auditor may be handed, for *)
(* every leaf, and for every pair of sizes with an honest or a rewritten   *)
(* old root: a bug of one is not hidden by the other.  An old size must    *)
(* fit the word in which the referee looks for a power of two.             *)
RefereeAgrees ==
    Len(leaves) <= MaxCredit =>
    \A m \in 1..Len(leaves) :
      /\ RefereeVerifyInclusion(leaves[m], m - 1, Len(leaves), path, LogRoot)
           = VerifyInclusion(leaves[m], m - 1, Len(leaves), path, LogRoot)
      /\ \A root \in {RootAt(leaves, m), RootAt(Rewritten(m, 1), m)} :
           m <= WordSize =>
           RefereeVerifyConsistency(m, Len(leaves), root, LogRoot, path)
             = VerifyConsistency(m, Len(leaves), root, LogRoot, path)

(* The kinds of vector the suite publishes do what they are published for, *)
(* on logs of any size and shape and for any leaf, not just on the log of  *)
(* 8: library and referee accept the honest ones, refuse the spoilt ones,  *)
(* and agree on the tree, on the proofs and on why a head is refused.  Old *)
(* sizes fit the referee's word.                                           *)
VectorsDecide ==
    path = <<>> =>
      \A i \in 0..(Len(leaves) - 2) :
        LET n == Len(leaves)
            inclusion == InclusionVectors(leaves, {<<i, n - 1>>}, i)
            consistency == IF i \notin 1..WordSize THEN {}
                           ELSE ConsistencyVectors(leaves, {<<i, n>>, <<i, i + 1>>}, i)
        IN  /\ SelfCheck(inclusion, consistency, SthVectors(leaves))
            /\ RefereePasses(leaves, inclusion, consistency, SthVectors(leaves))

(* Given an event and an index of the log, verifyMerkleProof accepts       *)
(* exactly the path merkleSiblings makes for that event at that index,     *)
(* unpaired events included, though it checks neither the length of the    *)
(* path nor the size of the tree.  All paths are tried in small trees; the *)
(* honest one must verify in every tree.  This holds of events, not of     *)
(* hashes: an inner hash with the shorter path above it is accepted too,   *)
(* and the pairing of the last event with itself gives logs that repeat it *)
(* the same root.                                                          *)
CreditProofsExact ==
    LET root == CreditMerkleRoot(leaves)
    IN  \A i \in 0..(Len(leaves) - 1) :
          /\ path = <<>> => VerifyMerkleProof(leaves[i + 1], i, MerkleSiblings(leaves, i), root)
          /\ Len(leaves) <= MaxCredit =>
               \A event \in Range(leaves) \cup {Foreign} :
                 VerifyMerkleProof(event, i, path, root) <=>
                   event = leaves[i + 1] /\ path = MerkleSiblings(leaves, i)
=============================================================================

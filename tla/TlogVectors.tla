----------------------------- MODULE TlogVectors -----------------------------
(***************************************************************************)
(* The test vectors of packages/tlog-core/vectors/generate-vectors.mjs.    *)
(* The script makes them for one log of 8 leaves, spoiling the proof of    *)
(* leaf 3 and the consistency proof from size 3; here log, leaf and size   *)
(* are parameters.  A vector carries the verdict it expects.               *)
(***************************************************************************)
EXTENDS TlogReferee, FiniteSets

CONSTANTS
    LOG_ID,        \* the identity of the log the vectors are made for
    SigningKey     \* its key

(* A hash, a key and a log that occur nowhere else. *)
Corrupted == <<"corrupted">>
OtherKey == Multibase("zSOME-OTHER-KEY", "legacy")
OtherLog == "https://evil.example/api/tlog"

ASSUME LogIsNotTheOther == SigningKey # OtherKey.key /\ LOG_ID # OtherLog

RootAt(log, n) == MerkleRootFromLeafHashes(SubSeq(log, 1, n))

InclusionVector(log, i, n) ==
    [leafIndex |-> i, treeSize |-> n, leafHash |-> log[i + 1],
     auditPath |-> InclusionPath(i, SubSeq(log, 1, n)), rootHash |-> RootAt(log, n),
     valid |-> TRUE]

(* Every leaf of the log, some of earlier sizes, and three that must fail: *)
(* the first node corrupted, the next leaf's index, an older root.         *)
InclusionVectors(log, earlier, i) ==
    LET n == Len(log)
        honest == InclusionVector(log, i, n)
    IN  {InclusionVector(log, j, n) : j \in 0..(n - 1)}
          \cup {InclusionVector(log, at[1], at[2]) : at \in earlier}
          \cup {[honest EXCEPT !.auditPath[1] = Corrupted, !.valid = FALSE],
                [honest EXCEPT !.leafIndex = i + 1, !.valid = FALSE],
                [honest EXCEPT !.rootHash = RootAt(log, n - 1), !.valid = FALSE]}

ConsistencyVector(log, m, n) ==
    [first |-> m, second |-> n, firstRoot |-> RootAt(log, m), secondRoot |-> RootAt(log, n),
     consistencyPath |-> ConsistencyPath(m, SubSeq(log, 1, n)), valid |-> TRUE]

(* Pairs of sizes, and two that must fail: the first node corrupted, and   *)
(* the root of another size in the place of the old one.                   *)
ConsistencyVectors(log, pairs, m) ==
    LET honest == ConsistencyVector(log, m, Len(log))
    IN  {ConsistencyVector(log, at[1], at[2]) : at \in pairs}
          \cup {[honest EXCEPT !.consistencyPath[1] = Corrupted, !.valid = FALSE],
                [honest EXCEPT !.firstRoot = RootAt(log, m + 1), !.valid = FALSE]}

(* One head, altered after signing or looked at with other options. *)
SthVectors(log) ==
    LET n == Len(log)
        key == Multibase(SigningKey, "legacy")
        sth == SignTreeHead(BuildSthPayload(LOG_ID, n, RootAt(log, n)), SigningKey, key)
        Vector(head, options, verdict) == [sth |-> head, options |-> options, verdict |-> verdict]
    IN  {Vector(sth, [NoSthOptions EXCEPT !.trustedKeys = {{key}}, !.expectedLogId = {LOG_ID}],
                "valid"),
         Vector([sth EXCEPT !.payload.treeSize = n + 1], NoSthOptions, "bad_signature"),
         Vector([sth EXCEPT !.payload.rootHash = Corrupted], NoSthOptions, "bad_signature"),
         Vector(sth, [NoSthOptions EXCEPT !.trustedKeys = {{OtherKey}}], "untrusted_key"),
         Vector(sth, [NoSthOptions EXCEPT !.minTreeSize = {n + 1}], "tree_size_regression"),
         Vector(sth, [NoSthOptions EXCEPT !.expectedLogId = {OtherLog}], "log_id_mismatch")}

-----------------------------------------------------------------------------
(* The two ways a vector is run: the generator's self-check with the       *)
(* library, and the referee, which also makes the honest proofs anew.      *)

SelfCheck(inclusion, consistency, heads) ==
    /\ \A v \in inclusion :
         VerifyInclusion(v.leafHash, v.leafIndex, v.treeSize, v.auditPath, v.rootHash) = v.valid
    /\ \A v \in consistency :
         VerifyConsistency(v.first, v.second, v.firstRoot, v.secondRoot, v.consistencyPath)
           = v.valid
    /\ \A v \in heads : VerifySignedTreeHead(v.sth, v.options) = v.verdict

RefereePasses(log, inclusion, consistency, heads) ==
    /\ \A n \in 0..Len(log) : RefereeMth(log, 0, n) = RootAt(log, n)
    /\ \A v \in inclusion :
         /\ RefereeVerifyInclusion(v.leafHash, v.leafIndex, v.treeSize, v.auditPath, v.rootHash)
              = v.valid
         /\ v.valid => RefereePath(v.leafIndex, SubSeq(log, 1, v.treeSize)) = v.auditPath
    /\ \A v \in consistency :
         /\ RefereeVerifyConsistency(v.first, v.second, v.firstRoot, v.secondRoot,
                                     v.consistencyPath) = v.valid
         /\ v.valid => RefereeProof(v.first, SubSeq(log, 1, v.second)) = v.consistencyPath
    /\ \A v \in heads : RefereeVerifySth(v.sth, v.options) = v.verdict
=============================================================================

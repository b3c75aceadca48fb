------------------------------- MODULE Merkle -------------------------------
(***************************************************************************)
(* The Merkle tree of packages/tlog-core/src/merkle.ts (RFC 9162, 2.1):    *)
(* tree hash, inclusion and consistency proofs, and the two iterative      *)
(* verifiers.  Hashes are symbolic terms, so two hashes are equal exactly  *)
(* when what was hashed is equal: SHA-256 is taken to be collision free    *)
(* and the 0x00 / 0x01 prefixes keep leaves and interior nodes apart.      *)
(*                                                                         *)
(* A tree is given by the sequence of its leaf hashes; indices into it are *)
(* 0-based, as in the code, so leaf i is leaves[i + 1].                    *)
(***************************************************************************)
EXTENDS Integers, Sequences, SequencesExt

EmptyTreeRoot == <<"empty">>
HashLeaf(input) == <<"leaf", input>>
HashChildren(left, right) == <<"node", left, right>>

LargestPowerOfTwoBelow(n) ==
    LET double[k \in Nat \ {0}] == IF k * 2 < n THEN double[k * 2] ELSE k
    IN  double[1]

IsPowerOfTwo(n) ==
    LET halve[k \in Nat \ {0}] == IF k % 2 = 0 THEN halve[k \div 2] ELSE k
    IN  n >= 1 /\ halve[n] = 1

-----------------------------------------------------------------------------
(* Tree hash.  A subtree is given by its first leaf and its size n, where  *)
(* the code has the bounds lo and hi = lo + n.                             *)

SubtreeRoot(leaves, first, last) ==
    LET root[t \in [lo : Nat, n : 1..Len(leaves)]] ==
          IF t.n = 1
          THEN leaves[t.lo + 1]
          ELSE LET k == LargestPowerOfTwoBelow(t.n)
               IN  HashChildren(root[[lo |-> t.lo, n |-> k]],
                                root[[lo |-> t.lo + k, n |-> t.n - k]])
    IN  root[[lo |-> first, n |-> last - first]]

MerkleRootFromLeafHashes(leaves) ==
    IF leaves = <<>> THEN EmptyTreeRoot ELSE SubtreeRoot(leaves, 0, Len(leaves))

-----------------------------------------------------------------------------
(* Proof generation: recursion on the tree, siblings from the leaf up.     *)

PathRec(index, leaves, first, last) ==
    LET path[t \in [m : Nat, lo : Nat, n : 1..Len(leaves)]] ==
          IF t.n = 1
          THEN <<>>
          ELSE LET k == LargestPowerOfTwoBelow(t.n)
               IN  IF t.m < k
                   THEN Append(path[[m |-> t.m, lo |-> t.lo, n |-> k]],
                               SubtreeRoot(leaves, t.lo + k, t.lo + t.n))
                   ELSE Append(path[[m |-> t.m - k, lo |-> t.lo + k, n |-> t.n - k]],
                               SubtreeRoot(leaves, t.lo, t.lo + k))
    IN  path[[m |-> index, lo |-> first, n |-> last - first]]

InclusionPath(leafIndex, leaves) == PathRec(leafIndex, leaves, 0, Len(leaves))

(* The code tests m === n: m is never larger, as an old tree is part of    *)
(* the new one.                                                            *)
SubProofRec(old, leaves, first, last, isCompleteSubtree) ==
    LET sub[t \in [m : Nat \ {0}, lo : Nat, n : 1..Len(leaves), complete : BOOLEAN]] ==
          IF t.m >= t.n
          THEN IF t.complete THEN <<>> ELSE <<SubtreeRoot(leaves, t.lo, t.lo + t.n)>>
          ELSE LET k == LargestPowerOfTwoBelow(t.n)
               IN  IF t.m <= k
                   THEN Append(sub[[m |-> t.m, lo |-> t.lo, n |-> k, complete |-> t.complete]],
                               SubtreeRoot(leaves, t.lo + k, t.lo + t.n))
                   ELSE Append(sub[[m |-> t.m - k, lo |-> t.lo + k, n |-> t.n - k,
                                    complete |-> FALSE]],
                               SubtreeRoot(leaves, t.lo, t.lo + k))
    IN  sub[[m |-> old, lo |-> first, n |-> last - first, complete |-> isCompleteSubtree]]

ConsistencyPath(first, leaves) == SubProofRec(first, leaves, 0, Len(leaves), TRUE)

-----------------------------------------------------------------------------
(* Verification: one pass over the path.  fn and sn are the positions of   *)
(* the node and of the last node of its level.                             *)

(* Both positions move up while fn ends in this bit (and is not 0): the    *)
(* inner loop of both verifiers, and the leading loop of verifyConsistency. *)
ShiftWhile(bit, fn, sn) ==
    LET shift[at \in [fn : Nat, sn : Nat]] ==
          IF at.fn % 2 = bit /\ at.fn # 0
          THEN shift[[fn |-> at.fn \div 2, sn |-> at.sn \div 2]]
          ELSE at
    IN  shift[[fn |-> fn, sn |-> sn]]

ShiftWhileEven(fn, sn) == ShiftWhile(0, fn, sn)
ShiftWhileOdd(fn, sn) == ShiftWhile(1, fn, sn)

(* A sibling to the left: fn is a right child, or the last, lonely node.   *)
JoinsFromLeft(at) == at.fn % 2 = 1 \/ at.fn = at.sn

(* Mutant: one level up, without the inner loop. *)
ClimbOneLevel(at) == [fn |-> at.fn \div 2, sn |-> at.sn \div 2]

Climb(at) ==
    LET up == IF JoinsFromLeft(at) /\ at.fn % 2 = 0
              THEN ShiftWhileEven(at.fn, at.sn)
              ELSE at
    IN  [fn |-> up.fn \div 2, sn |-> up.sn \div 2]

(* One hash of an inclusion path, and the whole path.                      *)
JoinAudit(at, p) ==
    [ok |-> at.ok /\ at.sn # 0,
     fn |-> Climb(at).fn,
     sn |-> Climb(at).sn,
     r  |-> IF JoinsFromLeft(at) THEN HashChildren(p, at.r) ELSE HashChildren(at.r, p)]

WalkAudit(start, auditPath) ==
    LET at[i \in 0..Len(auditPath)] ==
          IF i = 0 THEN start ELSE JoinAudit(at[i - 1], auditPath[i])
    IN  at[Len(auditPath)]

(* Mutant: the final sn = 0 is not checked. *)
VerifyInclusionAnyLength(leafHash, leafIndex, treeSize, auditPath, rootHash) ==
    WalkAudit([ok |-> TRUE, fn |-> leafIndex, sn |-> treeSize - 1, r |-> leafHash],
              auditPath).r = rootHash

VerifyInclusion(leafHash, leafIndex, treeSize, auditPath, rootHash) ==
    LET end == WalkAudit([ok |-> TRUE, fn |-> leafIndex, sn |-> treeSize - 1, r |-> leafHash],
                         auditPath)
    IN  /\ leafIndex >= 0 /\ leafIndex < treeSize
        /\ end.ok /\ end.sn = 0 /\ end.r = rootHash

(* The same for a consistency path, which leads to two roots.              *)
JoinBoth(at, c) ==
    [ok |-> at.ok /\ at.sn # 0,
     fn |-> Climb(at).fn,
     sn |-> Climb(at).sn,
     fr |-> IF JoinsFromLeft(at) THEN HashChildren(c, at.fr) ELSE at.fr,
     sr |-> IF JoinsFromLeft(at) THEN HashChildren(c, at.sr) ELSE HashChildren(at.sr, c)]

WalkBoth(start, path) ==
    LET at[i \in 0..Len(path)] == IF i = 0 THEN start ELSE JoinBoth(at[i - 1], path[i])
    IN  at[Len(path)]

(* Where the walk begins, and its end.                                     *)
ConsistencyEnd(first, second, firstRoot, consistencyPath) ==
    LET path == IF IsPowerOfTwo(first) THEN <<firstRoot>> \o consistencyPath
                                       ELSE consistencyPath
        start == ShiftWhileOdd(first - 1, second - 1)
    IN  WalkBoth([ok |-> TRUE, fn |-> start.fn, sn |-> start.sn,
                  fr |-> Head(path), sr |-> Head(path)],
                 Tail(path))

(* Mutant: the old root is not compared with the one the path leads to. *)
VerifyConsistencyOfNewRoot(first, second, firstRoot, secondRoot, consistencyPath) ==
    LET end == ConsistencyEnd(first, second, firstRoot, consistencyPath)
    IN  /\ consistencyPath # <<>>
        /\ end.ok /\ end.sn = 0 /\ end.sr = secondRoot

VerifyConsistency(first, second, firstRoot, secondRoot, consistencyPath) ==
    LET end == ConsistencyEnd(first, second, firstRoot, consistencyPath)
    IN  /\ 0 < first /\ first < second
        /\ consistencyPath # <<>>
        /\ end.ok /\ end.sn = 0
        /\ end.fr = firstRoot /\ end.sr = secondRoot
=============================================================================

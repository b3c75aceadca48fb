----------------------------- MODULE TlogReferee -----------------------------
(***************************************************************************)
(* The independent referee of packages/tlog-core/vectors/conformance.mjs.  *)
(* It shares no code with the library, down to the test for a power of     *)
(* two, so that a bug in one shows as a disagreement.  Its names are those *)
(* of the library with Referee before them.                                *)
(***************************************************************************)
EXTENDS TreeHeads

CONSTANT WordSize      \* the numbers of a bitwise operator: 2^32 in JavaScript

ASSUME WordSizeIsPower == WordSize \in Nat \ {0, 1} /\ IsPowerOfTwo(WordSize)

(* The tree hash and the two proofs, written from RFC 9162.                *)

(* A range [lo, hi) is given by lo and its size n.                         *)

RefereePowerBelow(n) ==
    LET double[k \in Nat \ {0}] == IF k * 2 < n THEN double[k * 2] ELSE k
    IN  double[1]

RefereeMth(hashes, first, last) ==
    LET mth[t \in [lo : Nat, n : 0..Len(hashes)]] ==
          IF t.n = 0 THEN EmptyTreeRoot
          ELSE IF t.n = 1 THEN hashes[t.lo + 1]
          ELSE LET k == RefereePowerBelow(t.n)
               IN  HashChildren(mth[[lo |-> t.lo, n |-> k]],
                                mth[[lo |-> t.lo + k, n |-> t.n - k]])
    IN  mth[[lo |-> first, n |-> last - first]]

RefereePath(leafIndex, hashes) ==
    LET path[t \in [m : Nat, lo : Nat, n : 1..Len(hashes)]] ==
          LET k == RefereePowerBelow(t.n)
          IN  IF t.n = 1 THEN <<>>
              ELSE IF t.m < k
              THEN Append(path[[m |-> t.m, lo |-> t.lo, n |-> k]],
                          RefereeMth(hashes, t.lo + k, t.lo + t.n))
              ELSE Append(path[[m |-> t.m - k, lo |-> t.lo + k, n |-> t.n - k]],
                          RefereeMth(hashes, t.lo, t.lo + k))
    IN  path[[m |-> leafIndex, lo |-> 0, n |-> Len(hashes)]]

(* m never exceeds n: t.m >= t.n is the code's m === n. *)
RefereeProof(first, hashes) ==
    LET sub[t \in [m : Nat \ {0}, lo : Nat, n : 1..Len(hashes), complete : BOOLEAN]] ==
          LET k == RefereePowerBelow(t.n)
          IN  IF t.m >= t.n
              THEN IF t.complete THEN <<>> ELSE <<RefereeMth(hashes, t.lo, t.lo + t.n)>>
              ELSE IF t.m <= k
              THEN Append(sub[[m |-> t.m, lo |-> t.lo, n |-> k, complete |-> t.complete]],
                          RefereeMth(hashes, t.lo + k, t.lo + t.n))
              ELSE Append(sub[[m |-> t.m - k, lo |-> t.lo + k, n |-> t.n - k,
                               complete |-> FALSE]],
                          RefereeMth(hashes, t.lo, t.lo + k))
    IN  sub[[m |-> first, lo |-> 0, n |-> Len(hashes), complete |-> TRUE]]

-----------------------------------------------------------------------------
(* Its two verifiers.  at[i] is where the loop stands after i hashes; it   *)
(* has returned early once sn was 0 with a hash left.                      *)

(* Mutant: one level up, without the inner loop. *)
RefereeNextOneLevel(fn, sn) == [fn |-> fn \div 2, sn |-> sn \div 2]

(* Halve both while fn is even and not 0, when fn came from a left child. *)
RefereeNext(fn, sn) ==
    LET even[at \in [fn : Nat, sn : Nat]] ==
          IF at.fn % 2 = 0 /\ at.fn # 0
          THEN even[[fn |-> at.fn \div 2, sn |-> at.sn \div 2]]
          ELSE at
        up == IF fn = sn THEN even[[fn |-> fn, sn |-> sn]] ELSE [fn |-> fn, sn |-> sn]
    IN  [fn |-> up.fn \div 2, sn |-> up.sn \div 2]

RefereeJoin(was, p) ==
    LET left == was.fn % 2 = 1 \/ was.fn = was.sn
        up == RefereeNext(was.fn, was.sn)
    IN  [ok |-> was.ok /\ was.sn # 0, fn |-> up.fn, sn |-> up.sn,
         old |-> IF left THEN HashChildren(p, was.old) ELSE was.old,
         new |-> IF left THEN HashChildren(p, was.new) ELSE HashChildren(was.new, p)]

RefereeWalk(fn, sn, hash, path) ==
    LET at[i \in 0..Len(path)] ==
          IF i = 0 THEN [ok |-> TRUE, fn |-> fn, sn |-> sn, old |-> hash, new |-> hash]
                   ELSE RefereeJoin(at[i - 1], path[i])
    IN  at[Len(path)]

RefereeVerifyInclusion(leafHash, leafIndex, treeSize, auditPath, rootHash) ==
    LET end == RefereeWalk(leafIndex, treeSize - 1, leafHash, auditPath)
    IN  /\ leafIndex \in 0..(treeSize - 1)
        /\ end.ok /\ end.sn = 0 /\ end.new = rootHash

(* No bit is set in both numbers: a & b is 0.  The operator takes numbers  *)
(* as words and does not see the bits above them.                          *)
NoSharedBit(a, b) ==
    LET disjoint[at \in [a : Nat, b : Nat, word : Nat \ {0}]] ==
          \/ at.word = 1
          \/ /\ at.a % 2 = 0 \/ at.b % 2 = 0
             /\ disjoint[[a |-> at.a \div 2, b |-> at.b \div 2, word |-> at.word \div 2]]
    IN  disjoint[[a |-> a, b |-> b, word |-> WordSize]]

(* Not the library's test: it takes WordSize + 1 for a power of two.       *)
RefereeIsPow2(n) == NoSharedBit(n, n - 1)

RefereeVerifyConsistency(first, second, firstRoot, secondRoot, consistencyPath) ==
    LET p == IF RefereeIsPow2(first) THEN <<firstRoot>> \o consistencyPath ELSE consistencyPath
        odd[at \in [fn : Nat, sn : Nat]] ==
          IF at.fn % 2 = 1 THEN odd[[fn |-> at.fn \div 2, sn |-> at.sn \div 2]] ELSE at
        start == odd[[fn |-> first - 1, sn |-> second - 1]]
        end == RefereeWalk(start.fn, start.sn, p[1], Tail(p))
    IN  /\ first > 0 /\ first < second
        /\ consistencyPath # <<>>
        /\ end.ok /\ end.sn = 0 /\ end.old = firstRoot /\ end.new = secondRoot

(* Its five checks of a head: the first that fails. *)
RefereeVerifySth(sth, opts) ==
    LET p == sth.payload
    IN  IF p.schema # "jiaozi.tlog-sth.v1" \/ p.treeSize \notin Nat THEN "bad_shape"
        ELSE IF \E keys \in opts.trustedKeys : sth.publicKeyMultibase \notin keys
          THEN "untrusted_key"
        ELSE IF ~VerifyWithMultibase(sth.publicKeyMultibase, p, sth.signature)
          THEN "bad_signature"
        ELSE IF \E id \in opts.expectedLogId \ {""} : p.logId # id THEN "log_id_mismatch"
        ELSE IF \E floor \in opts.minTreeSize : p.treeSize < floor THEN "tree_size_regression"
        ELSE "valid"
=============================================================================

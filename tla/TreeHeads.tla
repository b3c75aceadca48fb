------------------------------ MODULE TreeHeads ------------------------------
(***************************************************************************)
(* Signed tree heads (packages/tlog-core/src/sth.ts).                      *)
(*                                                                         *)
(* A head's time of signing is left out: nothing looks at it.  An option   *)
(* that may be absent is a set of at most one element.                     *)
(***************************************************************************)
EXTENDS Merkle, Keys

STH_SCHEMA == "jiaozi.tlog-sth.v1"

(* Throws on a treeSize that is not a natural number. *)
BuildSthPayload(logId, treeSize, rootHash) ==
    [schema |-> STH_SCHEMA, logId |-> logId, treeSize |-> treeSize, rootHash |-> rootHash]

SignTreeHead(payload, key, multibase) ==
    [payload |-> payload, signature |-> SignWithPkcs8(key, payload),
     publicKeyMultibase |-> multibase]

IsSignedTreeHeadV1(sth) ==
    sth.payload.schema = STH_SCHEMA /\ sth.payload.treeSize \in Nat

NoSthOptions == [trustedKeys |-> {}, expectedLogId |-> {}, minTreeSize |-> {}]

(* Mutant: any log of the pinned key will do. *)
VerifySignedTreeHeadOfAnyLog(sth, opts) ==
    IF ~IsSignedTreeHeadV1(sth) THEN "bad_shape"
    ELSE IF \E keys \in opts.trustedKeys : sth.publicKeyMultibase \notin keys
      THEN "untrusted_key"
    ELSE IF ~VerifyWithMultibase(sth.publicKeyMultibase, sth.payload, sth.signature)
      THEN "bad_signature"
    ELSE IF \E floor \in opts.minTreeSize : sth.payload.treeSize < floor
      THEN "tree_size_regression"
    ELSE "valid"

(* Mutant: nothing is remembered. *)
VerifySignedTreeHeadAnySize(sth, opts) ==
    VerifySignedTreeHeadOfAnyLog(sth, [opts EXCEPT !.minTreeSize = {}])

(* The failed check that is reported, the first in this order, or "valid". *)
(* An empty expectedLogId is falsy, hence as good as none.                 *)
VerifySignedTreeHead(sth, opts) ==
    IF ~IsSignedTreeHeadV1(sth) THEN "bad_shape"
    ELSE IF \E keys \in opts.trustedKeys : sth.publicKeyMultibase \notin keys
      THEN "untrusted_key"
    ELSE IF ~VerifyWithMultibase(sth.publicKeyMultibase, sth.payload, sth.signature)
      THEN "bad_signature"
    ELSE IF \E id \in opts.expectedLogId \ {""} : sth.payload.logId # id
      THEN "log_id_mismatch"
    ELSE IF \E floor \in opts.minTreeSize : sth.payload.treeSize < floor
      THEN "tree_size_regression"
    ELSE "valid"
=============================================================================

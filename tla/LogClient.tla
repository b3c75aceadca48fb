------------------------------ MODULE LogClient ------------------------------
(***************************************************************************)
(* A relying party that follows a transparency log head by head, as        *)
(* verifySignedTreeHead of packages/tlog-core/src/sth.ts has it: it pins   *)
(* the log's key and identity and passes the largest size it has accepted  *)
(* as the floor, and it asks for a consistency proof (merkle.ts) whenever  *)
(* the log has grown.                                                      *)
(*                                                                         *)
(* The operator is not trusted.  It keeps a history for each audience (its *)
(* branches), which agree up to the leaf `fork`; heads of any branch and   *)
(* of any size it ever had come in any order, repeated or late, mixed with *)
(* heads of its other logs and of other operators.  An operator whose      *)
(* branches agree answers honestly.                                        *)
(***************************************************************************)
EXTENDS TreeHeads

CONSTANTS
    Branches,      \* the histories of the operator, numbered from 1
    Log,           \* the log that is followed: [logId, key]
    Others,        \* other logs: [logId, key]
    MaxSize        \* bound: the size of the log

ASSUME LogsAreRecords ==
    /\ \A log \in {Log} \cup Others : log = [logId |-> log.logId, key |-> log.key]
    /\ Log.logId # ""

ASSUME MaxSizeIsNat == MaxSize \in Nat

VARIABLES
    fork,          \* the branches agree up to this leaf
    size,          \* the number of leaves of each branch
    accepted,      \* the payloads of the heads accepted so far
    waiting,       \* heads that wait for a consistency proof: one or none
    verdict        \* on the last head or proof

vars == <<fork, size, accepted, waiting, verdict>>

-----------------------------------------------------------------------------
(* The operator.                                                           *)

Trunk == 0

Leaves(log, branch, n) ==
    [i \in 1..n |-> HashLeaf([log |-> log, index |-> i,
                              branch |-> IF i <= fork THEN Trunk ELSE branch])]

RootOf(log, branch, n) == MerkleRootFromLeafHashes(Leaves(log, branch, n))

HeadOf(log, branch, n) ==
    SignTreeHead(BuildSthPayload(log.logId, n, RootOf(log, branch, n)),
                 log.key, Multibase(log.key, "legacy"))

Forked == \E b, c \in Branches : b # c /\ size[b] > fork /\ size[c] > fork

(* The paths the operator can answer with: those of its own histories, and *)
(* if it has two, any other it may try.                                    *)
Paths(first, second) ==
    {ConsistencyPath(first, Leaves(Log, branch, second)) :
        branch \in {b \in Branches : size[b] >= second}}
      \cup IF Forked
           THEN {<<RootOf(Log, branch, first)>> : branch \in Branches} \cup {<<>>}
           ELSE {}

-----------------------------------------------------------------------------
(* The relying party.                                                      *)

Accusations == {"split", "inconsistent"}

Seen == accepted[Len(accepted)]

ClientOptions ==
    [trustedKeys   |-> {{Multibase(Log.key, "legacy")}},
     expectedLogId |-> {Log.logId},
     minTreeSize   |-> IF accepted = <<>> THEN {} ELSE {Seen.treeSize}]

Init ==
    /\ fork \in 0..MaxSize
    /\ size = [branch \in Branches |-> 0]
    /\ accepted = <<>>
    /\ waiting = {}
    /\ verdict = "none"

Extend(branch) ==
    /\ size[branch] < MaxSize
    /\ size' = [size EXCEPT ![branch] = @ + 1]
    /\ UNCHANGED <<fork, accepted, waiting, verdict>>

Accept(payload) ==
    /\ accepted' = Append(accepted, payload)
    /\ waiting' = {}
    /\ verdict' = "valid"

(* What a verified head is to the client: the same size as the last one    *)
(* accepted and the same tree or another; larger, on top of nothing; or    *)
(* larger and in need of a proof.                                          *)
Standing(payload) ==
    IF accepted = <<>> THEN "first"
    ELSE IF payload.treeSize = Seen.treeSize
      THEN IF payload.rootHash = Seen.rootHash THEN "known" ELSE "split"
    ELSE IF Seen.treeSize = 0 THEN "first" ELSE "larger"

Receive(log, branch, n) ==
    LET sth == HeadOf(log, branch, n)
        result == VerifySignedTreeHead(sth, ClientOptions)
        standing == Standing(sth.payload)
    IN  /\ waiting = {} /\ verdict \notin Accusations
        /\ n <= size[branch]
        /\ UNCHANGED <<fork, size>>
        /\ \/ /\ result # "valid"
              /\ verdict' = result
              /\ UNCHANGED <<accepted, waiting>>
           \/ /\ result = "valid" /\ standing = "first"
              /\ Accept(sth.payload)
           \/ /\ result = "valid" /\ standing \in {"known", "split"}
              /\ verdict' = standing
              /\ UNCHANGED <<accepted, waiting>>
           \/ /\ result = "valid" /\ standing = "larger"
              /\ waiting' = {sth.payload}
              /\ verdict' = "valid"
              /\ UNCHANGED accepted

ReceiveProof ==
    /\ UNCHANGED <<fork, size>>
    /\ \E payload \in waiting : \E path \in Paths(Seen.treeSize, payload.treeSize) :
         \/ /\ VerifyConsistency(Seen.treeSize, payload.treeSize, Seen.rootHash,
                                 payload.rootHash, path)
            /\ Accept(payload)
         \/ /\ ~VerifyConsistency(Seen.treeSize, payload.treeSize, Seen.rootHash,
                                  payload.rootHash, path)
            /\ waiting' = {}
            /\ verdict' = "inconsistent"
            /\ UNCHANGED accepted

Next ==
    \/ \E branch \in Branches : Extend(branch)
    \/ \E log \in {Log} \cup Others, branch \in Branches, n \in 0..MaxSize :
         Receive(log, branch, n)
    \/ ReceiveProof

Spec == Init /\ [][Next]_vars

-----------------------------------------------------------------------------

(* Only heads of the pinned log are accepted, under its key and its name,  *)
(* and each is larger than all before it; a head that waits for its proof  *)
(* is one of them too.  So much verifySignedTreeHead does alone.           *)
AcceptedInOrder ==
    /\ \A payload \in Range(accepted) \cup waiting :
         \E branch \in Branches, n \in 0..MaxSize : payload = HeadOf(Log, branch, n).payload
    /\ \A i \in 2..Len(accepted) : accepted[i - 1].treeSize < accepted[i].treeSize
    /\ \A payload \in waiting : accepted # <<>> /\ Seen.treeSize < payload.treeSize

(* Whatever the operator shows and answers, all heads a client has ever    *)
(* accepted are of one and the same history: the floor and the proof       *)
(* between each head and the next leave no gap a second history could be   *)
(* slipped through.                                                        *)
AcceptedHeadsAgree ==
    accepted # <<>> =>
      \E branch \in Branches : \A payload \in Range(accepted) :
        payload = HeadOf(Log, branch, payload.treeSize).payload

(* A log that has kept a single history is never accused, however late,    *)
(* repeated or out of order its heads arrive, whatever heads of other logs *)
(* arrive between them, and whenever its proofs are made.                  *)
HonestLogNeverAccused == verdict \in Accusations => Forked
=============================================================================

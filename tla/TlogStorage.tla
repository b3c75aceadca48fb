----------------------------- MODULE TlogStorage -----------------------------
(***************************************************************************)
(* Log entries (packages/tlog-core/src/entry.ts) and the in-memory storage *)
(* behind the transparency log (packages/tlog-core/src/storage.ts).        *)
(*                                                                         *)
(* The storage is a passive object: this module has its state and the      *)
(* synchronous part of each of its methods.  Who calls them, and what runs *)
(* between two awaits, is the business of TransparencyLog.                 *)
(*                                                                         *)
(* An event's contentHash and timestamp are one field, content: two events *)
(* with equal fields are the same entry and have the same leaf hash.       *)
(***************************************************************************)
EXTENDS Integers, Sequences, Merkle

CONSTANTS
    Input          \* the events handed to appendEvent: [eventType, certId, content]

-----------------------------------------------------------------------------
(* Entries.  A certificate id is [prefix, number].                         *)

TLOG_EVENT_TYPES == {"cert_issued", "cert_suspended", "cert_reinstated", "cert_revoked"}

NormalizeCertId(id) == IF id.prefix = "JJ" THEN [id EXCEPT !.prefix = "JP"] ELSE id

BuildTlogEntry(input) == [input EXCEPT !.certId = NormalizeCertId(@)]

ValidTlogEntry(entry) ==
    /\ entry.eventType \in TLOG_EVENT_TYPES
    /\ entry.certId.prefix \in {"JIAOZI", "JP"}

Entry == {BuildTlogEntry(input) : input \in Input}
LeafHash == {HashLeaf(entry) : entry \in Entry}
CertId == {entry.certId : entry \in Entry}

-----------------------------------------------------------------------------
(* The storage object.                                                     *)

VARIABLES
    entries,       \* the log: a sequence of [leafIndex, entry, leafHash]
    byLeafHash,    \* Map leaf hash -> leaf index, Undefined when there is none
    byCertId,      \* Map certificate id -> leaf indexes, <<>> when there is none
    sths           \* the stored tree heads: a sequence of [treeSize, rootHash]

storageVars == <<entries, byLeafHash, byCertId, sths>>

Undefined == -1

StorageInit ==
    /\ entries = <<>>
    /\ byLeafHash = [h \in LeafHash |-> Undefined]
    /\ byCertId = [id \in CertId |-> <<>>]
    /\ sths = <<>>

Size == Len(entries)

StoredEntry(leafIndex, entry) ==
    [leafIndex |-> leafIndex, entry |-> entry, leafHash |-> HashLeaf(entry)]

(* Mutants: the position or the hash is not checked. *)
AppendAllowedAnywhere(record) == byLeafHash[record.leafHash] = Undefined
AppendAllowedTwice(record) == record.leafIndex = Size

AppendAllowed(record) ==
    /\ record.leafIndex = Size
    /\ byLeafHash[record.leafHash] = Undefined

(* Mutant: the certificate's list starts afresh. *)
AppendRecordForgetting(record) ==
    /\ entries' = Append(entries, record)
    /\ byLeafHash' = [byLeafHash EXCEPT ![record.leafHash] = record.leafIndex]
    /\ byCertId' = [byCertId EXCEPT ![record.entry.certId] = <<record.leafIndex>>]
    /\ UNCHANGED sths

(* append(): no await in its body, so the three structures change at once. *)
AppendRecord(record) ==
    /\ entries' = Append(entries, record)
    /\ byLeafHash' = [byLeafHash EXCEPT ![record.leafHash] = record.leafIndex]
    /\ byCertId' = [byCertId EXCEPT ![record.entry.certId] = Append(@, record.leafIndex)]
    /\ UNCHANGED sths

RangeAllowed(start, endExclusive) ==
    start >= 0 /\ start <= endExclusive /\ endExclusive <= Size

GetRange(start, endExclusive) == SubSeq(entries, start + 1, endExclusive)

(* getLeafHashes(0, n) *)
LeafHashes(n) == [i \in 1..n |-> entries[i].leafHash]

(* getLatestSth(): the tree size of the latest head, Undefined before any. *)
LatestSize == IF sths = <<>> THEN Undefined ELSE sths[Len(sths)].treeSize
=============================================================================

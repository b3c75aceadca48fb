-------------------------- MODULE MCTransparencyLog --------------------------
(***************************************************************************)
(* A small transparency log for TLC: two events about one certificate, one *)
(* of them under the certificate's old JJ prefix as well (the same entry,  *)
(* once normalised), an event about another one, and one that is not       *)
(* valid.                                                                  *)
(***************************************************************************)
EXTENDS TransparencyLog, TLC

Cert(prefix, number) == [prefix |-> prefix, number |-> number]
Event(type, id) == [eventType |-> type, certId |-> id, content |-> 0]

MCInput ==
    {Event("cert_issued", Cert("JP", 1)),
     Event("cert_issued", Cert("JJ", 1)),
     Event("cert_revoked", Cert("JP", 1)),
     Event("cert_issued", Cert("XX", 1))}

MCTwoInputs ==
    {Event("cert_issued", Cert("JP", 1)), Event("cert_revoked", Cert("JP", 1))}

(* Heads a mirror may hold of another log. *)
MCDirectHeads ==
    {[treeSize |-> n, rootHash |-> HashLeaf(n)] : n \in 1..2}

(* A head of size 1, of this log or of another, as the first entry has it. *)
MCSmallHead ==
    {[treeSize |-> 1, rootHash |-> HashLeaf(BuildTlogEntry(Event("cert_issued", Cert("JP", 1))))]}

MCQuery ==
    {[kind |-> "inclusion", leafHash |-> HashLeaf(BuildTlogEntry(input)), treeSize |-> n] :
        input \in {Event("cert_revoked", Cert("JP", 1))}, n \in {1, 2}}
    \cup {[kind |-> "consistency", first |-> 1, second |-> 2]}
    \cup {[kind |-> "entries", start |-> 0, end |-> 1, maxCount |-> 1]}

MCNone == {}

MCSymmetry ==
    Permutations(Appenders) \cup Permutations(Signers) \cup Permutations(Storers)
=============================================================================

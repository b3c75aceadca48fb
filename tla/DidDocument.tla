---------------------------- MODULE DidDocument ----------------------------
(***************************************************************************)
(* An agent's DID document: its identifier (packages/gdid-core/src/        *)
(* did.ts), how it is issued (src/index.ts), how its keys are rotated      *)
(* (src/keys.ts), and the views that adapters make of it                   *)
(* (packages/adapters/src/index.ts).                                       *)
(*                                                                         *)
(* A host and a did:web identifier are the sequences of their parts        *)
(* between the colons.  A method's id is the number N of its               *)
(* <did>#key-N.  Time stamps and the context are left out.                 *)
(***************************************************************************)
EXTENDS Integers, Sequences, Keys

BuildAgentDid(coreHost, certId) == coreHost \o <<"agents", certId>>

(* The HTTPS address of an identifier: what follows the first colon is     *)
(* taken for the path, a port as well.                                     *)
DidWebHttpUrl(did) ==
    [host |-> did[1], path |-> IF Len(did) = 1 THEN <<".well-known">> ELSE Tail(did)]

VerificationMethod(n, multibase) ==
    [id                 |-> n,
     publicKeyMultibase |-> ToStandardEd25519Multibase(multibase),
     revoked            |-> FALSE]

CreateSoftwareDidDocument(did, certId, ownerPubkey) ==
    [id                 |-> did,
     jiaoziCertId       |-> certId,
     verificationMethod |-> <<VerificationMethod(1, ownerPubkey)>>,
     authentication     |-> <<1>>,
     assertionMethod    |-> <<1>>]

IssueDidBundle(coreHost, certId, ownerPubkey) ==
    LET did == BuildAgentDid(coreHost, certId)
    IN  [did      |-> did,
         document |-> CreateSoftwareDidDocument(did, certId, ownerPubkey),
         httpUrl  |-> DidWebHttpUrl(did)]

(* The methods, those that authenticate revoked. *)
RetiredMethods(document) ==
    [i \in DOMAIN document.verificationMethod |->
       LET method == document.verificationMethod[i]
       IN  IF \E k \in DOMAIN document.authentication : document.authentication[k] = method.id
           THEN [method EXCEPT !.revoked = TRUE] ELSE method]

(* Mutant: the number of methods is taken for the new method's id. *)
RotateDidDocumentKeysOntoLast(document, newPublicKey) ==
    LET n == Len(document.verificationMethod)
    IN  [document EXCEPT
           !.verificationMethod = Append(RetiredMethods(document),
                                         VerificationMethod(n, newPublicKey)),
           !.authentication = <<n>>,
           !.assertionMethod = <<n>>]

RotateDidDocumentKeys(document, newPublicKey) ==
    LET n == Len(document.verificationMethod) + 1
    IN  [document EXCEPT
           !.verificationMethod = Append(RetiredMethods(document),
                                         VerificationMethod(n, newPublicKey)),
           !.authentication = <<n>>,
           !.assertionMethod = <<n>>]

(* The did:key view is of the first method, whatever became of its key. *)
ToDidKeyView(document) ==
    IF document.verificationMethod = <<>> THEN [unsupported |-> TRUE]
    ELSE LET multibase == document.verificationMethod[1].publicKeyMultibase
         IN  [id |-> multibase, derivedFrom |-> document.id, authentication |-> <<multibase>>]

MultiStandardViews(document) ==
    [w3cDid |-> document, didKey |-> ToDidKeyView(document)]

-----------------------------------------------------------------------------

(* The keys a document authenticates with. *)
KeysInForce(document) ==
    LET methods == document.verificationMethod
    IN  {methods[i].publicKeyMultibase.key :
           i \in {j \in DOMAIN methods :
                    \E k \in DOMAIN document.authentication :
                      document.authentication[k] = methods[j].id}}

(* A document is sound when its methods are numbered from 1, all but the   *)
(* last are revoked, and the last alone authenticates and asserts.         *)
Sound(document) ==
    LET methods == document.verificationMethod
    IN  /\ Len(methods) > 0
        /\ \A i \in DOMAIN methods :
             /\ methods[i].id = i
             /\ methods[i].revoked <=> i < Len(methods)
        /\ document.authentication = <<Len(methods)>>
        /\ document.assertionMethod = <<Len(methods)>>
=============================================================================

-------------------------- MODULE Lifecycle_proofs --------------------------
(***************************************************************************)
(* OneCurrentKey, OwnerKeepsControl, SummaryHolds, EvidenceHolds and       *)
(* ReadersAgree, for any keys, trees, chains and numbers of rotations,     *)
(* requests and edits.                                                     *)
(***************************************************************************)
EXTENDS Lifecycle, SequenceTheorems, FiniteSetTheorems, TLAPS

(* A document with the fields that rotations change, and a sound list of   *)
(* methods, each with a revocation mark.                                   *)
IsDocument(d) ==
    /\ {"verificationMethod", "authentication", "assertionMethod"} \subseteq DOMAIN d
    /\ Len(d.verificationMethod) \in Nat
    /\ d.verificationMethod =
         [i \in 1..Len(d.verificationMethod) |-> d.verificationMethod[i]]
    /\ \A i \in 1..Len(d.verificationMethod) : "revoked" \in DOMAIN d.verificationMethod[i]
    /\ Sound(d)

IsRecord(r) ==
    /\ {"status", "document"} \subseteq DOMAIN r
    /\ IsDocument(r.document)

(* Every key a document has had. *)
DocKeys(d) == {d.verificationMethod[i].publicKeyMultibase.key : i \in DOMAIN d.verificationMethod}

(* One document's list of keys begins the other's. *)
Begins(d, e) ==
    \A i \in DOMAIN d.verificationMethod :
      /\ i \in DOMAIN e.verificationMethod
      /\ d.verificationMethod[i].publicKeyMultibase = e.verificationMethod[i].publicKeyMultibase

-----------------------------------------------------------------------------
(* Documents.                                                              *)

LEMMA AppendTo ==
    ASSUME NEW n \in Nat, NEW f, f = [i \in 1..n |-> f[i]], NEW e
    PROVE  /\ Len(f) = n
           /\ Append(f, e) = [i \in 1..(n + 1) |-> IF i = n + 1 THEN e ELSE f[i]]
           /\ Len(Append(f, e)) = n + 1
<1> DEFINE S == {f[i] : i \in 1..n} \cup {e}
<1>1. f \in [1..n -> S]
  OBVIOUS
<1>2. f \in Seq(S)
  BY <1>1, SeqDef
<1>3. Len(f) \in Nat /\ DOMAIN f = 1..Len(f)
  BY <1>2, LenProperties
<1>4. DOMAIN f = 1..n
  BY <1>1
<1>5. Len(f) = n
  BY <1>3, <1>4
<1>6. /\ Append(f, e) \in Seq(S)
      /\ Len(Append(f, e)) = n + 1
      /\ \A i \in 1..n : Append(f, e)[i] = f[i]
      /\ Append(f, e)[n + 1] = e
  BY <1>2, <1>5, AppendProperties
<1>7. DOMAIN Append(f, e) = 1..(n + 1)
  BY <1>6, LenProperties
<1>8. Append(f, e) \in [1..(n + 1) -> S]
  BY <1>6, <1>7, LenProperties
<1>9. Append(f, e) = [i \in 1..(n + 1) |-> Append(f, e)[i]]
  BY <1>8
<1> QED BY <1>5, <1>6, <1>9

LEMMA SingletonSequence ==
    ASSUME NEW x
    PROVE  /\ Len(<<x>>) = 1
           /\ <<x>>[1] = x
           /\ DOMAIN <<x>> = 1..1
           /\ <<x>> = [i \in 1..1 |-> <<x>>[i]]
  OBVIOUS

(* The key in force in a sound document is its last. *)
LEMMA KeyOfLast ==
    ASSUME NEW d, IsDocument(d)
    PROVE  KeysInForce(d) =
             {d.verificationMethod[Len(d.verificationMethod)].publicKeyMultibase.key}
<1> DEFINE m == d.verificationMethod
           n == Len(m)
<1>1. n \in Nat /\ n > 0 /\ DOMAIN m = 1..n
  BY DEF IsDocument, Sound
<1>2. d.authentication = <<n>> /\ \A i \in 1..n : m[i].id = i
  BY <1>1 DEF IsDocument, Sound
<1>3. DOMAIN d.authentication = {1} /\ d.authentication[1] = n
  BY <1>2
<1>4. {j \in DOMAIN m : \E k \in DOMAIN d.authentication : d.authentication[k] = m[j].id} = {n}
  BY <1>1, <1>2, <1>3
<1>5. KeysInForce(d) = {m[i].publicKeyMultibase.key : i \in {n}}
  BY <1>4 DEF KeysInForce
<1> QED BY <1>5

LEMMA KeyInForceIsPublished ==
    ASSUME NEW d, IsDocument(d)
    PROVE  KeysInForce(d) # {} /\ KeysInForce(d) \subseteq DocKeys(d)
<1>1. Len(d.verificationMethod) \in DOMAIN d.verificationMethod
  BY DEF IsDocument, Sound
<1> QED BY <1>1, KeyOfLast DEF DocKeys

(* What makes a document: its fields, and a sound list of methods. *)
LEMMA DocumentOf ==
    ASSUME NEW d, NEW n \in Nat, n > 0, NEW methods,
           {"verificationMethod", "authentication", "assertionMethod"} \subseteq DOMAIN d,
           d.verificationMethod = methods,
           d.authentication = <<n>>,
           d.assertionMethod = <<n>>,
           Len(methods) = n,
           methods = [i \in 1..n |-> methods[i]],
           \A i \in 1..n :
             /\ "revoked" \in DOMAIN methods[i]
             /\ methods[i].id = i
             /\ methods[i].revoked <=> i < n
    PROVE  IsDocument(d)
<1>1. DOMAIN methods = 1..n
  OBVIOUS
<1>2. Sound(d)
  BY <1>1 DEF Sound
<1> QED BY <1>2 DEF IsDocument

(* The document of a new certificate. *)
LEMMA IssueSound ==
    ASSUME NEW host, NEW certId, NEW key, NEW d,
           d = IssueDidBundle(host, certId, Multibase(key, "legacy")).document
    PROVE  /\ IsDocument(d) /\ KeysInForce(d) = {key} /\ DocKeys(d) = {key}
           /\ Len(d.verificationMethod) = 1
<1> DEFINE method == VerificationMethod(1, Multibase(key, "legacy"))
           methods == <<method>>
<1>1. /\ {"verificationMethod", "authentication", "assertionMethod"} \subseteq DOMAIN d
      /\ d.verificationMethod = methods /\ d.authentication = <<1>> /\ d.assertionMethod = <<1>>
  BY DEF IssueDidBundle, CreateSoftwareDidDocument
<1>2. "revoked" \in DOMAIN method /\ method.id = 1 /\ method.revoked = FALSE
  BY DEF VerificationMethod
<1>3. method.publicKeyMultibase.key = key
  BY DEF VerificationMethod, ToStandardEd25519Multibase, Multibase
<1> HIDE DEF method
<1>4. /\ Len(methods) = 1 /\ methods[1] = method
      /\ methods = [i \in 1..1 |-> methods[i]]
  BY SingletonSequence
<1> HIDE DEF methods
<1>5. \A i \in 1..1 :
        /\ "revoked" \in DOMAIN methods[i]
        /\ methods[i].id = i
        /\ methods[i].revoked <=> i < 1
  BY <1>2, <1>4
<1>6. IsDocument(d)
  <2>1. DOMAIN methods = 1..1
    BY <1>4
  <2>2. Sound(d)
    <3>1. \A i \in DOMAIN methods :
            methods[i].id = i /\ (methods[i].revoked <=> i < Len(methods))
      BY <1>4, <1>5, <2>1
    <3>2. Len(methods) > 0
      BY <1>4
    <3>3. d.authentication = <<Len(methods)>> /\ d.assertionMethod = <<Len(methods)>>
      BY <1>1, <1>4
    <3> QED BY <1>1, <3>1, <3>2, <3>3 DEF Sound
  <2> QED BY <1>1, <1>4, <1>5, <2>2 DEF IsDocument
<1>7. KeysInForce(d) = {key}
  <2>1. KeysInForce(d) =
          {d.verificationMethod[Len(d.verificationMethod)].publicKeyMultibase.key}
    BY <1>6, KeyOfLast, Zenon
  <2> QED BY <1>1, <1>3, <1>4, <2>1
<1>8. DocKeys(d) = {key}
  <2>1. DOMAIN methods = {1}
    BY <1>4
  <2> QED BY <1>1, <1>3, <1>4, <2>1 DEF DocKeys
<1> QED BY <1>1, <1>4, <1>6, <1>7, <1>8

(* A rotation retires the key in force for the new one, and forgets none. *)
LEMMA RotateSound ==
    ASSUME NEW d, IsDocument(d), NEW key, NEW e,
           e = RotateDidDocumentKeys(d, Multibase(key, "legacy"))
    PROVE  /\ IsDocument(e)
           /\ KeysInForce(e) = {key}
           /\ DocKeys(e) = DocKeys(d) \cup {key}
           /\ Begins(d, e)
<1> DEFINE m == d.verificationMethod
           n == Len(m)
           r == RetiredMethods(d)
           method == VerificationMethod(n + 1, Multibase(key, "legacy"))
           methods == Append(r, method)
<1>1. n \in Nat /\ n > 0 /\ DOMAIN m = 1..n /\ m = [i \in 1..n |-> m[i]]
  BY DEF IsDocument, Sound
<1>2. /\ d.authentication = <<n>>
      /\ \A i \in 1..n : m[i].id = i /\ (m[i].revoked <=> i < n) /\ "revoked" \in DOMAIN m[i]
  BY <1>1 DEF IsDocument, Sound
<1>3. DOMAIN d.authentication = {1} /\ d.authentication[1] = n
  BY <1>2
<1>4. r = [i \in 1..n |-> IF i = n THEN [m[i] EXCEPT !.revoked = TRUE] ELSE m[i]]
  BY <1>1, <1>2, <1>3 DEF RetiredMethods
<1>5. \A i \in 1..n :
        /\ "revoked" \in DOMAIN r[i] /\ r[i].revoked
        /\ r[i].id = i
        /\ r[i].publicKeyMultibase = m[i].publicKeyMultibase
  <2> TAKE i \in 1..n
  <2>1. CASE i = n
    <3>1. r[i] = [m[i] EXCEPT !.revoked = TRUE]
      BY <1>4, <2>1
    <3>2. "revoked" \in DOMAIN m[i] /\ m[i].id = i
      BY <1>2
    <3> HIDE DEF m, r
    <3> QED BY <3>1, <3>2
  <2>2. CASE i # n
    <3>1. r[i] = m[i] /\ i < n
      BY <1>1, <1>4, <2>2
    <3> QED BY <1>2, <3>1
  <2> QED BY <2>1, <2>2
<1>6. "revoked" \in DOMAIN method /\ method.id = n + 1 /\ method.revoked = FALSE
  BY DEF VerificationMethod
<1>7. method.publicKeyMultibase.key = key
  BY DEF VerificationMethod, ToStandardEd25519Multibase, Multibase
<1>8. /\ {"verificationMethod", "authentication", "assertionMethod"} \subseteq DOMAIN e
      /\ e.verificationMethod = methods
      /\ e.authentication = <<n + 1>> /\ e.assertionMethod = <<n + 1>>
  <2>1. e = [d EXCEPT !.verificationMethod = methods, !.authentication = <<n + 1>>,
                      !.assertionMethod = <<n + 1>>]
    BY DEF RotateDidDocumentKeys
  <2>2. {"verificationMethod", "authentication", "assertionMethod"} \subseteq DOMAIN d
    BY DEF IsDocument
  <2> HIDE DEF m, n, r, method, methods
  <2> QED BY <2>1, <2>2
<1>9. r = [i \in 1..n |-> r[i]]
  BY <1>4
<1>10. m = d.verificationMethod
  OBVIOUS
<1> HIDE DEF m, n, r, method
<1>12. /\ methods = [i \in 1..(n + 1) |-> IF i = n + 1 THEN method ELSE r[i]]
       /\ Len(methods) = n + 1
  BY <1>1, <1>9, AppendTo
<1> HIDE DEF methods
<1>13. /\ DOMAIN methods = 1..(n + 1)
       /\ methods = [i \in 1..(n + 1) |-> methods[i]]
       /\ methods[n + 1] = method
       /\ \A i \in 1..n : methods[i] = r[i]
  BY <1>1, <1>12
<1>14. 1..(n + 1) = (1..n) \cup {n + 1}
  BY <1>1
<1>15. \A i \in 1..(n + 1) :
         /\ "revoked" \in DOMAIN methods[i]
         /\ methods[i].id = i
         /\ methods[i].revoked <=> i < n + 1
  <2> TAKE i \in 1..(n + 1)
  <2>1. CASE i \in 1..n
    <3>1. i < n + 1
      BY <1>1, <2>1
    <3> QED BY <1>5, <1>13, <2>1, <3>1
  <2>2. CASE i = n + 1
    <3>1. ~(i < n + 1)
      BY <1>1, <2>2
    <3> QED BY <1>6, <1>13, <2>2, <3>1
  <2> QED BY <1>14, <2>1, <2>2
<1>16. IsDocument(e)
  <2>1. n + 1 \in Nat /\ n + 1 > 0
    BY <1>1
  <2> QED BY <1>8, <1>12, <1>13, <1>15, <2>1, DocumentOf
<1>17. KeysInForce(e) = {key}
  <2>1. KeysInForce(e) =
          {e.verificationMethod[Len(e.verificationMethod)].publicKeyMultibase.key}
    BY <1>16, KeyOfLast, Zenon
  <2> QED BY <1>7, <1>8, <1>12, <1>13, <2>1
<1>18. \A i \in 1..n : methods[i].publicKeyMultibase = m[i].publicKeyMultibase
  BY <1>5, <1>13
<1>19. DocKeys(e) = DocKeys(d) \cup {key}
  <2>1. DocKeys(e) = {methods[i].publicKeyMultibase.key : i \in (1..n) \cup {n + 1}}
    BY <1>8, <1>13, <1>14 DEF DocKeys
  <2>2. DocKeys(d) = {methods[i].publicKeyMultibase.key : i \in 1..n}
    BY <1>1, <1>10, <1>18 DEF DocKeys
  <2>3. methods[n + 1].publicKeyMultibase.key = key
    BY <1>7, <1>13
  <2> QED BY <2>1, <2>2, <2>3
<1>20. Begins(d, e)
  <2>1. \A i \in 1..n : i \in 1..(n + 1)
    BY <1>14
  <2> QED BY <1>1, <1>8, <1>10, <1>13, <1>18, <2>1 DEF Begins
<1> QED BY <1>16, <1>17, <1>19, <1>20

-----------------------------------------------------------------------------
(* The inductive invariant.                                                *)

(* The stages until a summary is posted, and the fields of the work. *)
EARLY == {"idle", "hash", "malicious", "secret", "chain", "ready"}
FIELDS == {"stage", "tree", "hash", "malicious", "chain", "asked", "summary", "edits", "exit"}

(* Until a summary is posted there is nothing at the registry; what waits  *)
(* to be certified names the key the owner has.                            *)
Beginnings ==
    /\ FIELDS \subseteq DOMAIN work
    /\ work.stage \in EARLY => sent = {} /\ certificate = {}
    /\ sent # {} => certificate = {}
    /\ certificate = {} =>
         /\ requests = {} /\ answers = {} /\ call = {}
         /\ \A summary \in sent \cup work.summary :
              summary.ownerPubkey = Multibase(believed, "legacy")
    /\ believed \in held

Records ==
    /\ certificate \subseteq versions
    /\ \A record \in versions :
         /\ IsRecord(record)
         /\ \A current \in certificate : Begins(record.document, current.document)

(* A request that would be granted brings in a key that the document never *)
(* had and that the owner has kept.                                        *)
Requests ==
    \A record \in certificate :
      /\ believed \in DocKeys(record.document)
      /\ \A request \in requests :
           /\ request.current \in DocKeys(record.document)
           /\ request.current \in KeysInForce(record.document) =>
                request.new \in held \ DocKeys(record.document)

(* A granted request that is still waited for is the last word: nothing    *)
(* on its way can replace the key it brought in.                           *)
Granted ==
    /\ \A one \in call : \A other \in call : one = other
    /\ \A record \in certificate : \A answer \in answers :
         answer.ok =>
           /\ answer.request.new \in DocKeys(record.document)
           /\ answer.request \in call =>
                /\ KeysInForce(record.document) = {answer.request.new}
                /\ \A request \in requests : request.current # answer.request.new

InControl ==
    \A record \in certificate : KeysInForce(record.document) \subseteq held

Inv == Beginnings /\ Records /\ Requests /\ Granted /\ InControl

-----------------------------------------------------------------------------
(* Steps of the author.                                                    *)

LEMMA SummariesNameTheOwner ==
    ASSUME NEW checks, NEW level, NEW summary \in Summarised(checks, level)
    PROVE  summary.ownerPubkey = Multibase(believed, "legacy")
  BY DEF Summarised, AttestSummary

(* Where the certificate and the rotations are left alone, what is said of *)
(* them stays true.                                                        *)
LEMMA Kept ==
    ASSUME Records, Requests, Granted, InControl,
           UNCHANGED <<certificate, versions, requests, answers, call, held, believed>>
    PROVE  Records' /\ Requests' /\ Granted' /\ InControl'
<1>1. Records'
  BY DEF Records
<1>2. Requests'
  BY DEF Requests
<1>3. Granted'
  BY DEF Granted
<1>4. InControl'
  BY DEF InControl
<1> QED BY <1>1, <1>2, <1>3, <1>4

(* A step of the work alone, to a stage as late, that keeps the summary or *)
(* makes one for the owner's key.                                          *)
LEMMA WorkKept ==
    ASSUME Beginnings, WorkOnly,
           FIELDS \subseteq DOMAIN work',
           work'.stage \in EARLY => work.stage \in EARLY,
           \A summary \in work'.summary :
             summary \in work.summary \/ summary.ownerPubkey = Multibase(believed, "legacy")
    PROVE  Beginnings'
<1>1. UNCHANGED <<sent, certificate, requests, answers, call, held, believed>>
  BY DEF WorkOnly, rotationVars
<1>2. work'.stage \in EARLY => sent' = {} /\ certificate' = {}
  BY <1>1 DEF Beginnings
<1>3. sent' # {} => certificate' = {}
  BY <1>1 DEF Beginnings
<1>4. certificate' = {} => requests' = {} /\ answers' = {} /\ call' = {}
  BY <1>1 DEF Beginnings
<1>5. certificate' = {} =>
        \A summary \in sent' \cup work'.summary :
          summary.ownerPubkey = Multibase(believed', "legacy")
  BY <1>1 DEF Beginnings
<1>6. believed' \in held'
  BY <1>1 DEF Beginnings
<1> QED BY <1>2, <1>3, <1>4, <1>5, <1>6 DEF Beginnings, Stage

LEMMA AuthorStep ==
    ASSUME Inv, Author
    PROVE  Inv'
<1>1. FIELDS \subseteq DOMAIN work
  BY DEF Inv, Beginnings
<1>2. UNCHANGED <<certificate, versions, requests, answers, call, held, believed>>
  BY DEF Author, Edit, Main, MainRefuses, HashStep, MaliciousStep, SecretStep, DryRun,
         RunAttestationChain, ChainStep, ChainReturns, Post, PostReturns, PostFails, Own,
         WorkOnly, rotationVars
<1>3. Records' /\ Requests' /\ Granted' /\ InControl'
  BY <1>2, Kept DEF Inv
<1>4. Beginnings'
  <2>1. CASE \E files \in Trees : Edit(files)
    <3>1. work' = [work EXCEPT !.tree = work'.tree, !.edits = work'.edits] /\ WorkOnly
      BY <1>1, <2>1 DEF Edit, FIELDS
    <3>2. /\ FIELDS \subseteq DOMAIN work' /\ work'.stage = work.stage
          /\ work'.summary = work.summary
      BY <1>1, <3>1 DEF FIELDS
    <3> QED BY <3>1, <3>2, WorkKept DEF Inv
  <2>2. CASE Main
    <3>1. /\ FIELDS \subseteq DOMAIN work' /\ work.stage = "idle"
          /\ work'.summary = work.summary /\ WorkOnly
      BY <1>1, <2>2 DEF Main, FIELDS, Stage
    <3> QED BY <3>1, WorkKept DEF Inv, EARLY
  <2>3. CASE MainRefuses
    <3>1. /\ FIELDS \subseteq DOMAIN work' /\ work.stage = "idle"
          /\ work'.summary = work.summary /\ WorkOnly
      BY <1>1, <2>3 DEF MainRefuses, FIELDS, Stage
    <3> QED BY <3>1, WorkKept DEF Inv, EARLY
  <2>4. CASE HashStep
    <3>1. /\ FIELDS \subseteq DOMAIN work' /\ work.stage = "hash"
          /\ work'.summary = work.summary /\ WorkOnly
      BY <1>1, <2>4 DEF HashStep, FIELDS, Stage
    <3> QED BY <3>1, WorkKept DEF Inv, EARLY
  <2>5. CASE MaliciousStep
    <3>1. /\ FIELDS \subseteq DOMAIN work' /\ work.stage = "malicious"
          /\ work'.summary = work.summary /\ WorkOnly
      BY <1>1, <2>5 DEF MaliciousStep, FIELDS, Stage
    <3> QED BY <3>1, WorkKept DEF Inv, EARLY
  <2>6. CASE SecretStep
    <3>1. PICK malicious \in work.malicious :
            work' = [work EXCEPT !.stage = "ready",
                       !.summary = Summarised([maliciousApi |-> malicious,
                                               secretLeak |-> ScanSecretLeak(work.tree)],
                                              "software")]
      BY <2>6 DEF SecretStep
    <3> DEFINE summaries == Summarised([maliciousApi |-> malicious,
                                        secretLeak |-> ScanSecretLeak(work.tree)], "software")
    <3>2. \A summary \in summaries : summary.ownerPubkey = Multibase(believed, "legacy")
      BY SummariesNameTheOwner
    <3> HIDE DEF summaries
    <3>3. /\ FIELDS \subseteq DOMAIN work' /\ work.stage = "secret"
          /\ work'.summary = summaries /\ WorkOnly
      BY <1>1, <2>6, <3>1 DEF SecretStep, FIELDS, Stage, summaries
    <3> QED BY <3>2, <3>3, WorkKept DEF Inv, EARLY
  <2>7. CASE DryRun
    <3>1. /\ FIELDS \subseteq DOMAIN work' /\ work.stage = "ready"
          /\ work'.summary = {} /\ WorkOnly
      BY <1>1, <2>7 DEF DryRun, FIELDS, Stage
    <3> QED BY <3>1, WorkKept DEF Inv, EARLY
  <2>8. CASE \E plugins \in Chains : RunAttestationChain(plugins)
    <3>1. /\ FIELDS \subseteq DOMAIN work' /\ work.stage = "idle"
          /\ work'.summary = work.summary /\ WorkOnly
      BY <1>1, <2>8 DEF RunAttestationChain, FIELDS, Stage
    <3> QED BY <3>1, WorkKept DEF Inv, EARLY
  <2>9. CASE ChainStep
    <3>1. /\ FIELDS \subseteq DOMAIN work' /\ work.stage = "chain"
          /\ work'.summary = work.summary /\ WorkOnly
      BY <1>1, <2>9 DEF ChainStep, FIELDS, Stage
    <3> QED BY <3>1, WorkKept DEF Inv, EARLY
  <2>10. CASE ChainReturns
    <3>1. PICK chain, evidence :
            work' = [work EXCEPT
              !.stage = "ready",
              !.chain = {[chain EXCEPT !.evidence = {evidence}]},
              !.summary = Summarised([maliciousApi |-> "pass", secretLeak |-> "pass"],
                                     evidence.trustLevel)]
      BY <2>10 DEF ChainReturns
    <3> DEFINE summaries == Summarised([maliciousApi |-> "pass", secretLeak |-> "pass"],
                                       evidence.trustLevel)
    <3>2. \A summary \in summaries : summary.ownerPubkey = Multibase(believed, "legacy")
      BY SummariesNameTheOwner
    <3> HIDE DEF summaries
    <3>3. /\ FIELDS \subseteq DOMAIN work' /\ work.stage = "chain"
          /\ work'.summary = summaries /\ WorkOnly
      BY <1>1, <2>10, <3>1 DEF ChainReturns, FIELDS, Stage, summaries
    <3> QED BY <3>2, <3>3, WorkKept DEF Inv, EARLY
  <2>11. CASE Post
    <3>1. /\ FIELDS \subseteq DOMAIN work' /\ work.stage = "ready" /\ work'.stage = "posted"
          /\ work'.summary = work.summary /\ sent' = work.summary
      BY <1>1, <2>11 DEF Post, FIELDS, Stage
    <3>2. certificate = {}
      BY <3>1 DEF Inv, Beginnings, EARLY
    <3> QED BY <1>2, <3>1, <3>2 DEF Inv, Beginnings, EARLY, Stage
  <2>12. CASE \E status \in Statuses : PostReturns(status)
    <3>1. /\ FIELDS \subseteq DOMAIN work' /\ work'.stage = "exited"
          /\ work'.summary = work.summary /\ WorkOnly
      BY <1>1, <2>12 DEF PostReturns, FIELDS, Stage
    <3> QED BY <3>1, WorkKept DEF Inv, EARLY
  <2>13. CASE PostFails
    <3>1. /\ FIELDS \subseteq DOMAIN work' /\ work'.stage = "exited"
          /\ work'.summary = work.summary /\ WorkOnly
      BY <1>1, <2>13 DEF PostFails, FIELDS, Stage
    <3> QED BY <3>1, WorkKept DEF Inv, EARLY
  <2>14. CASE Own
    <3>1. /\ FIELDS \subseteq DOMAIN work' /\ work'.stage = "owned"
          /\ work'.summary = {} /\ WorkOnly
      BY <2>14 DEF Own, Untouched, FIELDS
    <3> QED BY <3>1, WorkKept DEF Inv, EARLY
  <2> QED BY <2>1, <2>2, <2>3, <2>4, <2>5, <2>6, <2>7, <2>8, <2>9, <2>10, <2>11, <2>12,
             <2>13, <2>14 DEF Author
<1> QED BY <1>3, <1>4 DEF Inv

-----------------------------------------------------------------------------
(* Steps of the registry.                                                  *)

LEMMA CertifyStep ==
    ASSUME Inv, NEW status, Certify(status)
    PROVE  Inv'
<1> USE DEF Inv
<1>1. PICK summary \in sent :
        IF status = "refused" THEN certificate' = {}
        ELSE certificate' = {[summary |-> summary, status |-> status,
               document |-> IssueDidBundle(CoreHost, "cert", summary.ownerPubkey).document]}
  BY DEF Certify
<1>2. /\ versions' = certificate' /\ sent' = {}
      /\ UNCHANGED <<requests, answers, call, held, believed>>
  BY DEF Certify, rotationVars
<1>3. /\ certificate = {} /\ requests = {} /\ answers = {} /\ call = {} /\ believed \in held
      /\ work.stage \notin EARLY
      /\ summary.ownerPubkey = Multibase(believed, "legacy")
      /\ \A s \in work.summary : s.ownerPubkey = Multibase(believed, "legacy")
  BY <1>1 DEF Beginnings
<1>4. /\ FIELDS \subseteq DOMAIN work' /\ work'.summary = work.summary
      /\ work'.stage \notin EARLY
  <2>1. work' = work
    BY DEF Certify
  <2> QED BY <1>3, <2>1 DEF Beginnings, FIELDS, EARLY
<1>5. Beginnings'
  BY <1>2, <1>3, <1>4 DEF Beginnings, Stage
<1>6. \A record \in certificate' :
        /\ IsRecord(record)
        /\ KeysInForce(record.document) = {believed} /\ DocKeys(record.document) = {believed}
  <2> SUFFICES ASSUME NEW record \in certificate'
               PROVE  /\ IsRecord(record)
                      /\ KeysInForce(record.document) = {believed}
                      /\ DocKeys(record.document) = {believed}
    OBVIOUS
  <2>1. record = [summary |-> summary, status |-> status,
                  document |-> IssueDidBundle(CoreHost, "cert", summary.ownerPubkey).document]
    BY <1>1
  <2>2. /\ {"status", "document"} \subseteq DOMAIN record
        /\ record.document = IssueDidBundle(CoreHost, "cert", summary.ownerPubkey).document
    BY <2>1
  <2>3. record.document
          = IssueDidBundle(CoreHost, "cert", Multibase(believed, "legacy")).document
    BY <1>3, <2>2
  <2> QED BY <2>2, <2>3, IssueSound DEF IsRecord
<1>7. \A one \in certificate' : \A other \in certificate' : one = other
  BY <1>1
<1>8. Records'
  BY <1>2, <1>6, <1>7 DEF Records, Begins
<1>9. Requests' /\ Granted' /\ InControl'
  BY <1>2, <1>3, <1>6 DEF Requests, Granted, InControl
<1> QED BY <1>5, <1>8, <1>9

LEMMA BeginsTransitive ==
    ASSUME NEW d, NEW e, NEW f, Begins(d, e), Begins(e, f)
    PROVE  Begins(d, f)
  BY DEF Begins

LEMMA BeginsItself ==
    ASSUME NEW d
    PROVE  Begins(d, d)
  BY DEF Begins

(* A record that becomes one whose list of keys it begins. *)
LEMMA BecomesRecord ==
    ASSUME Records, NEW record \in certificate, NEW next,
           IsRecord(next), Begins(record.document, next.document), Becomes(next)
    PROVE  Records'
<1>1. certificate' = {next} /\ versions' = versions \cup {next}
  BY DEF Becomes
<1>2. \A old \in versions : IsRecord(old) /\ Begins(old.document, record.document)
  BY DEF Records
<1>3. \A old \in versions' : IsRecord(old) /\ Begins(old.document, next.document)
  BY <1>1, <1>2, BeginsTransitive, BeginsItself
<1> QED BY <1>1, <1>3 DEF Records

LEMMA SetStatusStep ==
    ASSUME Inv, NEW status, SetStatus(status)
    PROVE  Inv'
<1> USE DEF Inv
<1>1. PICK record \in certificate : Becomes([record EXCEPT !.status = status])
  BY DEF SetStatus
<1>2. UNCHANGED <<work, sent, requests, answers, call, held, believed>>
  BY DEF SetStatus, rotationVars
<1>3. IsRecord(record)
  BY DEF Records
<1> DEFINE next == [record EXCEPT !.status = status]
<1>4. next.document = record.document /\ IsRecord(next)
  <2>1. {"status", "document"} \subseteq DOMAIN next /\ next.document = record.document
    BY <1>3 DEF IsRecord
  <2> HIDE DEF next
  <2> QED BY <1>3, <2>1 DEF IsRecord
<1>5. Becomes(next)
  BY <1>1
<1> HIDE DEF next
<1>6. certificate' = {next}
  BY <1>5 DEF Becomes
<1>7. Records'
  BY <1>4, <1>5, BecomesRecord, BeginsItself
<1>8. Beginnings'
  BY <1>2, <1>6 DEF Beginnings, Stage
<1>9. Requests'
  BY <1>2, <1>4, <1>6 DEF Requests
<1>10. Granted'
  BY <1>2, <1>4, <1>6 DEF Granted
<1>11. InControl'
  BY <1>2, <1>4, <1>6 DEF InControl
<1> QED BY <1>7, <1>8, <1>9, <1>10, <1>11

LEMMA RotateStep ==
    ASSUME Inv, NEW request, Rotate(request)
    PROVE  Inv'
<1> USE DEF Inv
<1>1. /\ request \in requests /\ requests' = requests \ {request}
      /\ UNCHANGED <<work, sent, call, held, believed>>
  BY DEF Rotate
<1>2. PICK record \in certificate :
        IF record.status # "revoked" /\ request.current \in KeysInForce(record.document)
        THEN /\ Becomes([record EXCEPT !.document =
                           RotateDidDocumentKeys(@, Multibase(request.new, "legacy"))])
             /\ answers' = answers \cup {[request |-> request, ok |-> TRUE, json |-> {request.new}]}
        ELSE /\ UNCHANGED <<certificate, versions>>
             /\ answers' = answers \cup {[request |-> request, ok |-> FALSE, json |-> {"message"}]}
  BY DEF Rotate
<1>3. CASE /\ UNCHANGED <<certificate, versions>>
           /\ answers' = answers \cup {[request |-> request, ok |-> FALSE, json |-> {"message"}]}
  <2>1. Records' /\ InControl'
    BY <1>1, <1>3 DEF Records, InControl
  <2>2. Requests'
    BY <1>1, <1>3 DEF Requests
  <2>3. \A answer \in answers' : answer.ok => answer \in answers
    BY <1>3
  <2>4. Granted'
    BY <1>1, <1>3, <2>3 DEF Granted
  <2>5. Beginnings'
    BY <1>1, <1>3 DEF Beginnings, Stage
  <2> QED BY <2>1, <2>2, <2>4, <2>5
<1>4. CASE /\ request.current \in KeysInForce(record.document)
           /\ Becomes([record EXCEPT !.document =
                         RotateDidDocumentKeys(@, Multibase(request.new, "legacy"))])
           /\ answers' = answers \cup {[request |-> request, ok |-> TRUE, json |-> {request.new}]}
  <2> DEFINE new == request.new
             e == RotateDidDocumentKeys(record.document, Multibase(new, "legacy"))
             next == [record EXCEPT !.document = e]
  <2>1. IsRecord(record)
    BY DEF Records
  <2>2. Becomes(next)
    BY <1>4
  <2>3. /\ IsDocument(e) /\ KeysInForce(e) = {new}
        /\ DocKeys(e) = DocKeys(record.document) \cup {new}
        /\ Begins(record.document, e)
    BY <2>1, RotateSound DEF IsRecord
  <2> HIDE DEF e
  <2>4. {"status", "document"} \subseteq DOMAIN next /\ next.document = e
    BY <2>1 DEF IsRecord
  <2> HIDE DEF next
  <2>5. IsRecord(next) /\ Begins(record.document, next.document)
    BY <2>3, <2>4 DEF IsRecord
  <2>6. certificate' = {next}
    BY <2>2 DEF Becomes
  <2>7. Records'
    BY <2>2, <2>5, BecomesRecord
  <2>8. new \in held /\ new \notin DocKeys(record.document)
    BY <1>1, <1>4 DEF Requests
  <2>9. InControl'
    BY <1>1, <2>3, <2>4, <2>6, <2>8 DEF InControl
  <2>10. \A other \in requests : other.current \in DocKeys(record.document) /\ other.current # new
    BY <2>8 DEF Requests
  <2>11. Requests'
    <3>1. believed' \in DocKeys(e)
      BY <1>1, <2>3 DEF Requests
    <3>2. \A other \in requests' : other.current \in DocKeys(e) /\ other.current \notin KeysInForce(e)
      BY <1>1, <2>3, <2>10
    <3> QED BY <2>4, <2>6, <3>1, <3>2 DEF Requests
  <2>12. \A answer \in answers : answer.ok => answer.request \notin call
    BY <1>1, <1>4 DEF Granted
  <2>13. \A answer \in answers' :
           answer.ok => /\ answer.request.new \in DocKeys(e)
                        /\ answer.request \in call => answer.request = request
    <3> SUFFICES ASSUME NEW answer \in answers', answer.ok
                 PROVE  /\ answer.request.new \in DocKeys(e)
                        /\ answer.request \in call => answer.request = request
      OBVIOUS
    <3>1. CASE answer \in answers
      BY <2>3, <2>12, <3>1 DEF Granted
    <3>2. CASE answer = [request |-> request, ok |-> TRUE, json |-> {request.new}]
      BY <2>3, <3>2
    <3> QED BY <1>4, <3>1, <3>2
  <2>14. Granted'
    BY <1>1, <2>3, <2>4, <2>6, <2>10, <2>13 DEF Granted
  <2>15. Beginnings'
    BY <1>1, <2>6 DEF Beginnings, Stage
  <2> QED BY <2>7, <2>9, <2>11, <2>14, <2>15
<1> QED BY <1>2, <1>3, <1>4

LEMMA LoseStep ==
    ASSUME Inv, NEW request, Lose(request)
    PROVE  Inv'
<1> USE DEF Inv
<1>1. /\ requests' \subseteq requests
      /\ UNCHANGED <<work, sent, certificate, versions, answers, call, held, believed>>
  BY DEF Lose
<1>2. Beginnings'
  BY <1>1 DEF Beginnings, Stage
<1>3. Records' /\ InControl'
  BY <1>1 DEF Records, InControl
<1>4. Requests' /\ Granted'
  BY <1>1 DEF Requests, Granted
<1> QED BY <1>2, <1>3, <1>4

-----------------------------------------------------------------------------
(* Steps of the owner.                                                     *)

LEMMA RotateKeyStep ==
    ASSUME Inv, NEW key, RotateKey(key)
    PROVE  Inv'
<1> USE DEF Inv
<1> DEFINE request == [current |-> believed, new |-> key]
<1>1. /\ certificate # {} /\ call = {} /\ call' = {request}
      /\ requests' = requests \cup {request} /\ held' = held \cup {key}
      /\ UNCHANGED <<work, sent, certificate, versions, answers, believed>>
      /\ work.stage = "owned"
  BY DEF RotateKey, Stage
<1>2. request.current = believed /\ request.new = key
  OBVIOUS
<1>3. \A record \in certificate : key \notin DocKeys(record.document)
  BY DEF RotateKey, DocKeys
<1> HIDE DEF request
<1>4. Beginnings'
  BY <1>1 DEF Beginnings, Stage
<1>5. Records' /\ InControl'
  BY <1>1 DEF Records, InControl
<1>6. Requests'
  BY <1>1, <1>2, <1>3 DEF Requests
<1>7. \A answer \in answers : answer.ok => answer.request # request
  BY <1>1, <1>2, <1>3 DEF Granted
<1>8. Granted'
  BY <1>1, <1>7 DEF Granted
<1> QED BY <1>4, <1>5, <1>6, <1>8

LEMMA RotateReturnsStep ==
    ASSUME Inv, NEW answer, RotateReturns(answer)
    PROVE  Inv'
<1> USE DEF Inv
<1>1. /\ answer \in answers /\ answer.request \in call /\ answers' = answers \ {answer}
      /\ call' = {}
      /\ UNCHANGED <<work, sent, certificate, versions, requests>>
  BY DEF RotateReturns
<1>2. certificate # {}
  BY <1>1 DEF Beginnings
<1>3. Records'
  BY <1>1 DEF Records
<1>4. Granted'
  BY <1>1 DEF Granted
<1>5. CASE UNCHANGED <<held, believed>>
  BY <1>1, <1>2, <1>3, <1>4, <1>5 DEF Beginnings, Stage, Requests, InControl
<1>6. CASE answer.ok /\ held' = {answer.request.new} /\ believed' = answer.request.new
  <2>1. \A record \in certificate :
          /\ KeysInForce(record.document) = {answer.request.new}
          /\ answer.request.new \in DocKeys(record.document)
          /\ \A request \in requests : request.current # answer.request.new
    BY <1>1, <1>6 DEF Granted
  <2>2. InControl'
    BY <1>1, <1>6, <2>1 DEF InControl
  <2>3. Requests'
    BY <1>1, <1>6, <2>1 DEF Requests
  <2>4. Beginnings'
    BY <1>1, <1>2, <1>6 DEF Beginnings, Stage
  <2> QED BY <1>3, <1>4, <2>2, <2>3, <2>4
<1> QED BY <1>5, <1>6 DEF RotateReturns, Outcome

LEMMA RotateFailsStep ==
    ASSUME Inv, RotateFails
    PROVE  Inv'
<1> USE DEF Inv
<1>1. /\ call' = {} /\ answers' = {}
      /\ UNCHANGED <<work, sent, certificate, versions, requests, held, believed>>
  BY DEF RotateFails
<1>2. Beginnings'
  BY <1>1 DEF Beginnings, Stage
<1>3. Records' /\ InControl'
  BY <1>1 DEF Records, InControl
<1>4. Requests' /\ Granted'
  BY <1>1 DEF Requests, Granted
<1> QED BY <1>2, <1>3, <1>4

LEMMA AskCurrentKeyStep ==
    ASSUME Inv, AskCurrentKey
    PROVE  Inv'
<1> USE DEF Inv
<1>1. PICK record \in certificate : believed' \in KeysInForce(record.document)
  BY DEF AskCurrentKey
<1>2. UNCHANGED <<work, sent, certificate, versions, requests, answers, call, held>>
  BY DEF AskCurrentKey
<1>3. believed' \in held
  BY <1>1 DEF InControl
<1>4. \A other \in certificate : Begins(record.document, other.document)
  BY DEF Records
<1>5. believed' \in DocKeys(record.document)
  BY <1>1, KeyInForceIsPublished DEF Records, IsRecord
<1>6. \A other \in certificate : believed' \in DocKeys(other.document)
  BY <1>4, <1>5 DEF DocKeys, Begins
<1>7. Beginnings'
  BY <1>1, <1>2, <1>3 DEF Beginnings, Stage
<1>8. Records' /\ Granted' /\ InControl'
  BY <1>2 DEF Records, Granted, InControl
<1>9. Requests'
  BY <1>2, <1>6 DEF Requests
<1> QED BY <1>7, <1>8, <1>9

-----------------------------------------------------------------------------

LEMMA Initially == Init => Inv
<1> SUFFICES ASSUME Init
             PROVE  Inv
  OBVIOUS
<1>1. /\ sent = {} /\ certificate = {} /\ versions = {} /\ requests = {} /\ answers = {}
      /\ call = {} /\ believed \in held
  BY DEF Init
<1>2. PICK tree \in Trees : work = Untouched("idle", tree)
  BY DEF Init
<1>3. FIELDS \subseteq DOMAIN work /\ work.summary = {}
  BY <1>2 DEF Untouched, FIELDS
<1>4. Beginnings
  BY <1>1, <1>3 DEF Beginnings
<1>5. Records /\ Requests /\ Granted /\ InControl
  BY <1>1 DEF Records, Requests, Granted, InControl
<1> QED BY <1>4, <1>5 DEF Inv

LEMMA Stutter ==
    ASSUME Inv, UNCHANGED vars
    PROVE  Inv'
<1>1. UNCHANGED <<work, sent, certificate, versions, requests, answers, call, held, believed>>
  BY DEF vars, rotationVars
<1>2. Records' /\ Requests' /\ Granted' /\ InControl'
  BY <1>1, Kept DEF Inv
<1>3. Beginnings'
  BY <1>1 DEF Inv, Beginnings, Stage
<1> QED BY <1>2, <1>3 DEF Inv

LEMMA Always == Spec => []Inv
<1>1. Inv /\ [Next]_vars => Inv'
  BY AuthorStep, CertifyStep, SetStatusStep, RotateStep, LoseStep, RotateKeyStep,
     RotateReturnsStep, RotateFailsStep, AskCurrentKeyStep, Stutter
     DEF Next, Owner, Registry
<1> QED BY <1>1, Initially, PTL DEF Spec

(* Every document the registry ever shows has one key in force, under an   *)
(* id of its own, with every other marked revoked, and what it lists is    *)
(* the beginning of what it will list (keys.ts), for any number of         *)
(* rotations in any order.                                                 *)
THEOREM DocumentsStaySound == Spec => []OneCurrentKey
<1>1. Inv => OneCurrentKey
  <2> SUFFICES ASSUME Inv, NEW record \in versions
               PROVE  /\ Sound(record.document)
                      /\ \A current \in certificate : \A i \in DOMAIN PublishedKeys(record) :
                           /\ i \in DOMAIN PublishedKeys(current)
                           /\ PublishedKeys(record)[i] = PublishedKeys(current)[i]
    BY DEF OneCurrentKey
  <2>1. Sound(record.document)
    BY DEF Inv, Records, IsRecord, IsDocument
  <2>2. \A current \in certificate : Begins(record.document, current.document)
    BY DEF Inv, Records
  <2> QED BY <2>1, <2>2 DEF Begins, PublishedKeys
<1> QED BY <1>1, Always, PTL

(* An owner that keeps its keys until rotateKey has returned holds the key *)
(* in force, whatever became of its requests and of their answers.         *)
THEOREM OwnersStayInControl == Spec => []OwnerKeepsControl
<1>1. Inv => OwnerKeepsControl
  <2> SUFFICES ASSUME Inv, NEW record \in certificate
               PROVE  /\ KeysInForce(record.document) # {}
                      /\ KeysInForce(record.document) \subseteq held
    BY DEF OwnerKeepsControl
  <2>1. IsDocument(record.document)
    BY DEF Inv, Records, IsRecord
  <2>2. KeysInForce(record.document) # {}
    BY <2>1, KeyInForceIsPublished
  <2> QED BY <2>2 DEF Inv, InControl
<1> QED BY <1>1, Always, PTL

-----------------------------------------------------------------------------
(* What the validator and the registry say is true.  A second invariant,   *)
(* which rests on the first: what the summary and the chain's evidence     *)
(* were made of, and what every copy of a record may show.                 *)

PLUGINS == {"tpm", "tee", "cloud_attest", "software"}

ChecksOf(tree) ==
    [maliciousApi |-> ScanMaliciousApi(tree), secretLeak |-> ScanSecretLeak(tree)]

(* As long as nobody edits, the hash and the checks are those of the tree. *)
Scanned ==
    /\ work.edits \in Nat /\ IsTree(work.tree)
    /\ work.edits = 0 => /\ work.hash \subseteq HashPathTree(work.tree)
                         /\ work.malicious \subseteq {ScanMaliciousApi(work.tree)}
    /\ \A summary \in work.summary :
         /\ work.edits = 0 /\ work.chain = {} => summary.checks = ChecksOf(work.tree)
         /\ summary.score = 100 => "fail" \notin {summary.checks.maliciousApi,
                                                  summary.checks.secretLeak}

(* SummaryHolds, of one summary and what was hashed for it. *)
SummaryTells(summary, hash) ==
    LET checks == summary.checks
        Code(files) == {files[f] : f \in DOMAIN files \cap CODE}
        Text(files) == {files[f] : f \in DOMAIN files \ PICTURES}
    IN  /\ work.edits = 0 /\ work.chain = {} =>
             /\ checks.maliciousApi = "pass" => "risky" \notin Code(hash.files)
             /\ checks.secretLeak = "pass" => "leaky" \notin Text(hash.files)
             /\ checks.maliciousApi = "fail" => "risky" \in Code(work.tree.files)
             /\ checks.secretLeak = "fail" => "leaky" \in Text(work.tree.files)
             /\ "skip" \in {checks.maliciousApi, checks.secretLeak} => DOMAIN hash.files = {}
        /\ summary.score = 100 => "fail" \notin {checks.maliciousApi, checks.secretLeak}

Answered(asked) == {i \in DOMAIN asked : asked[i].answered}

HigherSilent(asked) ==
    \E i \in DOMAIN asked : asked[i].plugin # "software" /\ ~asked[i].answered

(* Evidence of a level that one plugin gave, the last that was asked; or   *)
(* that says what was missing.                                             *)
Tells(evidence, asked) ==
    /\ evidence.trustLevel \in PLUGINS
    /\ evidence.trustLevel # "software" =>
         \E i \in Answered(asked) : asked[i].plugin = evidence.trustLevel
    /\ \A i \in Answered(asked) : i = Len(asked)
    /\ HigherSilent(asked) => (evidence.degraded <=> evidence.trustLevel = "software")

(* Until the chain has its evidence, nobody has answered, and the chain    *)
(* knows whether somebody above software should have.                      *)
Stands(chain, asked) ==
    /\ {"plugins", "higherUnavailable", "evidence"} \subseteq DOMAIN chain
    /\ chain.plugins \in Seq(PLUGINS)
    /\ chain.plugins # <<>> => chain.evidence = {}
    /\ chain.evidence = {} => /\ Answered(asked) = {}
                              /\ chain.higherUnavailable <=> HigherSilent(asked)
    /\ \A evidence \in chain.evidence : Tells(evidence, asked)

Plugin == [plugin : PLUGINS, answered : BOOLEAN]

ChainStands ==
    /\ work.asked \in Seq(Plugin)
    /\ work.stage = "idle" => work.asked = <<>>
    /\ \A chain \in work.chain : Stands(chain, work.asked)

(* The first key of a document that has had another is not in force.       *)
FirstKeyRetired(d) ==
    Len(d.verificationMethod) > 1 =>
      d.verificationMethod[1].publicKeyMultibase.key
        # d.verificationMethod[Len(d.verificationMethod)].publicKeyMultibase.key

Copies ==
    /\ \A summary \in sent \cup work.summary : summary.trustLevel \in PLUGINS
    /\ \A record \in versions :
         /\ "summary" \in DOMAIN record
         /\ record.summary.trustLevel \in PLUGINS
         /\ record.status \in {"active", "suspended", "revoked"}
         /\ FirstKeyRetired(record.document)

Told == Scanned /\ ChainStands /\ Copies

-----------------------------------------------------------------------------
(* Scans.                                                                  *)

(* A check that passed speaks for every file the hash covers, and one that *)
(* failed for a file there was.                                            *)
LEMMA ScanTells ==
    ASSUME NEW tree, NEW hash \in HashPathTree(tree)
    PROVE  /\ ScanMaliciousApi(tree) = "pass" =>
                \A f \in DOMAIN hash.files \cap CODE : hash.files[f] # "risky"
           /\ ScanSecretLeak(tree) = "pass" =>
                \A f \in DOMAIN hash.files \ PICTURES : hash.files[f] # "leaky"
           /\ ScanMaliciousApi(tree) = "fail" =>
                \E f \in DOMAIN tree.files \cap CODE : tree.files[f] = "risky"
           /\ ScanSecretLeak(tree) = "fail" =>
                \E f \in DOMAIN tree.files \ PICTURES : tree.files[f] = "leaky"
           /\ "skip" \in {ScanMaliciousApi(tree), ScanSecretLeak(tree)} => tree.kind = "missing"
<1>1. hash.files = [f \in HashedFiles(tree) |-> tree.files[f]]
  BY DEF HashPathTree
<1>2. /\ DOMAIN hash.files \subseteq DOMAIN tree.files
      /\ \A f \in DOMAIN hash.files : hash.files[f] = tree.files[f]
  BY <1>1 DEF HashedFiles
<1>3. ASSUME NEW searched, NEW content
      PROVE  /\ Scan(tree, searched, content) = "pass" =>
                  \A f \in DOMAIN tree.files \cap searched : tree.files[f] # content
             /\ Scan(tree, searched, content) = "fail" =>
                  \E f \in DOMAIN tree.files \cap searched : tree.files[f] = content
             /\ Scan(tree, searched, content) = "skip" => tree.kind = "missing"
  BY DEF Scan
<1>4. \A f : f \in DOMAIN tree.files \cap (DOMAIN tree.files \ PICTURES)
               <=> f \in DOMAIN tree.files \ PICTURES
  OBVIOUS
<1>5. /\ ScanMaliciousApi(tree) = "pass" =>
           \A f \in DOMAIN tree.files \cap CODE : tree.files[f] # "risky"
      /\ ScanMaliciousApi(tree) = "fail" =>
           \E f \in DOMAIN tree.files \cap CODE : tree.files[f] = "risky"
      /\ ScanMaliciousApi(tree) = "skip" => tree.kind = "missing"
  BY <1>3 DEF ScanMaliciousApi
<1>6. /\ ScanSecretLeak(tree) = "pass" =>
           \A f \in DOMAIN tree.files \ PICTURES : tree.files[f] # "leaky"
      /\ ScanSecretLeak(tree) = "fail" =>
           \E f \in DOMAIN tree.files \ PICTURES : tree.files[f] = "leaky"
      /\ ScanSecretLeak(tree) = "skip" => tree.kind = "missing"
  BY <1>3, <1>4 DEF ScanSecretLeak
<1> QED BY <1>2, <1>5, <1>6

(* Where there is nothing, the hash covers nothing.                        *)
LEMMA NothingHashed ==
    ASSUME NEW tree, IsTree(tree), tree.kind = "missing", NEW hash \in HashPathTree(tree)
    PROVE  DOMAIN hash.files = {}
<1>1. HashedFiles(tree) = {}
  BY DEF HashedFiles, IsTree
<1>2. hash.files = [f \in HashedFiles(tree) |-> tree.files[f]]
  BY DEF HashPathTree
<1> QED BY <1>1, <1>2

(* A full score leaves no room for a failed check.                         *)
LEMMA FullScore ==
    ASSUME NEW checks, DOMAIN checks = {"maliciousApi", "secretLeak"},
           ScoreFromChecks(checks) = 100
    PROVE  "fail" \notin {checks.maliciousApi, checks.secretLeak}
<1> DEFINE Failing(result) == {check \in DOMAIN checks : checks[check] = result}
<1>1. IsFiniteSet({"maliciousApi", "secretLeak"})
  <2>1. IsFiniteSet({"maliciousApi"})
    BY FS_Singleton
  <2>2. IsFiniteSet({"maliciousApi"} \cup {"secretLeak"})
    BY <2>1, FS_AddElement
  <2>3. {"maliciousApi"} \cup {"secretLeak"} = {"maliciousApi", "secretLeak"}
    OBVIOUS
  <2> QED BY <2>2, <2>3
<1>2. \A result : IsFiniteSet(Failing(result))
  BY <1>1, FS_Subset
<1>3. Cardinality(Failing("fail")) \in Nat /\ Cardinality(Failing("skip")) \in Nat
  <2> HIDE DEF Failing
  <2>1. IsFiniteSet(Failing("fail")) /\ IsFiniteSet(Failing("skip"))
    BY <1>2
  <2> QED BY <2>1, FS_CardinalityType
<1>4. 100 - 40 * Cardinality(Failing("fail")) - 10 * Cardinality(Failing("skip")) = 100
  BY DEF ScoreFromChecks
<1>5. Cardinality(Failing("fail")) = 0
  BY <1>3, <1>4
<1>6. Failing("fail") = {}
  BY <1>2, <1>5, FS_EmptySet
<1> QED BY <1>6

(* What is in a summary.                                                   *)
LEMMA SummariesTell ==
    ASSUME NEW malicious, NEW secret, NEW level,
           NEW summary \in Summarised([maliciousApi |-> malicious, secretLeak |-> secret], level)
    PROVE  /\ summary.checks = [maliciousApi |-> malicious, secretLeak |-> secret]
           /\ summary.trustLevel = level
           /\ summary.score = 100 => "fail" \notin {summary.checks.maliciousApi,
                                                    summary.checks.secretLeak}
<1> DEFINE checks == [maliciousApi |-> malicious, secretLeak |-> secret]
<1>1. /\ summary.checks = checks /\ summary.trustLevel = level
      /\ summary.score = ScoreFromChecks(checks)
  BY DEF Summarised, AttestSummary
<1>2. DOMAIN checks = {"maliciousApi", "secretLeak"}
  OBVIOUS
<1> HIDE DEF checks
<1>3. summary.score = 100 => "fail" \notin {checks.maliciousApi, checks.secretLeak}
  BY <1>1, <1>2, FullScore
<1> QED BY <1>1, <1>3 DEF checks

(* Everything that Scanned speaks of stays, or what is new is of the tree. *)
LEMMA ScannedKept ==
    ASSUME Scanned,
           work'.edits = work.edits, work'.tree = work.tree,
           work'.hash \subseteq work.hash \cup HashPathTree(work.tree),
           work'.malicious \subseteq work.malicious \cup {ScanMaliciousApi(work.tree)},
           work'.chain = {} => work.chain = {},
           work'.summary \subseteq work.summary
    PROVE  Scanned'
<1>1. work'.edits \in Nat
  BY DEF Scanned
<1>2. work'.edits = 0 => /\ work'.hash \subseteq HashPathTree(work'.tree)
                        /\ work'.malicious \subseteq {ScanMaliciousApi(work'.tree)}
  BY DEF Scanned
<1>3. \A summary \in work'.summary :
        /\ work'.edits = 0 /\ work'.chain = {} => summary.checks = ChecksOf(work'.tree)
        /\ summary.score = 100 => "fail" \notin {summary.checks.maliciousApi,
                                                 summary.checks.secretLeak}
  BY DEF Scanned
<1> QED BY <1>1, <1>2, <1>3 DEF Scanned

LEMMA NoFilesAreATree == IsTree(NoFiles)
<1>1. NoFiles.kind = "missing" /\ DOMAIN NoFiles.files = {}
  BY DEF NoFiles
<1> QED BY <1>1 DEF IsTree

LEMMA AuthorScans ==
    ASSUME Inv, Told, Author
    PROVE  Scanned'
<1>1. FIELDS \subseteq DOMAIN work /\ Scanned
  BY DEF Inv, Beginnings, Told
<1>2. CASE \E files \in Trees : Edit(files)
  <2>1. /\ work'.edits = work.edits + 1 /\ work'.hash = work.hash
        /\ work'.malicious = work.malicious /\ work'.summary = work.summary
    BY <1>1, <1>2 DEF Edit, FIELDS
  <2>2. work'.edits \in Nat /\ work'.edits # 0
    BY <1>1, <2>1 DEF Scanned
  <2>3. IsTree(work'.tree)
    <3>1. work'.tree \in Trees
      BY <1>1, <1>2 DEF Edit, FIELDS
    <3> QED BY <3>1, TreesAreTrees
  <2> QED BY <1>1, <2>1, <2>2, <2>3 DEF Scanned
<1>3. CASE \/ Main \/ MainRefuses \/ Post \/ PostFails \/ ChainStep
           \/ \E status \in Statuses : PostReturns(status)
  <2>1. /\ work'.edits = work.edits /\ work'.tree = work.tree /\ work'.hash = work.hash
        /\ work'.malicious = work.malicious /\ work'.summary = work.summary
        /\ work'.chain = {} => work.chain = {}
    BY <1>1, <1>3 DEF Main, MainRefuses, Post, PostReturns, PostFails, ChainStep, FIELDS
  <2> QED BY <1>1, <2>1, ScannedKept
<1>4. CASE HashStep
  <2>1. /\ work'.edits = work.edits /\ work'.tree = work.tree
        /\ work'.hash \in {work.hash, HashPathTree(work.tree)}
        /\ work'.malicious = work.malicious /\ work'.summary = work.summary
        /\ work'.chain = work.chain
    BY <1>1, <1>4 DEF HashStep, FIELDS
  <2> QED BY <1>1, <2>1, ScannedKept
<1>5. CASE MaliciousStep
  <2>1. /\ work'.edits = work.edits /\ work'.tree = work.tree /\ work'.hash = work.hash
        /\ work'.malicious = {ScanMaliciousApi(work.tree)} /\ work'.summary = work.summary
        /\ work'.chain = work.chain
    BY <1>1, <1>5 DEF MaliciousStep, FIELDS
  <2> QED BY <1>1, <2>1, ScannedKept
<1>6. CASE SecretStep
  <2>1. PICK malicious \in work.malicious :
          work' = [work EXCEPT !.stage = "ready",
                     !.summary = Summarised([maliciousApi |-> malicious,
                                             secretLeak |-> ScanSecretLeak(work.tree)],
                                            "software")]
    BY <1>6 DEF SecretStep
  <2> DEFINE checks == [maliciousApi |-> malicious, secretLeak |-> ScanSecretLeak(work.tree)]
             summaries == Summarised(checks, "software")
  <2>2. \A summary \in summaries :
          /\ summary.checks = checks
          /\ summary.score = 100 => "fail" \notin {summary.checks.maliciousApi,
                                                   summary.checks.secretLeak}
    BY SummariesTell
  <2>3. work.edits = 0 => checks = ChecksOf(work.tree)
    BY <1>1 DEF Scanned, ChecksOf
  <2> HIDE DEF checks, summaries
  <2>4. /\ work'.edits = work.edits /\ work'.tree = work.tree /\ work'.hash = work.hash
        /\ work'.malicious = work.malicious /\ work'.summary = summaries
    BY <1>1, <2>1 DEF FIELDS, checks, summaries
  <2> QED BY <1>1, <2>2, <2>3, <2>4 DEF Scanned
<1>7. CASE DryRun
  <2>1. /\ work'.edits = work.edits /\ work'.tree = work.tree /\ work'.hash = work.hash
        /\ work'.malicious = work.malicious /\ work'.summary = {} /\ work'.chain = work.chain
    BY <1>1, <1>7 DEF DryRun, FIELDS
  <2> QED BY <1>1, <2>1, ScannedKept
<1>8. CASE \E plugins \in Chains : RunAttestationChain(plugins)
  <2>1. /\ work'.edits = work.edits /\ work'.tree = work.tree
        /\ work'.hash = HashPathTree(work.tree)
        /\ work'.malicious = work.malicious /\ work'.summary = work.summary
        /\ work'.chain # {}
    BY <1>1, <1>8 DEF RunAttestationChain, FIELDS
  <2> QED BY <1>1, <2>1, ScannedKept
<1>9. CASE ChainReturns
  <2>1. PICK chain, evidence :
          work' = [work EXCEPT
            !.stage = "ready",
            !.chain = {[chain EXCEPT !.evidence = {evidence}]},
            !.summary = Summarised([maliciousApi |-> "pass", secretLeak |-> "pass"],
                                   evidence.trustLevel)]
    BY <1>9 DEF ChainReturns
  <2> DEFINE summaries == Summarised([maliciousApi |-> "pass", secretLeak |-> "pass"],
                                     evidence.trustLevel)
  <2>2. \A summary \in summaries :
          summary.score = 100 => "fail" \notin {summary.checks.maliciousApi,
                                                summary.checks.secretLeak}
    BY SummariesTell
  <2> HIDE DEF summaries
  <2>3. /\ work'.edits = work.edits /\ work'.tree = work.tree /\ work'.hash = work.hash
        /\ work'.malicious = work.malicious /\ work'.summary = summaries
        /\ work'.chain # {}
    BY <1>1, <2>1 DEF FIELDS, summaries
  <2> QED BY <1>1, <2>2, <2>3 DEF Scanned
<1>10. CASE Own
  <2>1. work'.edits = 0 /\ work'.hash = {} /\ work'.malicious = {} /\ work'.summary = {}
    BY <1>10 DEF Own, Untouched
  <2>2. work'.tree = NoFiles
    BY <1>10 DEF Own, Untouched
  <2> QED BY <2>1, <2>2, NoFilesAreATree DEF Scanned
<1> QED BY <1>2, <1>3, <1>4, <1>5, <1>6, <1>7, <1>8, <1>9, <1>10 DEF Author

-----------------------------------------------------------------------------
(* The attestation chain.                                                  *)

(* Asking one more adds to what is known, and changes none of it.          *)
LEMMA OneMoreAsked ==
    ASSUME NEW asked \in Seq(Plugin), NEW one \in Plugin, NEW more, more = Append(asked, one)
    PROVE  /\ more \in Seq(Plugin)
           /\ Len(more) \in DOMAIN more /\ more[Len(more)] = one
           /\ Answered(more) = IF one.answered THEN Answered(asked) \cup {Len(more)}
                              ELSE Answered(asked)
           /\ HigherSilent(more) <=>
                HigherSilent(asked) \/ (one.plugin # "software" /\ ~one.answered)
<1> DEFINE n == Len(asked)
<1>1. n \in Nat /\ DOMAIN asked = 1..n
  BY LenProperties
<1>2. /\ more \in Seq(Plugin) /\ Len(more) = n + 1
      /\ \A i \in 1..n : more[i] = asked[i]
      /\ more[n + 1] = one
  BY AppendProperties
<1>3. DOMAIN more = 1..(n + 1)
  BY <1>2, LenProperties
<1>4. 1..(n + 1) = (1..n) \cup {n + 1} /\ n + 1 \in 1..(n + 1)
  BY <1>1
<1> HIDE DEF n
<1>5. Answered(more) = IF one.answered THEN Answered(asked) \cup {n + 1} ELSE Answered(asked)
  BY <1>1, <1>2, <1>3, <1>4 DEF Answered
<1>6. HigherSilent(more) <=> HigherSilent(asked) \/ (one.plugin # "software" /\ ~one.answered)
  BY <1>1, <1>2, <1>3, <1>4 DEF HigherSilent
<1> QED BY <1>2, <1>3, <1>4, <1>5, <1>6

LEMMA NobodyAsked ==
    /\ <<>> \in Seq(Plugin)
    /\ Answered(<<>>) = {}
    /\ ~HigherSilent(<<>>)
BY DEF Answered, HigherSilent

(* A plugin's evidence ends the chain, and without it the chain goes on.   *)
LEMMA PluginAsked ==
    ASSUME NEW asked \in Seq(Plugin), NEW chain, Stands(chain, asked), chain.plugins # <<>>,
           NEW one \in Plugin, one.plugin = Head(chain.plugins),
           NEW more, more = Append(asked, one),
           NEW next,
           next = IF one.answered THEN PluginAnswers(chain) ELSE PluginSilent(chain)
    PROVE  more \in Seq(Plugin) /\ Stands(next, more)
<1> DEFINE level == Head(chain.plugins)
<1>2. /\ {"plugins", "higherUnavailable", "evidence"} \subseteq DOMAIN chain
      /\ chain.plugins \in Seq(PLUGINS)
      /\ chain.evidence = {}
      /\ Answered(asked) = {}
      /\ chain.higherUnavailable <=> HigherSilent(asked)
  BY DEF Stands
<1>3. level \in PLUGINS /\ level = one.plugin /\ Tail(chain.plugins) \in Seq(PLUGINS)
  BY <1>2, HeadTailProperties
<1> HIDE DEF level
<1>6. /\ more \in Seq(Plugin)
      /\ Len(more) \in DOMAIN more /\ more[Len(more)] = one
      /\ Answered(more) = IF one.answered THEN {Len(more)} ELSE {}
      /\ HigherSilent(more) <=> HigherSilent(asked) \/ (one.plugin # "software" /\ ~one.answered)
  <2>1. Answered(more) = IF one.answered THEN Answered(asked) \cup {Len(more)}
                         ELSE Answered(asked)
    BY OneMoreAsked
  <2>2. HigherSilent(more) <=> HigherSilent(asked) \/ (one.plugin # "software" /\ ~one.answered)
    BY OneMoreAsked
  <2>3. more \in Seq(Plugin) /\ Len(more) \in DOMAIN more /\ more[Len(more)] = one
    BY OneMoreAsked
  <2> QED BY <1>2, <2>1, <2>2, <2>3
<1>7. CASE one.answered
  <2>1. next = [chain EXCEPT !.plugins = <<>>,
                  !.evidence = {Evidence(level, chain.higherUnavailable /\ level = "software")}]
    BY <1>7 DEF PluginAnswers, level
  <2> DEFINE evidence == Evidence(level, chain.higherUnavailable /\ level = "software")
  <2>2. /\ {"plugins", "higherUnavailable", "evidence"} \subseteq DOMAIN next
        /\ next.plugins = <<>> /\ next.evidence = {evidence}
    BY <1>2, <2>1
  <2>3. evidence.trustLevel = level
        /\ (evidence.degraded <=> chain.higherUnavailable /\ level = "software")
    BY DEF Evidence
  <2> HIDE DEF evidence
  <2>4. Len(more) \in Answered(more)
    BY <1>6, <1>7
  <2>5. Tells(evidence, more)
    BY <1>2, <1>3, <1>6, <1>7, <2>3, <2>4 DEF Tells
  <2>6. next.plugins \in Seq(PLUGINS)
    BY <2>2, EmptySeq
  <2> QED BY <1>6, <2>2, <2>5, <2>6 DEF Stands
<1>8. CASE ~one.answered
  <2>1. next = [chain EXCEPT !.plugins = Tail(@),
                  !.higherUnavailable = @ \/ level # "software"]
    BY <1>8 DEF PluginSilent, level
  <2>2. /\ {"plugins", "higherUnavailable", "evidence"} \subseteq DOMAIN next
        /\ next.plugins = Tail(chain.plugins) /\ next.evidence = {}
        /\ next.higherUnavailable <=> chain.higherUnavailable \/ level # "software"
    BY <1>2, <2>1
  <2>3. Answered(more) = {} /\ (next.higherUnavailable <=> HigherSilent(more))
    BY <1>2, <1>3, <1>6, <1>8, <2>2
  <2> QED BY <1>3, <1>6, <2>2, <2>3 DEF Stands
<1> QED BY <1>7, <1>8

(* A step of the chain.                                                    *)
LEMMA ChainStepStands ==
    ASSUME Inv, ChainStands, ChainStep
    PROVE  ChainStands'
<1>1. PICK chain \in work.chain, available \in BOOLEAN :
        /\ chain.plugins # <<>>
        /\ work' = [work EXCEPT
             !.asked = Append(@, [plugin |-> Head(chain.plugins), answered |-> available]),
             !.chain = {IF available THEN PluginAnswers(chain) ELSE PluginSilent(chain)}]
  BY DEF ChainStep
<1>2. Stands(chain, work.asked) /\ work.asked \in Seq(Plugin) /\ work.stage = "chain"
  BY DEF ChainStands, ChainStep, Stage
<1> DEFINE one == [plugin |-> Head(chain.plugins), answered |-> available]
           next == IF available THEN PluginAnswers(chain) ELSE PluginSilent(chain)
<1>3. /\ work'.asked = Append(work.asked, one)
      /\ work'.chain = {next} /\ work'.stage = "chain"
  BY <1>1, <1>2 DEF Inv, Beginnings, FIELDS
<1>4. one \in Plugin /\ one.plugin = Head(chain.plugins) /\ one.answered = available
  <2>1. Head(chain.plugins) \in PLUGINS
    BY <1>1, <1>2, HeadTailProperties DEF Stands
  <2> QED BY <2>1 DEF Plugin
<1>5. next = IF one.answered THEN PluginAnswers(chain) ELSE PluginSilent(chain)
  BY <1>4
<1> HIDE DEF one, next
<1>6. work'.asked \in Seq(Plugin) /\ Stands(next, work'.asked)
  BY <1>1, <1>2, <1>3, <1>4, <1>5, PluginAsked
<1> QED BY <1>3, <1>6 DEF ChainStands

(* The chain returns what it was given, or says that nobody answered.      *)
LEMMA ChainReturnStands ==
    ASSUME Inv, ChainStands, ChainReturns
    PROVE  /\ ChainStands'
           /\ \A summary \in work'.summary : summary.trustLevel \in PLUGINS
<1>1. PICK chain \in work.chain :
        /\ chain.plugins = <<>>
        /\ \E evidence \in IF chain.evidence = {} THEN ChainEnds(chain).evidence
                           ELSE chain.evidence :
             work' = [work EXCEPT
               !.stage = "ready",
               !.chain = {[chain EXCEPT !.evidence = {evidence}]},
               !.summary = Summarised([maliciousApi |-> "pass", secretLeak |-> "pass"],
                                      evidence.trustLevel)]
  BY DEF ChainReturns
<1>2. /\ {"plugins", "higherUnavailable", "evidence"} \subseteq DOMAIN chain
      /\ chain.plugins \in Seq(PLUGINS)
      /\ work.asked \in Seq(Plugin)
      /\ chain.evidence = {} => Answered(work.asked) = {}
      /\ \A evidence \in chain.evidence : Tells(evidence, work.asked)
  BY DEF ChainStands, Stands
<1>3. PICK evidence \in IF chain.evidence = {} THEN ChainEnds(chain).evidence ELSE chain.evidence :
        work' = [work EXCEPT
          !.stage = "ready",
          !.chain = {[chain EXCEPT !.evidence = {evidence}]},
          !.summary = Summarised([maliciousApi |-> "pass", secretLeak |-> "pass"],
                                 evidence.trustLevel)]
  BY <1>1
<1> DEFINE next == [chain EXCEPT !.evidence = {evidence}]
           summaries == Summarised([maliciousApi |-> "pass", secretLeak |-> "pass"],
                                   evidence.trustLevel)
<1>4. Tells(evidence, work.asked)
  <2>1. CASE chain.evidence = {}
    <3>1. ChainEnds(chain).evidence = {Evidence("software", TRUE)}
      BY <1>2 DEF ChainEnds
    <3>2. evidence.trustLevel = "software" /\ evidence.degraded
      BY <1>3, <2>1, <3>1 DEF Evidence
    <3> QED BY <1>2, <2>1, <3>2 DEF Tells, PLUGINS
  <2>2. CASE chain.evidence # {}
    BY <1>2, <1>3, <2>2
  <2> QED BY <2>1, <2>2
<1>5. /\ {"plugins", "higherUnavailable", "evidence"} \subseteq DOMAIN next
      /\ next.plugins = <<>> /\ next.evidence = {evidence}
  BY <1>1, <1>2
<1>6. \A summary \in summaries : summary.trustLevel = evidence.trustLevel
  BY SummariesTell
<1> HIDE DEF next, summaries
<1>7. /\ work'.asked = work.asked /\ work'.chain = {next} /\ work'.stage = "ready"
      /\ work'.summary = summaries
  BY <1>3 DEF Inv, Beginnings, FIELDS, next, summaries
<1>8. ChainStands'
  BY <1>1, <1>2, <1>4, <1>5, <1>7 DEF ChainStands, Stands
<1>9. evidence.trustLevel \in PLUGINS
  BY <1>4 DEF Tells
<1> QED BY <1>6, <1>7, <1>8, <1>9

LEMMA AuthorChain ==
    ASSUME Inv, Told, Author
    PROVE  ChainStands'
<1>1. FIELDS \subseteq DOMAIN work /\ ChainStands
  BY DEF Inv, Beginnings, Told
<1>2. CASE \/ \E files \in Trees : Edit(files)
           \/ Main \/ MainRefuses \/ HashStep \/ MaliciousStep \/ SecretStep
           \/ DryRun \/ Post \/ PostFails
           \/ \E status \in Statuses : PostReturns(status)
  <2>1. work'.asked = work.asked /\ work'.chain = work.chain /\ work'.stage # "idle"
    BY <1>1, <1>2 DEF Edit, Main, MainRefuses, HashStep, MaliciousStep, SecretStep,
                      DryRun, Post, PostReturns, PostFails, FIELDS
  <2> QED BY <1>1, <2>1 DEF ChainStands
<1>3. ASSUME NEW plugins \in Chains, RunAttestationChain(plugins)
      PROVE  ChainStands'
  <2>1. /\ work'.asked = <<>> /\ work'.chain = {ChainBegins(plugins)} /\ work'.stage = "chain"
    BY <1>1, <1>3 DEF RunAttestationChain, FIELDS, ChainStands, Stage
  <2>2. plugins \in Seq(PLUGINS)
    BY ChainsAreSequences DEF PLUGINS
  <2> QED BY <2>1, <2>2, NobodyAsked DEF ChainStands, Stands, ChainBegins
<1>4. CASE Own
  <2>1. work'.asked = <<>> /\ work'.chain = {} /\ work'.stage = "owned"
    BY <1>4 DEF Own, Untouched
  <2> QED BY <2>1, NobodyAsked DEF ChainStands
<1> QED BY <1>1, <1>2, <1>3, <1>4, ChainStepStands, ChainReturnStands DEF Author

-----------------------------------------------------------------------------
(* The rest of the author's steps.                                         *)

LEMMA AuthorCopies ==
    ASSUME Inv, Told, Author
    PROVE  Copies'
<1>1. FIELDS \subseteq DOMAIN work /\ Copies
  BY DEF Inv, Beginnings, Told
<1>2. versions' = versions
  BY DEF Author, Edit, Main, MainRefuses, HashStep, MaliciousStep, SecretStep, DryRun,
         RunAttestationChain, ChainStep, ChainReturns, Post, PostReturns, PostFails, Own,
         WorkOnly, rotationVars
<1>3. sent' \in {sent, work.summary}
  BY DEF Author, Edit, Main, MainRefuses, HashStep, MaliciousStep, SecretStep, DryRun,
         RunAttestationChain, ChainStep, ChainReturns, Post, PostReturns, PostFails, Own,
         WorkOnly
<1>4. \A summary \in work'.summary : summary.trustLevel \in PLUGINS
  <2>1. CASE \/ \E files \in Trees : Edit(files)
             \/ Main \/ MainRefuses \/ HashStep \/ MaliciousStep
             \/ \E plugins \in Chains : RunAttestationChain(plugins)
             \/ ChainStep \/ Post \/ PostFails
             \/ \E status \in Statuses : PostReturns(status)
    <3>1. work'.summary = work.summary
      BY <1>1, <2>1 DEF Edit, Main, MainRefuses, HashStep, MaliciousStep, RunAttestationChain,
                        ChainStep, Post, PostReturns, PostFails, FIELDS
    <3> QED BY <1>1, <3>1 DEF Copies
  <2>2. CASE DryRun \/ Own
    <3>1. DryRun => work'.summary = {}
      BY <1>1 DEF DryRun, FIELDS
    <3>2. Own => work'.summary = {}
      BY DEF Own, Untouched
    <3> QED BY <2>2, <3>1, <3>2
  <2>3. CASE SecretStep
    <3>1. PICK malicious \in work.malicious :
            work' = [work EXCEPT !.stage = "ready",
                       !.summary = Summarised([maliciousApi |-> malicious,
                                               secretLeak |-> ScanSecretLeak(work.tree)],
                                              "software")]
      BY <2>3 DEF SecretStep
    <3> DEFINE summaries == Summarised([maliciousApi |-> malicious,
                                        secretLeak |-> ScanSecretLeak(work.tree)], "software")
    <3>2. \A summary \in summaries : summary.trustLevel = "software"
      BY SummariesTell
    <3> HIDE DEF summaries
    <3>3. work'.summary = summaries
      BY <1>1, <3>1 DEF FIELDS, summaries
    <3> QED BY <3>2, <3>3 DEF PLUGINS
  <2>4. CASE ChainReturns
    BY <2>4, ChainReturnStands DEF Told
  <2> QED BY <2>1, <2>2, <2>3, <2>4 DEF Author
<1> QED BY <1>1, <1>2, <1>3, <1>4 DEF Copies

-----------------------------------------------------------------------------
(* The registry's steps, and the owner's.                                  *)

LEMMA CertifyTells ==
    ASSUME Inv, Told, NEW status \in {"refused", "active"}, Certify(status)
    PROVE  Told'
<1>1. FIELDS \subseteq DOMAIN work /\ Scanned /\ ChainStands /\ Copies
  BY DEF Inv, Beginnings, Told
<1>2. PICK summary \in sent :
        IF status = "refused" THEN certificate' = {}
        ELSE certificate' = {[summary |-> summary, status |-> status,
               document |-> IssueDidBundle(CoreHost, "cert", summary.ownerPubkey).document]}
  BY DEF Certify
<1>3. versions' = certificate' /\ sent' = {} /\ requests' = requests
  BY DEF Certify, rotationVars
<1>4. /\ certificate = {} /\ requests = {} /\ work.stage \notin EARLY
      /\ summary.ownerPubkey = Multibase(believed, "legacy")
  BY <1>2 DEF Inv, Beginnings
<1>5. work' = work
  BY DEF Certify
<1>6. \A record \in certificate' :
        /\ "summary" \in DOMAIN record /\ record.summary = summary /\ record.status = "active"
        /\ FirstKeyRetired(record.document)
  <2> SUFFICES ASSUME NEW record \in certificate'
               PROVE  /\ "summary" \in DOMAIN record /\ record.summary = summary
                      /\ record.status = "active" /\ FirstKeyRetired(record.document)
    OBVIOUS
  <2>1. record = [summary |-> summary, status |-> status,
                  document |-> IssueDidBundle(CoreHost, "cert", summary.ownerPubkey).document]
        /\ status = "active"
    BY <1>2
  <2>2. /\ "summary" \in DOMAIN record /\ record.summary = summary /\ record.status = "active"
        /\ record.document
             = IssueDidBundle(CoreHost, "cert", Multibase(believed, "legacy")).document
    BY <1>4, <2>1
  <2>3. Len(record.document.verificationMethod) = 1
    BY <2>2, IssueSound
  <2> QED BY <2>2, <2>3 DEF FirstKeyRetired
<1>7. Scanned' /\ ChainStands'
  BY <1>1, <1>5 DEF Scanned, ChainStands
<1>8. Copies'
  BY <1>1, <1>2, <1>3, <1>5, <1>6 DEF Copies
<1> QED BY <1>7, <1>8 DEF Told

(* Where the work is left alone.                                           *)
LEMMA WorkLeft ==
    ASSUME Told, UNCHANGED <<work, sent>>
    PROVE  Scanned' /\ ChainStands'
<1>1. Scanned'
  BY DEF Told, Scanned
<1>2. ChainStands'
  BY DEF Told, ChainStands
<1> QED BY <1>1, <1>2

(* A rotation to a key the document never had retires the first one.       *)
LEMMA RotationRetires ==
    ASSUME NEW d, IsDocument(d), NEW key, key \notin DocKeys(d), NEW e,
           e = RotateDidDocumentKeys(d, Multibase(key, "legacy"))
    PROVE  FirstKeyRetired(e)
<1>1. IsDocument(e) /\ KeysInForce(e) = {key} /\ Begins(d, e)
  BY RotateSound
<1>2. e.verificationMethod[Len(e.verificationMethod)].publicKeyMultibase.key = key
  BY <1>1, KeyOfLast
<1>3. 1 \in DOMAIN d.verificationMethod
  BY DEF IsDocument, Sound
<1>4. e.verificationMethod[1].publicKeyMultibase.key \in DocKeys(d)
  BY <1>1, <1>3 DEF Begins, DocKeys
<1> QED BY <1>2, <1>4 DEF FirstKeyRetired

(* A record that keeps its summary. *)
LEMMA BecomesTells ==
    ASSUME Inv, Told, NEW record \in certificate, NEW next, Becomes(next),
           UNCHANGED <<work, sent>>,
           "summary" \in DOMAIN next, next.summary = record.summary,
           next.status \in {"active", "suspended", "revoked"},
           FirstKeyRetired(next.document)
    PROVE  Told'
<1>1. versions' = versions \cup {next} /\ Copies
  BY DEF Becomes, Told
<1>2. record.summary.trustLevel \in PLUGINS
  BY <1>1 DEF Copies, Inv, Records
<1>3. Copies'
  BY <1>1, <1>2 DEF Copies
<1> QED BY <1>3, WorkLeft DEF Told

(* Where nothing is left to tell. *)
LEMMA NothingNew ==
    ASSUME Told, UNCHANGED <<work, sent, versions>>
    PROVE  Told'
<1>1. Copies'
  BY DEF Told, Copies
<1> QED BY <1>1, WorkLeft DEF Told

LEMMA SetStatusTells ==
    ASSUME Inv, Told, NEW status \in {"active", "suspended", "revoked"}, SetStatus(status)
    PROVE  Told'
<1>1. PICK record \in certificate : Becomes([record EXCEPT !.status = status])
  BY DEF SetStatus
<1>2. UNCHANGED <<work, sent>>
  BY DEF SetStatus
<1>3. {"status", "document"} \subseteq DOMAIN record
  BY DEF Inv, Records, IsRecord
<1>4. "summary" \in DOMAIN record /\ FirstKeyRetired(record.document)
  BY DEF Inv, Records, Told, Copies
<1> DEFINE next == [record EXCEPT !.status = status]
<1>5. /\ "summary" \in DOMAIN next /\ next.summary = record.summary
      /\ next.status = status /\ next.document = record.document
  BY <1>3, <1>4
<1>6. Becomes(next)
  BY <1>1
<1> HIDE DEF next
<1> QED BY <1>2, <1>4, <1>5, <1>6, BecomesTells

LEMMA RotateTells ==
    ASSUME Inv, Told, NEW request, Rotate(request)
    PROVE  Told'
<1>1. request \in requests /\ UNCHANGED <<work, sent>>
  BY DEF Rotate
<1>2. PICK record \in certificate :
        IF record.status # "revoked" /\ request.current \in KeysInForce(record.document)
        THEN Becomes([record EXCEPT !.document =
                        RotateDidDocumentKeys(@, Multibase(request.new, "legacy"))])
        ELSE UNCHANGED <<certificate, versions>>
  BY DEF Rotate
<1>3. CASE UNCHANGED <<certificate, versions>>
  BY <1>1, <1>3, NothingNew
<1>4. CASE /\ request.current \in KeysInForce(record.document)
           /\ Becomes([record EXCEPT !.document =
                         RotateDidDocumentKeys(@, Multibase(request.new, "legacy"))])
  <2> DEFINE e == RotateDidDocumentKeys(record.document, Multibase(request.new, "legacy"))
             next == [record EXCEPT !.document = e]
  <2>1. /\ {"status", "document"} \subseteq DOMAIN record /\ IsDocument(record.document)
        /\ "summary" \in DOMAIN record
        /\ record.status \in {"active", "suspended", "revoked"}
    BY DEF Inv, Records, IsRecord, Told, Copies
  <2>2. request.new \notin DocKeys(record.document)
    BY <1>1, <1>4 DEF Inv, Requests
  <2>3. FirstKeyRetired(e)
    BY <2>1, <2>2, RotationRetires
  <2>4. Becomes(next)
    BY <1>4
  <2> HIDE DEF e
  <2>5. /\ "summary" \in DOMAIN next /\ next.summary = record.summary
        /\ next.status = record.status /\ next.document = e
    BY <2>1
  <2> HIDE DEF next
  <2> QED BY <1>1, <2>1, <2>3, <2>4, <2>5, BecomesTells
<1> QED BY <1>2, <1>3, <1>4

LEMMA OthersTell ==
    ASSUME Told,
           \/ Owner \/ UNCHANGED vars
           \/ \E request \in requests : Lose(request)
    PROVE  Told'
<1>1. UNCHANGED <<work, sent, versions>>
  BY DEF Owner, RotateKey, RotateReturns, RotateFails, AskCurrentKey, Lose, vars
<1> QED BY <1>1, NothingNew

LEMMA ToldInitially == Init => Told
<1> SUFFICES ASSUME Init
             PROVE  Told
  OBVIOUS
<1>1. sent = {} /\ certificate = {} /\ versions = {} /\ requests = {}
  BY DEF Init
<1>2. PICK tree \in Trees : work = Untouched("idle", tree)
  BY DEF Init
<1>3. /\ work.stage = "idle" /\ work.summary = {} /\ work.hash = {}
      /\ work.malicious = {} /\ work.chain = {} /\ work.asked = <<>> /\ work.edits = 0
      /\ work.tree = tree
  BY <1>2 DEF Untouched
<1>4. Scanned
  BY <1>3, TreesAreTrees DEF Scanned
<1>5. ChainStands
  BY <1>3, NobodyAsked DEF ChainStands
<1>6. Copies
  BY <1>1, <1>3 DEF Copies
<1> QED BY <1>4, <1>5, <1>6 DEF Told

LEMMA AlwaysTold == Spec => []Told
<1>1. Inv /\ Told /\ [Next]_vars => Told'
  <2> SUFFICES ASSUME Inv, Told, [Next]_vars
               PROVE  Told'
    OBVIOUS
  <2>1. CASE Author
    BY <2>1, AuthorScans, AuthorChain, AuthorCopies DEF Told
  <2>2. CASE Registry
    BY <2>2, CertifyTells, SetStatusTells, RotateTells, OthersTell DEF Registry
  <2>3. CASE Owner \/ UNCHANGED vars
    BY <2>3, OthersTell
  <2> QED BY <2>1, <2>2, <2>3 DEF Next
<1> QED BY <1>1, Always, ToldInitially, PTL DEF Spec

(* What a summary says is true of the files its hash covers, for any files *)
(* that nobody edits during the scan: a check that passed passed for every *)
(* one that it searches, one that failed did for a file there was, and one *)
(* that was skipped had nothing to read.  A full score hides no failure.   *)
THEOREM SummariesAreTrue == Spec => []SummaryHolds
<1>1. Told => SummaryHolds
  <2> SUFFICES ASSUME Told, NEW summary \in work.summary, NEW hash \in work.hash
               PROVE  SummaryTells(summary, hash)
    BY DEF SummaryHolds, SummaryTells
  <2>1. ASSUME work.edits = 0, work.chain = {}
        PROVE  /\ summary.checks = ChecksOf(work.tree) /\ hash \in HashPathTree(work.tree)
               /\ summary.checks.maliciousApi = ScanMaliciousApi(work.tree)
               /\ summary.checks.secretLeak = ScanSecretLeak(work.tree)
    <3>1. summary.checks = ChecksOf(work.tree) /\ hash \in HashPathTree(work.tree)
      BY <2>1 DEF Told, Scanned
    <3> QED BY <3>1 DEF ChecksOf
  <2>2. summary.score = 100 => "fail" \notin {summary.checks.maliciousApi,
                                              summary.checks.secretLeak}
    BY DEF Told, Scanned
  <2>3. IsTree(work.tree)
    BY DEF Told, Scanned
  <2> QED BY <2>1, <2>2, <2>3, ScanTells, NothingHashed DEF SummaryTells
<1> QED BY <1>1, AlwaysTold, PTL

(* What the attestation chain returns is true of the plugins it asked, for *)
(* any list of plugins, whichever of them answer: a level is that of the   *)
(* one that answered, and who should have answered before it shows.        *)
THEOREM EvidenceIsTrue == Spec => []EvidenceHolds
<1>1. Told => EvidenceHolds
  <2> SUFFICES ASSUME Told, NEW chain \in work.chain, NEW evidence \in chain.evidence
               PROVE  Tells(evidence, work.asked)
    BY DEF EvidenceHolds, Tells, Answered, HigherSilent
  <2> QED BY DEF Told, ChainStands, Stands
<1> QED BY <1>1, AlwaysTold, PTL

(* Neither SDK's verify takes a copy of a record that was not active, or   *)
(* an answer that failed, for a valid certificate; they report the same    *)
(* revocations; and the did:key view names a key that was retired from the *)
(* first rotation on: for every copy the registry ever shows.              *)
THEOREM SdksReadAlike == Spec => []ReadersAgree
<1>1. \A method \in DOMAIN PyEndpoint : PyEndpoint[method] = Endpoint[method]
  <2>1. DOMAIN PyEndpoint = {"register", "attest", "resolve", "submitCredit", "anchorCredit",
                             "getCreditProof"}
    BY DEF PyEndpoint
  <2>2. /\ PyEndpoint["register"] = Endpoint["register"]
        /\ PyEndpoint["attest"] = Endpoint["attest"]
        /\ PyEndpoint["resolve"] = Endpoint["resolve"]
    BY DEF PyEndpoint, Endpoint
  <2>3. /\ PyEndpoint["submitCredit"] = Endpoint["submitCredit"]
        /\ PyEndpoint["anchorCredit"] = Endpoint["anchorCredit"]
        /\ PyEndpoint["getCreditProof"] = Endpoint["getCreditProof"]
    BY DEF PyEndpoint, Endpoint
  <2> QED BY <2>1, <2>2, <2>3
<1>2. ASSUME Told, NEW record \in versions, NEW resolved \in Resolved(record)
      PROVE  LET answer == [ok |-> TRUE, json |-> {resolved}]
             IN  /\ Verify(answer).ok \/ PyVerify(answer).ok => record.status = "active"
                 /\ Verify(answer).revoked = PyVerify(answer).revoked
                 /\ Verify(answer).revoked <=> record.status = "revoked"
                 /\ resolved.status # "null" => Verify(answer) = PyVerify(answer)
                 /\ \A failed \in {[ok |-> FALSE, json |-> {resolved}], [ok |-> TRUE, json |-> {}]} :
                      /\ Verify(failed) = [ok |-> FALSE, revoked |-> FALSE]
                      /\ PyVerify(failed) = Verify(failed)
  <2> DEFINE answer == [ok |-> TRUE, json |-> {resolved}]
             Revoked == resolved.revoked \/ resolved.status = "revoked"
                          \/ resolved.trustLevel = "revoked"
             Fine == ~Revoked /\ resolved.status \in {"absent", "null", "active"}
             PyFine == ~Revoked /\ resolved.status \in {"absent", "active"}
  <2>1. /\ record.summary.trustLevel # "revoked"
        /\ record.status \in {"active", "suspended", "revoked"}
    BY <1>2 DEF Told, Copies, PLUGINS
  <2>2. /\ resolved.revoked \in {record.status = "revoked", FALSE}
        /\ resolved.status \in {record.status, "absent", "null"}
        /\ resolved.trustLevel \in {IF record.status = "revoked" THEN "revoked"
                                    ELSE record.summary.trustLevel, "absent"}
        /\ record.status = "revoked" =>
             "revoked" \in {resolved.status, resolved.trustLevel} \/ resolved.revoked
        /\ record.status = "suspended" => resolved.status = "suspended"
    BY <2>1 DEF Resolved
  <2>3. Revoked <=> record.status = "revoked"
    BY <2>1, <2>2
  <2>4. Outcome(answer) = {resolved} /\ answer.ok /\ answer.json = {resolved}
    BY DEF Outcome
  <2> HIDE DEF answer
  <2>5. Verify(answer) = [ok |-> Fine, revoked |-> Revoked]
    BY <2>4, Zenon DEF Verify, JsRevoked
  <2>6. PyVerify(answer) = [ok |-> PyFine, revoked |-> Revoked]
    BY <2>4, Zenon DEF PyVerify
  <2>7. Fine \/ PyFine => record.status = "active"
    BY <2>1, <2>2, <2>3
  <2>8. resolved.status # "null" => Fine = PyFine
    OBVIOUS
  <2> HIDE DEF Revoked, Fine, PyFine
  <2>9. Verify(answer).revoked = PyVerify(answer).revoked
    BY <2>5, <2>6
  <2>10. Verify(answer).revoked <=> record.status = "revoked"
    BY <2>3, <2>5
  <2>11. ASSUME resolved.status # "null"
         PROVE  Verify(answer) = PyVerify(answer)
    BY <2>5, <2>6, <2>11, <2>8
  <2>12. ASSUME NEW failed \in {[ok |-> FALSE, json |-> {resolved}], [ok |-> TRUE, json |-> {}]}
         PROVE  /\ Verify(failed) = [ok |-> FALSE, revoked |-> FALSE]
                /\ PyVerify(failed) = Verify(failed)
    <3>1. Outcome(failed) = {} /\ (failed.ok => failed.json = {})
      BY DEF Outcome
    <3>2. Verify(failed) = [ok |-> FALSE, revoked |-> FALSE]
      BY <3>1, Zenon DEF Verify
    <3>3. PyVerify(failed) = [ok |-> FALSE, revoked |-> FALSE]
      BY <3>1, Zenon DEF PyVerify
    <3> QED BY <3>2, <3>3
  <2>13. Verify(answer).ok \/ PyVerify(answer).ok => record.status = "active"
    BY <2>5, <2>6, <2>7
  <2> QED BY <2>9, <2>10, <2>11, <2>12, <2>13 DEF answer
<1>3. ASSUME Inv, Told, NEW record \in versions
      PROVE  ToDidKeyView(record.document).id.key \in KeysInForce(record.document)
               <=> Len(record.document.verificationMethod) = 1
  <2> DEFINE methods == record.document.verificationMethod
             n == Len(methods)
  <2>1. IsDocument(record.document) /\ FirstKeyRetired(record.document)
    BY <1>3 DEF Inv, Records, IsRecord, Told, Copies
  <2>2. n \in Nat /\ n > 0
    BY <2>1 DEF IsDocument, Sound
  <2>3. KeysInForce(record.document) = {methods[n].publicKeyMultibase.key}
    BY <2>1, KeyOfLast
  <2>4. ToDidKeyView(record.document).id.key = methods[1].publicKeyMultibase.key
    <3>1. methods # <<>>
      BY <2>2
    <3> QED BY <3>1 DEF ToDidKeyView
  <2>5. n > 1 => methods[1].publicKeyMultibase.key # methods[n].publicKeyMultibase.key
    BY <2>1 DEF FirstKeyRetired
  <2> HIDE DEF methods, n
  <2>6. n = 1 \/ n > 1
    BY <2>2
  <2>7. CASE n = 1
    <3>1. methods[1].publicKeyMultibase.key \in KeysInForce(record.document)
      BY <2>3, <2>7
    <3> QED BY <2>4, <2>7, <3>1 DEF methods, n
  <2>8. CASE n > 1
    <3>1. methods[1].publicKeyMultibase.key \notin KeysInForce(record.document) /\ n # 1
      BY <2>3, <2>5, <2>8
    <3> QED BY <2>4, <3>1 DEF methods, n
  <2> QED BY <2>6, <2>7, <2>8
<1>4. Inv /\ Told => ReadersAgree
  BY <1>1, <1>2, <1>3 DEF ReadersAgree, MultiStandardViews
<1> QED BY <1>4, Always, AlwaysTold, PTL
=============================================================================

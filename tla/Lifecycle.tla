----------------------------- MODULE Lifecycle -----------------------------
(***************************************************************************)
(* A certificate from its first day on: an owner scans an agent's files    *)
(* with the validator (packages/validator: scan.py, cli.py), or runs the   *)
(* attestation chain, and has the summary certified; the registry issues   *)
(* the DID document; the owner rotates its key through the SDK's client;   *)
(* relying parties resolve and verify it with either SDK's.  Files are     *)
(* edited during the scan, requests are delayed and answers lost, and      *)
(* resolvers lag behind.                                                   *)
(*                                                                         *)
(* The registry and the owner are not under src/.  The registry is         *)
(* modelled by what the clients send and expect: it certifies a summary of *)
(* the right shape, or refuses it, and rotates a key for a request that    *)
(* names the one in force.  The owner keeps every key until a rotation has *)
(* returned, and asks the registry when in doubt.                          *)
(***************************************************************************)
EXTENDS DidDocument, GdidClient, Attestation

CONSTANTS
    OwnerKeys,     \* the keys the owner may come to use
    Trees,         \* what the agent's files may be at first
    Chains,        \* the plugins an attestation chain may be run with
    CoreHost,      \* the registry's host
    MaxEdits       \* bound: the edits during the scan

ASSUME ChainsAreSequences == Chains \subseteq Seq({"tpm", "tee", "cloud_attest", "software"})
ASSUME TreesAreTrees == \A tree \in Trees : IsTree(tree)

VARIABLES
    work,          \* how far the owner is with the summary: the stage, the
                   \*   agent's files, the results of the steps so far, the
                   \*   exit code; history: the plugins asked, the edits
    sent,          \* the summary on its way to the registry, if any
    certificate,   \* the registry's record, if there is one
    versions,      \* history: every record it has had; a resolver may show any
    requests,      \* the rotation requests on their way
    answers,       \* the answers to them on their way
    call,          \* the request the owner's rotateKey is waiting for, if any
    held,          \* the keys the owner has
    believed       \* the key the owner takes for the one in force

rotationVars == <<requests, answers, call, held, believed>>
vars == <<work, sent, certificate, versions, rotationVars>>

Untouched(stage, tree) ==
    [stage |-> stage, tree |-> tree, hash |-> {}, malicious |-> {}, chain |-> {},
     asked |-> <<>>, summary |-> {}, edits |-> 0, exit |-> {}]

NoFiles == [kind |-> "missing", files |-> <<>>]

Init ==
    /\ work \in {Untouched("idle", tree) : tree \in Trees}
    /\ sent = {}
    /\ certificate = {}
    /\ versions = {}
    /\ requests = {}
    /\ answers = {}
    /\ call = {}
    /\ \E key \in OwnerKeys : held = {key} /\ believed = key

Stage(stage) == work.stage = stage

WorkOnly == UNCHANGED <<sent, certificate, versions, rotationVars>>

(* Somebody edits a file, or removes it all, while the scan is under way.  *)
Edit(files) ==
    /\ work.stage \in {"hash", "malicious", "secret"}
    /\ work.edits < MaxEdits
    /\ files # work.tree
    /\ work' = [work EXCEPT !.tree = files, !.edits = @ + 1]
    /\ WorkOnly

-----------------------------------------------------------------------------
(* The validator: main and build_summary.                                  *)

Main ==
    /\ Stage("idle")
    /\ work' = [work EXCEPT !.stage = "hash"]
    /\ WorkOnly

(* Without an owner's key, or with an empty one: 2; an exception, for a    *)
(* boundary file that cannot be read: 1.                                   *)
MainRefuses ==
    /\ Stage("idle")
    /\ \E code \in {1, 2} : work' = [work EXCEPT !.stage = "exited", !.exit = {code}]
    /\ WorkOnly

(* A file that cannot be read here is an exception nobody catches: 1. *)
HashStep ==
    /\ Stage("hash")
    /\ work' = IF HashPathTree(work.tree) = {} THEN [work EXCEPT !.stage = "exited", !.exit = {1}]
               ELSE [work EXCEPT !.stage = "malicious", !.hash = HashPathTree(work.tree)]
    /\ WorkOnly

MaliciousStep ==
    /\ Stage("malicious")
    /\ work' = [work EXCEPT !.stage = "secret", !.malicious = {ScanMaliciousApi(work.tree)}]
    /\ WorkOnly

Summarised(checks, level) ==
    {AttestSummary(Multibase(believed, "legacy"), hash, checks, level) : hash \in work.hash}

SecretStep ==
    /\ Stage("secret")
    /\ \E malicious \in work.malicious :
         work' = [work EXCEPT !.stage = "ready",
                    !.summary = Summarised([maliciousApi |-> malicious,
                                            secretLeak |-> ScanSecretLeak(work.tree)], "software")]
    /\ WorkOnly

DryRun ==
    /\ Stage("ready")
    /\ work' = [work EXCEPT !.stage = "exited", !.exit = {0}, !.summary = {}]
    /\ WorkOnly

(* The other way to a summary: the chain's level, on an owner's own word. *)
RunAttestationChain(plugins) ==
    /\ Stage("idle")
    /\ HashPathTree(work.tree) # {}
    /\ work' = [work EXCEPT !.stage = "chain", !.hash = HashPathTree(work.tree),
                            !.chain = {ChainBegins(plugins)}]
    /\ WorkOnly

(* Await a plugin: the default chain's software always answers. *)
ChainStep ==
    /\ Stage("chain")
    /\ \E chain \in work.chain :
         /\ chain.plugins # <<>>
         /\ \E available \in BOOLEAN :
              /\ Head(chain.plugins) = "software" => available
              /\ work' = [work EXCEPT
                   !.asked = Append(@, [plugin |-> Head(chain.plugins), answered |-> available]),
                   !.chain = {IF available THEN PluginAnswers(chain) ELSE PluginSilent(chain)}]
    /\ WorkOnly

ChainReturns ==
    /\ Stage("chain")
    /\ \E chain \in work.chain :
         /\ chain.plugins = <<>>
         /\ \E evidence \in IF chain.evidence = {} THEN ChainEnds(chain).evidence
                            ELSE chain.evidence :
              work' = [work EXCEPT
                !.stage = "ready",
                !.chain = {[chain EXCEPT !.evidence = {evidence}]},
                !.summary = Summarised([maliciousApi |-> "pass", secretLeak |-> "pass"],
                                       evidence.trustLevel)]
    /\ WorkOnly

(* POST /api/verify, and what becomes of it. *)
Post ==
    /\ Stage("ready")
    /\ work' = [work EXCEPT !.stage = "posted"]
    /\ sent' = work.summary
    /\ UNCHANGED <<certificate, versions, rotationVars>>

(* The registry gets to it, be anyone still waiting or not. *)
Certify(status) ==
    /\ \E summary \in sent :
         IF status = "refused" THEN certificate' = {}
         ELSE /\ IsAttestSummaryV1(summary)
              /\ certificate' = {[summary |-> summary, status |-> status,
                   document |-> IssueDidBundle(CoreHost, "cert", summary.ownerPubkey).document]}
    /\ versions' = certificate'
    /\ sent' = {}
    /\ UNCHANGED <<work, rotationVars>>

Statuses == {200, 302, 400, 500}

(* A response of any status, of the registry or of what stands before it,  *)
(* and whether the request got there or not: the status alone decides.     *)
PostReturns(status) ==
    /\ Stage("posted")
    /\ work' = [work EXCEPT !.stage = "exited", !.exit = {IF status >= 400 THEN 1 ELSE 0}]
    /\ WorkOnly

(* The connection breaks before the request got there, or after.  *)
PostFails ==
    /\ Stage("posted")
    /\ work' = [work EXCEPT !.stage = "exited", !.exit = {2}]
    /\ WorkOnly

(* The validator's process is gone, and what it knew. *)
Own ==
    /\ Stage("exited")
    /\ work' = Untouched("owned", NoFiles)
    /\ WorkOnly

-----------------------------------------------------------------------------
(* Rotation.                                                               *)

(* The record changes at the registry. *)
Becomes(record) ==
    /\ certificate' = {record}
    /\ versions' = versions \cup {record}

SetStatus(status) ==
    /\ Stage("owned")
    /\ \E record \in certificate :
         /\ record.status \notin {"revoked", status}
         /\ Becomes([record EXCEPT !.status = status])
    /\ UNCHANGED <<work, sent, rotationVars>>

(* rotateKey, with a key nobody has used: the owner keeps the old ones.    *)
RotateKey(key) ==
    LET request == [current |-> believed, new |-> key]
    IN  /\ Stage("owned")
        /\ certificate # {}
        /\ call = {}
        /\ key \notin held
        /\ \A record \in certificate : \A i \in DOMAIN record.document.verificationMethod :
             record.document.verificationMethod[i].publicKeyMultibase.key # key
        /\ call' = {request}
        /\ requests' = requests \cup {request}
        /\ held' = held \cup {key}
        /\ UNCHANGED <<work, sent, certificate, versions, answers, believed>>

(* The registry gets to a request, be anyone still waiting or not. *)
Rotate(request) ==
    /\ request \in requests
    /\ requests' = requests \ {request}
    /\ \E record \in certificate :
         IF record.status # "revoked" /\ request.current \in KeysInForce(record.document)
         THEN /\ Becomes([record EXCEPT !.document =
                            RotateDidDocumentKeys(@, Multibase(request.new, "legacy"))])
              /\ answers' = answers \cup {[request |-> request, ok |-> TRUE, json |-> {request.new}]}
         ELSE /\ UNCHANGED <<certificate, versions>>
              /\ answers' = answers \cup {[request |-> request, ok |-> FALSE, json |-> {"message"}]}
    /\ UNCHANGED <<work, sent, call, held, believed>>

(* The owner's call returns, and the owner drops the keys of before; or it *)
(* throws, for what the answer says.                                       *)
RotateReturns(answer) ==
    /\ answer \in answers
    /\ answer.request \in call
    /\ answers' = answers \ {answer}
    /\ call' = {}
    /\ IF Outcome(answer) # {}
       THEN held' = {answer.request.new} /\ believed' = answer.request.new
       ELSE UNCHANGED <<held, believed>>
    /\ UNCHANGED <<work, sent, certificate, versions, requests>>

(* The connection breaks: the call throws, and the request, if it still is *)
(* on its way, may arrive or not.                                          *)
RotateFails ==
    /\ call # {}
    /\ call' = {}
    /\ answers' = {}
    /\ UNCHANGED <<work, sent, certificate, versions, requests, held, believed>>

Lose(request) ==
    /\ request \in requests
    /\ request \notin call
    /\ requests' = requests \ {request}
    /\ UNCHANGED <<work, sent, certificate, versions, answers, call, held, believed>>

(* The owner resolves its certificate at the registry itself. *)
AskCurrentKey ==
    /\ call = {}
    /\ \E record \in certificate : believed' \in KeysInForce(record.document)
    /\ UNCHANGED <<work, sent, certificate, versions, requests, answers, call, held>>

-----------------------------------------------------------------------------

Author ==
    \/ \E files \in Trees : Edit(files)
    \/ Main \/ MainRefuses \/ HashStep \/ MaliciousStep \/ SecretStep \/ DryRun
    \/ \E plugins \in Chains : RunAttestationChain(plugins)
    \/ ChainStep \/ ChainReturns
    \/ Post \/ PostFails \/ Own
    \/ \E status \in Statuses : PostReturns(status)

Owner ==
    \/ \E key \in OwnerKeys : RotateKey(key)
    \/ \E answer \in answers : RotateReturns(answer)
    \/ RotateFails \/ AskCurrentKey

Registry ==
    \/ \E status \in {"refused", "active"} : Certify(status)
    \/ \E status \in {"active", "suspended", "revoked"} : SetStatus(status)
    \/ \E request \in requests : Rotate(request) \/ Lose(request)

Next == Author \/ Owner \/ Registry

Spec == Init /\ [][Next]_vars

-----------------------------------------------------------------------------
(* Properties.                                                             *)

PublishedKeys(record) ==
    [i \in DOMAIN record.document.verificationMethod |->
       record.document.verificationMethod[i].publicKeyMultibase]

(* "add new key as #key-N, retire previous authentication key" (keys.ts),  *)
(* rotation after rotation, in whatever order requests arrive: a document  *)
(* has one key in force, under an id of its own, every other is marked     *)
(* revoked; and a key once published stays where it was, so a resolver     *)
(* that lags behind shows an earlier part of the same list.                *)
OneCurrentKey ==
    \A record \in versions :
      /\ Sound(record.document)
      /\ \A current \in certificate : \A i \in DOMAIN PublishedKeys(record) :
           /\ i \in DOMAIN PublishedKeys(current)
           /\ PublishedKeys(record)[i] = PublishedKeys(current)[i]

(* An owner that keeps its keys until rotateKey has returned holds the key *)
(* in force at any time: not for a rotation that was refused, a request    *)
(* that arrives after its successor, or an answer that was lost is the     *)
(* certificate out of its hands.                                           *)
OwnerKeepsControl ==
    \A record \in certificate :
      KeysInForce(record.document) # {} /\ KeysInForce(record.document) \subseteq held

(* What a summary says of the files is true of what its hash covers, when  *)
(* nobody edited them between the readings: a check that passed passed for *)
(* every file hashed that it searches, code in the one, all but pictures   *)
(* in the other; one that failed did so for a file there was; one that was *)
(* skipped had nothing to read; and a full score hides no failure.         *)
SummaryHolds ==
    \A summary \in work.summary : \A hash \in work.hash :
      LET checks == summary.checks
          Code(files) == {files[f] : f \in DOMAIN files \cap CODE}
          Text(files) == {files[f] : f \in DOMAIN files \ PICTURES}
      IN  /\ work.edits = 0 /\ work.chain = {} =>
               /\ checks.maliciousApi = "pass" => "risky" \notin Code(hash.files)
               /\ checks.secretLeak = "pass" => "leaky" \notin Text(hash.files)
               /\ checks.maliciousApi = "fail" => "risky" \in Code(work.tree.files)
               /\ checks.secretLeak = "fail" => "leaky" \in Text(work.tree.files)
               /\ "skip" \in {checks.maliciousApi, checks.secretLeak} => DOMAIN hash.files = {}
          /\ summary.score = 100 => "fail" \notin {checks.maliciousApi, checks.secretLeak}

(* What the attestation chain returns is true of the plugins it asked: a   *)
(* level above software is that of a plugin that answered, the last that   *)
(* was asked; and where a plugin above software was asked in vain, the     *)
(* evidence is marked as degraded if and only if software is all there is. *)
EvidenceHolds ==
    \A chain \in work.chain : \A evidence \in chain.evidence :
      LET answered == {i \in DOMAIN work.asked : work.asked[i].answered}
          Higher(i) == work.asked[i].plugin # "software"
      IN  /\ evidence.trustLevel # "software" =>
               \E i \in answered : work.asked[i].plugin = evidence.trustLevel
          /\ \A i \in answered : i = Len(work.asked)
          /\ (\E i \in DOMAIN work.asked : Higher(i) /\ i \notin answered) =>
               (evidence.degraded <=> evidence.trustLevel = "software")

(* What a resolver that speaks the truth about a record may answer: a      *)
(* status that is not active shows in one field at least.                  *)
Resolved(record) ==
    {answer \in [revoked    : {record.status = "revoked", FALSE},
                 status     : {record.status, "absent", "null"},
                 trustLevel : {IF record.status = "revoked" THEN "revoked"
                               ELSE record.summary.trustLevel, "absent"}] :
       CASE record.status = "revoked"   -> "revoked" \in {answer.status, answer.trustLevel}
                                             \/ answer.revoked
         [] record.status = "suspended" -> answer.status = "suspended"
         [] OTHER                       -> TRUE}

(* Whichever copy of the record a resolver shows, with whichever of the    *)
(* fields: neither SDK's verify is content with a certificate that was not *)
(* active, both report the same revocations, and neither makes one of an   *)
(* answer that failed.  They differ about a status of null, which only     *)
(* Python finds inactive.  What both SDKs offer asks the same server.  The *)
(* copy's did:key view names the key in force until the first rotation,    *)
(* and a revoked one ever after.                                           *)
ReadersAgree ==
    /\ \A method \in DOMAIN PyEndpoint : PyEndpoint[method] = Endpoint[method]
    /\ \A record \in versions : \A resolved \in Resolved(record) :
         LET answer == [ok |-> TRUE, json |-> {resolved}]
         IN  /\ Verify(answer).ok \/ PyVerify(answer).ok => record.status = "active"
             /\ Verify(answer).revoked = PyVerify(answer).revoked
             /\ Verify(answer).revoked <=> record.status = "revoked"
             /\ resolved.status # "null" => Verify(answer) = PyVerify(answer)
             /\ \A failed \in {[ok |-> FALSE, json |-> {resolved}], [ok |-> TRUE, json |-> {}]} :
                  /\ Verify(failed) = [ok |-> FALSE, revoked |-> FALSE]
                  /\ PyVerify(failed) = Verify(failed)
    /\ \A record \in versions :
         LET views == MultiStandardViews(record.document)
         IN  views.didKey.id.key \in KeysInForce(views.w3cDid)
               <=> Len(record.document.verificationMethod) = 1
=============================================================================

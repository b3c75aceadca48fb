# Verification of jiaozi-app in TLA+

TLA+ models of the parts of this repository whose correctness depends on order,
time or shape, model-checked with TLC and proved about with TLAPS. Every
definition is read off the TypeScript (and Python) source; `PROJECT.json`
("map") gives its lines.

## 1. Inventory

| Component | State it keeps | Operations | Hard about it | What makes it correct |
|---|---|---|---|---|
| **Merkle tree** `tlog-core/src/merkle.ts` | none | tree hash, inclusion and consistency proofs and verifiers | recursive generators against iterative verifiers, sizes that are not powers of two | honest proofs verify; nothing else does |
| **Log entries** `tlog-core/src/entry.ts` | none | build, validate, hash | id normalisation makes different inputs one entry | equal entries have equal hashes |
| **Log storage** `tlog-core/src/storage.ts` | entries, two lookup maps, stored heads | size, append, ranges, lookups, storeSth | check and act on two sides of an await | maps agree with the log; heads never regress |
| **Transparency log** `tlog-core/src/log.ts` | none of its own; suspended calls | appendEvent, signTreeHead, proofs, entries | up to six awaits per call, sizes read early and used late | append-only; every head over a prefix; every call answered |
| **Signed tree heads** `tlog-core/src/sth.ts` | none | build, sign, verify | what a relying party must remember | no regression, no two heads of one size |
| **Status credential** `gdid-core/src/status.ts`, `keys.ts` | none | build, sign, verify; key encodings | expiry on two clocks, serials, two encodings | fails closed; never rejects what is good |
| **Trust gate** `gdid-sdk-js/src/require-trust.ts` | its options | requireTrust and the checker it returns | credentials outlive what they state, keys rotate, replays | an allow is at most a TTL stale |
| **Multi-anchor resolution** `gdid-sdk-js/src/multi-anchor.ts` | one call: anchor index, timer, failures | resolveDidDocument, resolveStatusCredential | timeout against late answer, stale mirrors, stalled bodies | falls back only on failure; marks what is stale; ends |
| **MCP dispatcher** `adapters/src/mcp.ts` | compiled table; running handlers | defineToolPolicy, gateToolCall, wrapToolHandler | two lanes, rule and default, decision before an await | a handler runs only under its own rule |
| **Vectors and conformance** `tlog-core/vectors/*.mjs` | none | a second verifier and prover, test vectors, self-check | written apart from the library so that each finds the other's faults | both decide every path alike; vectors tell good from spoilt |
| **Attestation chain** `gdid-core/src/attest.ts` | one call: the plugins left | first plugin that answers | plugins that hang or throw | the evidence says what was degraded |
| **Keys and DID documents** `gdid-core/src/keys.ts`, `did.ts`, `index.ts`, `adapters/src/index.ts` | the document | issue, rotate, views | rotations in any order of arrival | one key in force, nothing moves |
| **HTTP clients** `gdid-sdk-js/src/index.ts`, `gdid-sdk-py` `__init__.py` | none | verify, rotateKey, ten others | lost answers, partial answers, two implementations | no key in force is dropped; both SDKs read alike |
| **Validator** `validator` `scan.py`, `cli.py` | one command: hash, checks, summary, exit code | hash, two scans, POST | three passes over files that change; a lost answer | what it says is true of what it hashed |
| **Credit proofs** `gdid-core/src/credit.ts` | none | a second Merkle construction, proof and check | a last odd hash is paired with itself, at any height | honest proofs verify; nothing else does |
| **Python gate and status** `gdid-sdk-py` `require_trust.py`, `status.py` | its options | a port of the gate | two implementations; options copied at build | decides as the JavaScript gate does |
| **VC status** `gdid-sdk-py` `vc.py` | one call: the entries left, the verdict so far | check_vc_status over two status channels | one channel failing, old or disagreeing; requests answered at different times | an answer "active" is recent; revoked if and only if it is so |
| **Web fronts** `require-trust.ts`, `integrations.py`, the demo's `server.mjs` | none | Express, FastAPI, Flask, header parsing | case, blank or broken headers, four ways to answer | all answer a request alike |
| **status.v1 conformance** `standards/status-v1/*.mjs` | one probe: pinned key, first serial, failed checks | offline run, live probe of four requests | key and standing change between two requests | fails no sound deployment, passes no stale one |
| HD derivation, delegation-v1 | none | byte computations; a design | nothing to explore | not modelled, see section 7 |

How they interact: the issuer registers certificate events with
`appendEvent` and publishes heads with `signTreeHead`; both run over one
storage object in one event loop. A holder fetches its status credential from
the issuer, directly or through an anchor, and presents it to gates. The MCP
dispatcher compiles one gate per tool and calls the tool's handler when its
gate allows. Gates call `verifyStatusCredential`; nothing else is shared.
Before all that an owner scans an agent's files with the validator, or runs the
attestation chain, and has the summary certified; the registry issues a DID
document, whose key the owner rotates through the client, and relying parties
resolve it. The conformance kits stand outside and probe the log's library and
the issuer's deployment.

The hazards these components are exposed to are listed one by one, each at its
line and with the properties that cover it, in `PROJECT.json` ("hazards").

## 2. Plan

Done, in this order: the log and its tree (the only part with concurrency over
shared state), the gates over time, resolution, the MCP dispatcher, the status
of a VC over both channels, the Python gate beside the JavaScript one, the
credit tree; then the relying party of the log, the referee of the log's
library, the web fronts, the referee of status.v1 and its live probe, and the
life of a certificate from scan to rotation.

Left, in the order of importance:

1. `validate_vc_structure` and `fetch_vc`, the credit events' chain of links.
2. Verify options that a caller changes between two calls of a gate: the
   Python gate has copied them, the JavaScript gate reads them each time.

## 3. Modules

`MODULE`s and what they stand for; an arrow is EXTENDS, unless it says INSTANCE.

    Merkle, Keys <- TreeHeads <- TlogReferee <- TlogVectors
                    TlogVectors, CreditMerkle <- MerkleAudit
                    TreeHeads <- LogClient <- MCLogClient
    Merkle <- Merkle_proofs
    LogClient, MerkleAudit, Merkle_proofs <- LogAudit_proofs
    Merkle <- TlogStorage <- TransparencyLog <- MCTransparencyLog
                             TransparencyLog -- INSTANCE --> AppendOnlyLog
    TransparencyLog, Merkle_proofs <- TransparencyLog_proofs
    Keys <- StatusCredential <- TrustChecker <- StatusIssuer
    StatusIssuer <- TrustGate <- MCTrustGate
    StatusIssuer <- McpDispatch <- MCMcpDispatch
    StatusIssuer <- PyTrustChecker <- WebGate <- StatusReferee <- VcStatus
                                      VcStatus <- StatusProbe <- MCVcStatus
    StatusIssuer <- StatusIssuer_proofs
    TrustGate, McpDispatch, StatusIssuer_proofs <- Gates_proofs
    StatusProbe, StatusIssuer_proofs <- VcStatus_proofs
    MultiAnchor <- MCMultiAnchor
    MultiAnchor <- MultiAnchor_proofs
    Keys <- DidDocument, GdidClient, Attestation <- Lifecycle <- MCLifecycle
                                                    Lifecycle <- Lifecycle_proofs

**Merkle** is `merkle.ts`, function by function: the generators are recursive
functions over the bounds of a subtree, the verifiers recursive functions over the
path, one hash a step, with the code's early return as an `ok` flag; the inner
`while` loops are functions of their own (`ShiftWhile`). Hashes are terms
(`<<"node", l, r>>`), which takes SHA-256 to be collision free and the prefixes
0x00 and 0x01 to separate leaves from nodes. **CreditMerkle** is the other tree,
of `credit.ts`: layers from the leaves up, a last odd hash paired with itself,
proofs that list one sibling a layer. `Climbed` is the loop that building a tree
and building a proof share, after so many turns. **MerkleAudit** has a server that
grows a log and puts a path together from every hash of a tree and one foreign
leaf, and an auditor that verifies it, for either of the two trees.

**Keys** is the part of `keys.ts` all signing goes through. A signature is the
pair of key and payload. A multibase string is a key and one of two forms;
`VerifyWithMultibase` accepts the legacy form only, as the code does (it strips
"z" and decodes base64url). **TreeHeads** is `sth.ts`. **TlogReferee** has, with
Referee before their names, the functions of `vectors/conformance.mjs`, which share
no code with the library: RFC 9162's recursions for the tree and the proofs, a walk
with an index pair for the verifiers (one `RefereeWalk` for both: each verifier
looks at one of the two roots it carries, or at both), and a test for a power of
two of its own. That test, `(n & (n - 1)) === 0`, sees only the 32 bits of
JavaScript's bitwise operators; `NoSharedBit` goes through the bits of a word, and
`WordSize` is how many numbers a word has. **TlogVectors** is the
generator of the vectors, with log, leaf and size as parameters, its self-check,
and the run over them. **LogClient** is a relying party: it calls
`verifySignedTreeHead` with the pinned key and name and the size it accepted last,
and `verifyConsistency` for a larger head. What it does beyond these calls
(compare roots at one size, keep what it has accepted) is no code of this
repository but what the options of `verifySignedTreeHead` are there for. The
operator keeps a history for each audience; the branches agree up to a leaf.

**TlogStorage** is `MemoryTlogStorage`: `entries`, `byLeafHash`, `byCertId`,
`sths`, and the synchronous body of each method. **TransparencyLog** is the
class over it, as JavaScript runs it. One invocation is an element of `Calls`;
`pc[c]` names the await where it is suspended, `queue` is the microtask queue,
and one `RunJob` step is the code from one await to the next. Since storage
promises are settled when they are awaited, a continuation joins the queue at
once, and the queue's FIFO order is part of the model, not a scheduling
assumption: several properties depend on it. A new call may begin between any
two jobs. `Storers` are direct callers of `storage.storeSth`, which the
interface allows; `signTreeHead` is modelled with a configured key.
Queries answer only whole numbers within the log, as `Number.isInteger` and the
code's range checks demand.
The awaits after the last change of state (the return of `append`, `storeSth`,
or of the slice in a query) are not steps of their own: nothing is read or
written after them. **AppendOnlyLog** is what readers were promised: entries
are added at the end, once, and heads commit to prefixes that never shrink.

**StatusCredential** is `status.ts`; pins are compared in the standard form of a
key. **TrustChecker** is the pure function `requireTrust` returns,
check by check in the code's order. **StatusIssuer** is the world around it:
a clock, one certificate's standing, the platform's rotating key, other
issuers, and every credential ever signed. It is not under `src/` and is
modelled by how the code uses it. **TrustGate** builds gates and presents any
credential to any of them, at any time, on a clock up to `MaxSkew` away. The
caller of a gate in `Tracking` writes the accepted serial back to
`options.verify.minSerial`, which the checker reads at each call.

**PyTrustChecker** is the Python gate and the Python verification, check by
check in their own order. **WebGate** is what stands before the gates: headers
in and an answer out, for Express, Flask, FastAPI and the demo's server. A header
is a name, a case and a text that is blank, garbled or JSON; which texts the two
base64 decoders put up with is left out. **StatusReferee** is the offline part of
`standards/status-v1`: the kit's own verification, the vectors the reference
implementation signs, and the run over them. **VcStatus** is `check_vc_status`: one step per
request, since between two of them the standing changes, credentials expire and
lists are published. A `JiaoziStatusV1Entry` may be answered with any
credential of the certificate's that was ever signed (a cache), by anyone (the
arguments decide whom to trust), a `BitstringStatusListEntry` with the list
published last, which may be old. Lists are bytes and are read bit by bit as the
code does. Whatever raises under an entry is one step, `EntryFails`.
**StatusProbe** is the kit's live mode, `runLive`: the key, the certificate, the
certificate again, and one that does not exist, a step each, in the same world
and with the same caches; a request without a response throws out of it. `faults` is a
history of what was wrong with the deployment, to hold against what the probe says
of it.

**MultiAnchor** is one call of `fetchJsonFromAnchors`. `phase`, `at`, `timer`
and `failures` are its locals; `sent` and `wire` are the network, where a
request that was aborted may still be answered; the anchors follow the contract
in the comments of `multi-anchor.ts`. The timer is cleared when the headers
arrive, before the body is read.

**McpDispatch** is `mcp.ts`: `Compile`, `RuleFor` and `Identify` are
`defineToolPolicy`, `PresentationFromMcpRequest` the two lanes, `GateToolCall`
the gate, `Receive` the dispatcher up to its await, `HandlerSettles` the rest.

**DidDocument** is the document from issue to rotation, and its views.
**GdidClient** has what the two clients make of an answer, `verify` in both
languages, and a table of where each method asks and whether it shows the key.
**Attestation** has the scans, the hash and the summary of `scan.py` and the
attestation chain of `attest.ts`. A file is known by its suffix, since the hash
and the two scans each have their own list of them, and by what it holds: a
hint of a risky API, a secret, neither, or nothing that can be read. A target is a
directory, a single file, which is hashed whatever its suffix, or missing.
**Lifecycle** composes the three. `work` is the validator's process, one step
per pass over the files, which may be edited between two passes, and its exit
code, which is made of the connection and the response's status and of nothing the
registry has recorded; or the attestation chain, one step per plugin. `sent`, `requests` and
`answers` are the network: a request may arrive long after its caller has given
up, or never, and requests overtake each other. `certificate` is the registry's
record and `versions` all it has ever been, for resolvers that lag. The
registry and the owner are not under `src/`. The registry does what the clients
send and expect: it rotates with `rotateDidDocumentKeys` for a request that
names the key in force. The owner keeps every key until `rotateKey` has returned
and asks the registry when in doubt; nothing in the SDK does that for it.

Definitions whose comment starts with "Mutant" are deliberately wrong variants
of the definition that follows them. No specification uses them. Put in its
place, each breaks the property named beside it in `PROJECT.json` ("mutants"):
that is how we know that every property depends on the code it is about.

## 4. Runs

| Run | Shows | Bounds |
|---|---|---|
| `merkle` | HonestProofsVerify; InclusionProofsExact and ConsistencyProofsExact: the verifiers accept the honest proof and no other path, leaf or old root; RefereeAgrees, VectorsDecide; CreditProofsExact | trees to 19 leaves (every shape over one power of two more than four levels), words of 16 for the referee, so that trees go beyond them, all paths to 4 hashes in trees to 6; the referee on all those paths, and the credit tree likewise, in trees to 5; the vectors of every tree, for every leaf |
| `tlog_write` | TypeOK (one queued job for each suspended call), IndexesAgree, AppendAnswersHold, SthsCommitToPrefixes, SthSizesNeverRegress, SigningInOrder, SigningNeverFails, refinement KeepsThePromise | 3 appends, 2 signings, 4 events: two that normalise to one entry, one that is not valid |
| `tlog_read` | ProofsVerifyAgainstSths; EveryCallSettles, under the event loop's fairness | 2 appends, 1 signing, 1 query of any kind, 1 direct `storeSth`: the head may be older or newer than the query |
| `sth_regression` | **violated**: two direct `storeSth` calls at once | 2 heads |
| `trust_gate` | StaleAllowBounded, FreshCredentialAdmits; SerialsNeverDecrease of the gates whose callers track | 5 option records (each policy, both encodings, one that cannot be built), two of them with a caller that tracks, 2 platform keys, one foreign issuer, 2 credentials, 4 clock ticks, TTL 1, skew 1, one gate a world |
| `anchors` | FallbackOnlyOnFailure, CurrentUnlessDegraded, ResolutionSettles | origin and two mirrors, 3 versions |
| `anchor_stall` | **violated**: ResolutionSettles with the timer's fairness only | 2 anchors |
| `vc_status` | ActiveIsRecent, RevokedIsTrue, RevocationReported, PortDecidesAlike, FrontsAnswerAlike, ProbeIsFair | 3 VCs (both orders, both lists, a purpose that does not match, an index beyond the list, no URL, an unknown type), lists of 2 bytes with a neighbour's bit, 1 call, or 1 probe where no list has our bit (it reads none), 1 credential besides the probe's, TTL 1, skew 1; 5 option records for the two gates and the kit, every pair of headers for the fronts |
| `vc_failures` | **violated**: FailuresReported with two lists in one VC | 1 VC, otherwise as `vc_status` |
| `mcp` | GatedRunsBounded, IdentityIsVerified, BoundaryHonoured | 3 policies, 4 tool names, every pair of lanes, 3 ticks, 1 request |
| `log_client` | AcceptedInOrder, AcceptedHeadsAgree, HonestLogNeverAccused | 2 histories that part after any leaf, logs to 4 leaves, a log of the same key under another name and one of another key under the same name; any number of heads in any order |
| `lifecycle` | OneCurrentKey, OwnerKeepsControl, SummaryHolds, EvidenceHolds, ReadersAgree | 9 trees (directories with each kind of file, a single file of code, a single picture, one missing), one edit during a scan, 3 chains, 3 keys (two rotations, the second of which may race a late first), symmetry over the keys |

Deadlock is not checked: every one of these systems may stop, when all calls
are answered or all bounds used up.

Why the bounds are enough. A race between log calls needs two actors of a kind;
the third append makes one that fails while two succeed. A query needs a head
before it and one after. A stale admission needs a standing that changes after
the credential was signed, and one credential is the worst case since each is
judged on its own; only serials relate two. A credit tree of five leaves has an
odd layer at two heights. Calls of `check_vc_status` share nothing, so one is
enough; the two-byte list puts our bit in the second byte, and the neighbour's
where the opposite bit order would look for it. Requests to the dispatcher share
no state that a step changes, so one is enough, and the handler's time is what
passes while it runs. A relying party that is to be led astray needs two
histories and three heads: two of one size, or a first, a second and a third
larger than either. A rotation that goes wrong needs a request that arrives
after another's answer, hence three keys. Keys are only compared, so permuting
them is a symmetry; no liveness is checked in that run. Once a certificate's
owner begins to rotate, the validator's process is gone (`Own`), which keeps the
two halves of the run from multiplying; nothing connects them but the record. Words of 16 instead of 2^32 let trees outgrow
the referee's test for a power of two; its promise is for old sizes up to the word.
The proofs of section 6 remove the bounds altogether for most of these properties.

Three disagreements between the code and what it says of itself were met, each
shown by a run marked violated: `storeSth` can store a regression when it is
called twice at once (`storage.ts:110` against `storage.ts:43`); an anchor that
stalls in its body does not time out (`multi-anchor.ts:142` against
`multi-anchor.ts:106`); `check_vc_status` keeps one source per type of entry, so
that of two lists the failure of the first is overwritten by the success of the
second (`vc.py:325` against `vc.py:289`).

Some things to know that no run marks violated. FastAPI puts the body of a
denial under "detail", though `integrations.py:7` says that it mirrors the Express
body; FrontsAnswerAlike compares what is in it. A resolver's status of null is
active to the JavaScript client and inactive to the Python one
(`index.ts:184`, `__init__.py:156`). A document's did:key view is made of its first
method, so that after a rotation it names a revoked key (`adapters/src/index.ts:25`). The live
probe takes the serial of its second answer without verifying it, and the
unknown certificate's answer without its pin. `.mjs` and `.cjs` files are scanned
but not hashed, and a file that cannot be read passes both scans (one that is
hashed as well ends the validator before them). A target that is a single picture is
hashed (`scan.py:47`, though the docstring of line 43 speaks of config-oriented files only) and
never searched for secrets. ReadersAgree, ProbeIsFair and SummaryHolds state exactly
this much. The validator's exit code says what became of its request and nothing
of the certificate: a redirect exits with 0 (`cli.py:155`), a broken connection
or an answer of 500 after the registry has certified does not. The referee of
the log takes 2^32 + 1 for a power of two (`conformance.mjs:113`), where the library's
verifier is right; its own trees are arrays and cannot be that large.

Of the gates: `status.ts:26` demands that verifiers reject decreasing serials,
and `requireTrust` keeps none, so this holds only for a caller who writes the accepted serial back to
`verify.minSerial` (`trust_gate`). And the two SDKs differ in one option
value: an empty `expectedIssuer` is ignored in JavaScript (`status.ts:136`) and
compared in Python (`status.py:254`); PortDecidesAlike leaves it out.

## 5. Fairness

- `TransparencyLog!FairSpec` (run `tlog_read`): weak fairness of `RunJob`. The event loop runs
  queued jobs until there is none; nobody is obliged to call.
- `MultiAnchor`: `TimersFire`, since `setTimeout` fires in the end, and
  `BodiesEnd`, which the code does not provide: it is an assumption about
  `res.json()`, and `anchor_stall` shows that it is needed. No anchor and no
  network is assumed to answer.

The gates, `check_vc_status`, the dispatcher, the relying party and the registry's
clients have no liveness of their own: a gate is a function, a handler is not
obliged to settle, nobody is obliged to answer, and nothing bounds how long the
attestation chain waits for a plugin.

## 6. Proofs

Checked by TLAPS for every value of the constants.

**TransparencyLog_proofs.** `TypeOK` is not inductive, as a sequence of heads
has no fixed type; `TypeInv` adds that it is a sequence. `LogInv` adds that no
call has read a size beyond the log (`SizesRead`), which with the agreement of
the indexes is inductive since the log only grows. From it: TypeCorrect,
LookupsAgree, AppendAnswersAreTrue. The other theorems assume
`Storers = {}`, that heads are stored by `signTreeHead` only; the run
`sth_regression` shows why. `HeadInv` says that the head a suspended call holds
is over the prefix it read. `OrderInv` adds `SigningInOrder`: of two calls under
way, the one nearer its end read the log no later. That needs the FIFO queue,
and it is what makes storeSth's late comparison harmless. From these:
HeadsCommitToPrefixes, SigningKeepsOrder, HeadSizesNeverRegress,
SigningSucceeds, and LogImplementsPromise, the refinement of AppendOnlyLog.
ProofsAnswerHeads needs what a query holds between two awaits (`ReaderInv`): the
leaf that a lookup has found stays where it was found, a size once read stays
within the log, and so an answer is over a prefix that every later head extends. With
InclusionExact and ConsistencyExact, every answer verifies against every stored
head of this log of its sizes, whatever runs beside the query.

**StatusIssuer_proofs.** What gates and `check_vc_status` both rest on. Every
bound on staleness is inductive once it speaks of all credentials ever signed,
not of the one presented: what a platform key has signed was true when it was
signed (`SignedTruth`), and while the certificate holds a rank, the time it last
held it is now (`SuitedNow`). A credential that says revoked was signed when the
certificate was so (`SignedRevocations`), which is never taken back, and what
anyone has signed is well formed, lives a TTL and carries its signer's key (`Signed`).
`IssuerInv` is these and the types; every step of
the issuer preserves it, and moves its clock and history only forward. What a
gate's checks conclude is here as well: AllowedIsChecked and AllowedIsTrusted
from an allow to the credential, SoundIsAllowed from a sound credential to the
allow.

**Gates_proofs.** Both users of a gate. For TrustGate, `GateInv` is IssuerInv and
the decision's own record: GateInvariance, TypeCorrect, StalenessIsBounded; and
GoodStandingIsAdmitted, the other direction: a credential
that lives on every clock, signed by a key the gate trusts, above its floor and
with standing and boundary enough, is admitted. TrackedSerialsNeverDecrease
assumes that every gate's caller tracks. For the dispatcher, a decision is made in
one step and holds as long as its handler runs and after: it speaks of the moment it was made, and no request
touches another's record. What the step itself takes is shown by lemmas on the
table and the lanes: every checker of one table trusts the same keys
(`CompiledAlike`), the rule of a tool is its own or the default
(`RuleIsCompiled`), and a lane that is read shows what was sent
(`LanesLoseNothing`). Theorems GatedToolsRunInTime, CallersAreVerified,
BoundariesAreKept.

**VcStatus_proofs.** The status a call has so far is recent (`Recent`), as is
the one it returns; a status comes only from a verified credential, and lists
can only turn it to revoked. From it: ActiveAnswersAreRecent, for every VC, every
order and outcome of the requests, every TTL and skew. In the other direction
`Reported` has three parts: a published list has our bit only if the certificate
is revoked (`ListsTell`), a call notes every revocation it reads and no other
(`CallHears`), and says so when it returns (`ReturnedTells`). From it:
RevokedAnswersAreTrue and RevocationsAreReported. They rest on lemmas about bits:
the byte that is written for a set of indices, read with the mask of an index,
says whether the index is among them, for lists of any length.

PortsDecideAlike compares the JavaScript gate, the Python gate and the
conformance kit check by check, over every credential that was ever signed: the
order of the checks differs, so each reason for a denial is followed through the
three. FrontsAnswerAsOne does it for the headers and the four fronts. ProbesAreFair
adds to IssuerInv what each stage of a probe has found (`ProbeStands`): no check
has failed if the deployment did nothing amiss, and what passed with its key
pinned was of that key, and recent.

**MultiAnchor_proofs.** Each anchor is asked at most once, so a reply once on
its way is never replaced, and is no older than the call. From it: TypeCorrect,
FallsBackOnlyOnFailure, AnswersAreCurrent, for every list of anchors.

**Merkle_proofs.** What the generators and the verifiers compute, for trees of
every size. InclusionExact: verifyInclusion accepts a hash and a path for an index
if and only if the hash is that leaf's and the path is the one `inclusionPath`
makes. ConsistencyExact: verifyConsistency accepts an old root and a path, for the
true root of the larger tree, if and only if the old root is that of the prefix and
the path is the one `consistencyPath` makes. Hashes are terms, so equal nodes have
equal children; the proofs need nothing else of them. The difficulty is that the
generators split a tree at the largest power of two below its size, from the
root down, while the verifiers climb it level by level, from the leaves up. Both
are related to one step: pairing the leaves gives a sequence of half the length
with the same root (`PairUp`), the path in the tree is the first sibling and the path
in the halved tree, and one turn of the verifier's loop is one level, or several
for the last, lonely node. Theorems Inclusion and Consistency are that step
repeated, by induction on the size. Each recursive function is shown to exist, as
the limit of its beginnings, before its equation is used. The library's induction
theorems have an operator as parameter, which the provers cannot instantiate;
`StrongInduction` has a set of naturals instead, and is proved from the
well-foundedness of < on them.

**LogAudit_proofs.** The users of those theorems. HonestProofsAreAccepted,
InclusionProofsAreExact and ConsistencyProofsAreExact carry them to the auditor of
MerkleAudit, whatever path its server has put together; `AuditInv` says that a log
holds hashes of leaves, all different, and that a path is a sequence.

Then the credit tree. `CreditExact`: for a sequence of events of any length,
verifyMerkleProof accepts, among all events and all sequences there are, the event
at the index with the siblings buildMerkleProof makes, and nothing else. It
compares neither lengths nor sizes, so the argument is another than in
Merkle_proofs: the walk up an honest proof follows the layers; two walks of one
length that end alike have been alike all along (`WalksTell`); and since no event
is a pair of hashes, a hash of the k-th layer is reached from an event in k turns,
no more and no fewer (`TurnsTell`), so no path of another length ends in the root.
CreditProofsAreExact is that for the auditor.

Then the conformance suite, against the library and not against a reference of our
own. `RefereeInclusion` and `RefereeConsistency`: the two verifiers agree on every
path, true or false, for any index and sizes in range and any roots, the latter for
old sizes up to the referee's word. `RefereePowerTest` is why, and why no further:
bit by bit, a number within the word shares no bit with the one below it if and only
if it is a power of two, and the number after the word is taken for one wrongly.
The referee's inner loop
tests less than the library's and its walk carries two roots at once, but after
every hash both stand at the same positions with the same roots (`Same`).
`RefereePathIs` and `RefereeProofIs`: the two pairs of generators make the same
proofs, and RefereeHashes the same tree. From these RefereeDecidesAlike; and
VectorsAreDecided, by which a vector of each published kind does what it is
published for, in a log of any size and not only the script's log of 8, for old
sizes within the word. An honest
vector is InclusionExact and ConsistencyExact. A spoilt one is refused because
what was spoilt is really different: two prefixes of one log have different roots,
two leaves have different proofs, and the corrupted hash occurs in no honest path
(`RootsDiffer`, `SpoiltDiffers`).

For the relying party, a head the client's options let through is one of the
pinned log's and no smaller than the last (`ValidHead`); with that,
AcceptedInOrder is inductive as soon as `accepted` is known to be a sequence of
such payloads, which do not change as logs grow: AcceptsInOrder. `HistoryInv` says
that all accepted heads are heads of one branch, though not which one: a head
accepted after a consistency proof brings the earlier ones with it, since the
proof shows that what was accepted is a prefix of the new head's branch. From it
AcceptsOneHistory: whatever the operator sends, all accepted heads are of one and
the same history. `HonestInv` goes the other way, that an operator that keeps a
single history is never caught with a false proof or a second root:
HonestLogIsNotAccused.

**Lifecycle_proofs.** OneCurrentKey and OwnerKeepsControl, for any keys, trees and
chains, from one invariant of five parts. `Records`: every version of the document
is a beginning of the current one, with ids 1 to n and the last key alone in
force. `Requests`: a request that would be granted brings in a key the document
never had and the owner still holds. `Granted`: when the answer a call waits for
says yes, the key it brought in is the one in force, and no request on its way
names that key as its current one, so nothing can replace it before the owner
has dropped the others. This is the heart of it: an owner that gave up waiting
sends its next request with the key it believes in, so at most one of the two
can be granted. `Beginnings` says that none of this starts before a certificate
for the owner's key, and `InControl` is the goal. One lemma for each step of the
owner and the registry, and one for all steps of the author, which leave the
last four parts alone. SummariesAreTrue and EvidenceIsTrue rest on `Told`:
what the checks say of the files the hash covers as long as nothing was edited
(`Scanned`), what the chain's evidence says of the plugins that were asked
(`ChainStands`), and that certificates and requests carry copies of it (`Copies`).
SdksReadAlike is about every record the registry has ever kept.

Assumptions on constants are named in the modules and evaluated by TLC in every
run. Most only give a constant its type (`CallsAreDistinct`, `IssuersAreDistinct`,
`AnchorsAreKinds`, `LogsAreRecords`, `TreesAreTrees`, ...). The others say what
the code takes for granted of its configuration: a policy is options for each of
its gates (`PoliciesAreOptions`), and options give a verify option one value or
none (`GateOptionsAreOptions`); a boundary is nothing, a value that is no object,
or an object (`LanesShowBoundaries`); the entries of a VC that the code knows are
of the modelled kinds (`EntriesAreListed`) and its list indices are the
certificate's own or beyond the list (`EntriesAreOurs`), as an issuer writes them;
lists are made of bytes (`ListsHaveBytes`); the bound on a sane TTL is a time
(`SaneTtlIsTime`); the bounds on a log's size and on the sizes asked about are
whole numbers (`MaxSizeIsNat`, `MaxCountsAreWhole`); the key and the log that
the vectors use as somebody else's are not the log's own (`LogIsNotTheOther`); and a
word has as many numbers as a power of two, other than 1 (`WordSizeIsPower`).

The types of TrustGate are proved and not listed in a run. Every invariant and action
property that a passing run checks is proved, but for
one sort: only model-checked are both liveness properties (EveryCallSettles,
ResolutionSettles), since the prover has no rules for fairness. The runs that end
in a violation are counterexamples and have nothing to prove.

## 7. Not modelled

Of `vc.py`, `fetch_vc` is one request and `validate_vc_structure` a list of shape
checks; of `credit.ts`, event shapes, `chainLink` and the anchor receipt are
formatting around a hash. The two fetch helpers of the gates are one request
without a decision. Of the clients, request bodies and redirects are left out,
and answers whose JSON is no object, at which the Python client raises where the
JavaScript one reads absent fields; ReadersAgree does not speak of them.
GatedRunsBounded bounds the age of a standing when a handler starts: what a
handler that runs for long does after a revocation is not the dispatcher's to end.
Express, Flask and FastAPI themselves are taken to do what their wrappers rely
on. Multibase and GZIP are left out of the lists but for
encodings that do not decode, which fail their entry.
Certificate numbers and the remaining shape checks are formatting, as are the
wording of the validator's patterns and the report it prints; a file that is
edited in the middle of one pass is edited before or after it. HD derivation, SM3
and key generation compute bytes. `delegation-v1` is a design without code. The
upper bound that the probe puts on a TTL is the constant `SaneTtl`.
Which undecodable texts base64 decoders let pass, and headers sent twice, are
outside the model of the fronts. A method removed from a DID document by hand is
outside that of rotation. Canonical JSON is taken to be injective and Ed25519 to be
unforgeable. `Date` values that do not parse, and an issuer's clock that is set
back, are outside the model of the issuer.

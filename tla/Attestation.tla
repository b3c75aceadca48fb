---------------------------- MODULE Attestation ----------------------------
(***************************************************************************)
(* What goes into a jiaozi.attest.v1 summary: the validator's scan of an   *)
(* agent's files (packages/validator/src/jiaozi_validator/scan.py) and the *)
(* attestation chain (packages/gdid-core/src/attest.ts).                   *)
(*                                                                         *)
(* A tree is [kind, files]: nothing at all, one file, or a directory.      *)
(* files has one file for each of some suffixes, and all that is known of  *)
(* a file is whether its text hints at a risky API, or leaks a secret, or  *)
(* neither, or cannot be read.  A hash is what was hashed.                 *)
(***************************************************************************)
EXTENDS Integers, Sequences, FiniteSets

(* By suffix: what the hash covers, what is searched for risky calls, and  *)
(* what is not searched for secrets.                                       *)
HASHED == {"json", "yaml", "yml", "toml", "env.example", "md", "py", "ts", "js"}
CODE == {"py", "js", "ts", "mjs", "cjs"}
PICTURES == {"png", "jpg", "webp", "gif"}

Content == {"plain", "risky", "leaky", "locked"}

IsTree(tree) ==
    /\ tree.kind \in {"missing", "file", "directory"}
    /\ \A f \in DOMAIN tree.files : tree.files[f] \in Content
    /\ tree.kind = "missing" => DOMAIN tree.files = {}
    /\ tree.kind = "file" => Cardinality(DOMAIN tree.files) = 1

(* A file given by itself is hashed whatever it is. *)
HashedFiles(tree) ==
    IF tree.kind = "directory" THEN DOMAIN tree.files \cap HASHED ELSE DOMAIN tree.files

(* The hash, or {} when a file cannot be read: there is no summary then. *)
HashPathTree(tree) ==
    LET hashed == HashedFiles(tree)
    IN  IF \E f \in hashed : tree.files[f] = "locked" THEN {}
        ELSE {[kind |-> tree.kind, files |-> [f \in hashed |-> tree.files[f]]]}

(* Files that cannot be read are passed over. *)
Scan(tree, searched, content) ==
    IF tree.kind = "missing" THEN "skip"
    ELSE IF \E f \in DOMAIN tree.files \cap searched : tree.files[f] = content THEN "fail"
    ELSE "pass"

ScanMaliciousApi(tree) == Scan(tree, CODE, "risky")

(* Mutant: secrets are looked for in code alone. *)
ScanSecretLeakOfCode(tree) == Scan(tree, CODE, "leaky")

ScanSecretLeak(tree) == Scan(tree, DOMAIN tree.files \ PICTURES, "leaky")

(* checks: maliciousApi and secretLeak. *)
ScoreFromChecks(checks) ==
    LET Failing(result) == Cardinality({check \in DOMAIN checks : checks[check] = result})
    IN  100 - 40 * Failing("fail") - 10 * Failing("skip")

AttestSummary(owner, hash, checks, trustLevel) ==
    [schema           |-> "jiaozi.attest.v1",
     softwareGeneHash |-> <<hash, owner>>,
     checks           |-> checks,
     score            |-> ScoreFromChecks(checks),
     trustLevel       |-> trustLevel,
     ownerPubkey      |-> owner]

IsAttestSummaryV1(value) ==
    /\ value.schema = "jiaozi.attest.v1"
    /\ value.trustLevel \in {"software", "cloud_attest", "tee", "tpm", "revoked"}

-----------------------------------------------------------------------------
(* runAttestationChain, which asks one plugin after the other.             *)

DEFAULT_CHAIN == <<"tpm", "tee", "cloud_attest", "software">>

(* Where the chain stands; evidence is {} until it ends. *)
ChainBegins(plugins) == [plugins |-> plugins, higherUnavailable |-> FALSE, evidence |-> {}]

Evidence(level, degraded) == [trustLevel |-> level, degraded |-> degraded]

(* Mutant: a plugin that throws is not told from one that is not there. *)
PluginSilentUnnoticed(chain) == [chain EXCEPT !.plugins = Tail(@)]

(* The next plugin returned null or threw. *)
PluginSilent(chain) ==
    [chain EXCEPT !.plugins = Tail(@),
                  !.higherUnavailable = @ \/ Head(chain.plugins) # "software"]

(* The next plugin gave evidence, of the level it is named for. *)
PluginAnswers(chain) ==
    LET level == Head(chain.plugins)
    IN  [chain EXCEPT !.plugins = <<>>,
                      !.evidence = {Evidence(level, chain.higherUnavailable /\ level = "software")}]

(* Nobody is left to ask. *)
ChainEnds(chain) == [chain EXCEPT !.evidence = {Evidence("software", TRUE)}]
=============================================================================

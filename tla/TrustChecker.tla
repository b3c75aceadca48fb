---------------------------- MODULE TrustChecker ----------------------------
(***************************************************************************)
(* The checker that requireTrust builds (packages/gdid-sdk-js/src/         *)
(* require-trust.ts): a pure function of the options it was built with,    *)
(* what is presented and the clock.  TrustGate runs gates over time,       *)
(* McpDispatch runs one behind every tool of an MCP server.                *)
(***************************************************************************)
EXTENDS StatusCredential

-----------------------------------------------------------------------------
(* The medal ladder.  "none" stands for a null trust level.                *)

TRUST_RANK == [software |-> 1, cloud_attest |-> 2, tee |-> 3, tpm |-> 3]

RankOf(level) == IF level \in DOMAIN TRUST_RANK THEN TRUST_RANK[level] ELSE 0

Ranks == {TRUST_RANK[level] : level \in DOMAIN TRUST_RANK}

-----------------------------------------------------------------------------
(* The checker that requireTrust builds.  A gate's options are             *)
(* [policy, minLevel, behaviors, issuerKeys, verify].                      *)

(* RequireTrustOptions, over a set of keys; TRUST_RANK's levels are those  *)
(* a gate can require.                                                     *)
Multibases(Keys) == [key : Keys, form : {"legacy", "standard"}]

OptionRecord(Keys) ==
    [policy     : {"online", "pinned", "offline"},
     minLevel   : {"software", "cloud_attest", "tee", "tpm"},
     behaviors  : SUBSET STRING,
     issuerKeys : SUBSET Multibases(Keys),
     verify     : [now : SUBSET Nat, expectedIssuer : SUBSET STRING,
                   trustedKeys : SUBSET SUBSET Multibases(Keys), minSerial : SUBSET Nat]]

(* requireTrust throws rather than build a pinned gate without pins. *)
Buildable(o) == o.policy = "online" \/ o.issuerKeys # {}

Freshness(o) == IF o.policy = "offline" THEN "unverified" ELSE "verified"

(* Mutant: the pins are compared as they were written. *)
PinnedAsWritten(o) == o.issuerKeys

Pinned(o) == {ToStandardEd25519Multibase(key) : key \in o.issuerKeys}

PinMismatch(o, credential) ==
    /\ o.policy # "online"
    /\ \/ ~IsStatusCredentialV1(credential)
       \/ ToStandardEd25519Multibase(credential.publicKeyMultibase) \notin Pinned(o)

(* Mutant: the caller's floor is lost on the way. *)
VerifyOptionsWithoutFloor(o, minSerial) ==
    [o.verify EXCEPT !.now = IF o.policy = "offline" THEN {0} ELSE @]

(* The offline policy verifies at the epoch: nothing has expired then.     *)
VerifyOptions(o, minSerial) ==
    [o.verify EXCEPT !.minSerial = minSerial,
                     !.now = IF o.policy = "offline" THEN {0} ELSE @]

OutOfBoundary(o, boundary) ==
    \E permitted \in boundary : ~(o.behaviors \subseteq permitted)

(* "allowed", or the code of the first check that denies. *)
Verdict(o, minSerial, credential, boundary, clock) ==
    IF credential = NoCredential THEN "no_credential"
    ELSE IF PinMismatch(o, credential) THEN "invalid_credential"
    ELSE LET result == VerifyStatusCredential(credential, VerifyOptions(o, minSerial), clock)
         IN  IF result = "expired" THEN "expired"
             ELSE IF result # "valid" THEN "invalid_credential"
             ELSE IF credential.payload.status \in {"revoked", "suspended"}
               THEN credential.payload.status
             ELSE IF credential.payload.status # "active" THEN "invalid_credential"
             ELSE IF RankOf(credential.payload.trustLevel) < TRUST_RANK[o.minLevel]
               THEN "insufficient_level"
             ELSE IF OutOfBoundary(o, boundary) THEN "behavior_out_of_boundary"
             ELSE "allowed"

(* The certificate is active with at least this rank. *)
Suits(held, rank) == held.status = "active" /\ RankOf(held.trustLevel) >= rank
=============================================================================

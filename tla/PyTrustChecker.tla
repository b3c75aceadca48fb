--------------------------- MODULE PyTrustChecker ---------------------------
(***************************************************************************)
(* The Python SDK's gate (packages/gdid-sdk-py/src/jiaozi_gdid/            *)
(* require_trust.py) and credential verification (status.py).  They are    *)
(* said to port the JavaScript ones of TrustChecker and StatusCredential   *)
(* line by line, so that a credential meets one decision wherever it is    *)
(* shown.  What status.py has in common with status.ts and keys.ts         *)
(* (payloads, key encodings, signatures) is not repeated here.             *)
(***************************************************************************)
EXTENDS StatusIssuer

CONSTANT
    GateOptions    \* the options of the gates that are compared

ASSUME GateOptionsAreOptions ==
    \A o \in GateOptions :
      /\ o \in OptionRecord(Key)
      /\ \A option \in DOMAIN o.verify : \A one, other \in o.verify[option] : one = other

PyIsStatusCredentialV1(value) ==
    /\ value.schema = "jiaozi.status.v1"
    /\ value.payload.status \in CertLiveStatus

(* Mutants: a credential is refused in its last moment, or never. *)
PyExpiredAtOnce(payload, verify, clock) ==
    \E t \in (IF verify.now = {} THEN {clock} ELSE verify.now) : t >= payload.expiresAt
PyExpiredNever(payload, verify, clock) == FALSE

PyExpired(payload, verify, clock) ==
    \E t \in (IF verify.now = {} THEN {clock} ELSE verify.now) : t > payload.expiresAt

(* The failed check that is reported, the first in this order, or "valid". *)
(* An expected_issuer that was passed counts, be it empty.                 *)
PyVerifyStatusCredential(credential, verify, clock) ==
    LET key == credential.publicKeyMultibase
        payload == credential.payload
    IN  IF ~PyIsStatusCredentialV1(credential) THEN "bad_shape"
        ELSE IF \E keys \in verify.trustedKeys : key \notin keys THEN "untrusted_key"
        ELSE IF ~VerifyWithMultibase(key, payload, credential.signature) THEN "bad_signature"
        ELSE IF PyExpired(payload, verify, clock) THEN "expired"
        ELSE IF \E issuer \in verify.expectedIssuer : payload.issuer # issuer
          THEN "issuer_mismatch"
        ELSE IF \E floor \in verify.minSerial : payload.serial < floor THEN "serial_regression"
        ELSE "valid"

-----------------------------------------------------------------------------
(* require_trust.  A gate is what the closure holds: copies, made once.    *)

(* An unpinned gate is not built: {}. *)
PyRequireTrust(o) ==
    IF o.policy # "online" /\ o.issuerKeys = {} THEN {}
    ELSE {[policy       |-> o.policy,
           requiredRank |-> TRUST_RANK[o.minLevel],
           behaviors    |-> o.behaviors,
           pinnedKeys   |-> {ToStandardEd25519Multibase(key) : key \in o.issuerKeys},
           verifyOpts   |-> o.verify]}

PyUnpinned(gate, credential) ==
    /\ gate.policy # "online"
    /\ \/ ~PyIsStatusCredentialV1(credential)
       \/ ToStandardEd25519Multibase(credential.publicKeyMultibase) \notin gate.pinnedKeys

(* What a verified payload is denied for, each with its code, or nothing. *)
PyDenials(gate, payload, boundary) ==
    <<IF payload.status \in {"revoked", "suspended"} THEN {payload.status} ELSE {},
      IF payload.status = "active" THEN {} ELSE {"invalid_credential"},
      IF RankOf(payload.trustLevel) < gate.requiredRank THEN {"insufficient_level"} ELSE {},
      IF \E permitted \in boundary : gate.behaviors \ permitted # {}
        THEN {"behavior_out_of_boundary"} ELSE {}>>

PyCheck(gate, credential, boundary, clock) ==
    LET verify == IF gate.policy = "offline"
                  THEN [gate.verifyOpts EXCEPT !.now = {0}] ELSE gate.verifyOpts
        result == PyVerifyStatusCredential(credential, verify, clock)
        denials == PyDenials(gate, credential.payload, boundary)
        first == {i \in DOMAIN denials :
                    denials[i] # {} /\ \A j \in 1..(i - 1) : denials[j] = {}}
    IN  IF credential = NoCredential THEN "no_credential"
        ELSE IF PyUnpinned(gate, credential) THEN "invalid_credential"
        ELSE IF result = "expired" THEN "expired"
        ELSE IF result # "valid" THEN "invalid_credential"
        ELSE IF first = {} THEN "allowed"
        ELSE CHOOSE code \in UNION {denials[i] : i \in first} : TRUE

-----------------------------------------------------------------------------

(* Both SDKs build a gate from these options, and the gates decide alike   *)
(* on everything that can be shown now; or neither does.  expectedIssuer   *)
(* is not empty: there they differ.                                        *)
DecideAlike(o) ==
    /\ Buildable(o) <=> PyRequireTrust(o) # {}
    /\ \A gate \in PyRequireTrust(o), credential \in issued \cup {NoCredential, Malformed},
          boundary \in {{}, {{"read"}}, {{"read", "write"}}}, clock \in GateClock :
         "" \notin o.verify.expectedIssuer =>
           PyCheck(gate, credential, boundary, clock) =
             Verdict(o, o.verify.minSerial, credential, boundary, clock)
=============================================================================

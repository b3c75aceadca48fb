-------------------------- MODULE StatusCredential --------------------------
(***************************************************************************)
(* The jiaozi.status.v1 credential (packages/gdid-core/src/status.ts): a   *)
(* short-lived statement of a certificate's live status and trust level,   *)
(* signed by its issuer.                                                   *)
(*                                                                         *)
(* Times are clock readings in a unit that stands for the millisecond of   *)
(* Date.getTime().  An option that a caller may leave out is a set with at *)
(* most one element: {} when it is absent.                                 *)
(***************************************************************************)
EXTENDS Integers, Keys

CONSTANTS
    Ttl            \* ttlSeconds, as the issuer sets it

ASSUME TtlIsTime == Ttl \in Nat

CertLiveStatus == {"active", "suspended", "revoked", "unknown"}

-----------------------------------------------------------------------------

BuildStatusPayload(standing, issuer, now) ==
    [status     |-> standing.status,
     trustLevel |-> standing.trustLevel,
     serial     |-> now,
     expiresAt  |-> now + Ttl,
     issuer     |-> issuer]

SignStatusPayload(payload, key, multibase) ==
    [schema             |-> "jiaozi.status.v1",
     payload            |-> payload,
     signature          |-> SignWithPkcs8(key, payload),
     publicKeyMultibase |-> multibase]

(* Nothing presented, and something that is not a status credential. *)
NoCredential == [schema |-> "none"]
Malformed == [schema |-> "other"]

IsStatusCredentialV1(credential) == credential.schema = "jiaozi.status.v1"

(* Mutant: expiry is not looked at. *)
VerifyStatusCredentialForEver(credential, opts, clock) ==
    IF ~IsStatusCredentialV1(credential) THEN "bad_shape"
    ELSE IF \E keys \in opts.trustedKeys : credential.publicKeyMultibase \notin keys
      THEN "untrusted_key"
    ELSE IF ~VerifyWithMultibase(credential.publicKeyMultibase, credential.payload,
                                 credential.signature)
      THEN "bad_signature"
    ELSE "valid"

(* The failed check that is reported, the first in this order, or "valid". *)
(* opts is [now, expectedIssuer, trustedKeys, minSerial], each optional;   *)
(* an empty expectedIssuer is falsy, hence as good as none.                *)
VerifyStatusCredential(credential, opts, clock) ==
    IF ~IsStatusCredentialV1(credential) THEN "bad_shape"
    ELSE LET payload == credential.payload
             now == IF opts.now = {} THEN clock ELSE CHOOSE t \in opts.now : TRUE
         IN  IF \E keys \in opts.trustedKeys : credential.publicKeyMultibase \notin keys
               THEN "untrusted_key"
             ELSE IF ~VerifyWithMultibase(credential.publicKeyMultibase, payload,
                                          credential.signature)
               THEN "bad_signature"
             ELSE IF now > payload.expiresAt THEN "expired"
             ELSE IF \E issuer \in opts.expectedIssuer \ {""} : payload.issuer # issuer
               THEN "issuer_mismatch"
             ELSE IF \E floor \in opts.minSerial : payload.serial < floor
               THEN "serial_regression"
             ELSE "valid"
=============================================================================

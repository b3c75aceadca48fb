--------------------------- MODULE StatusReferee ---------------------------
(***************************************************************************)
(* The referee of status.v1 (standards/status-v1/conformance.mjs), which   *)
(* verifies credentials by code of its own, and the vectors it is run on   *)
(* (generate-test-vectors.mjs), which the reference implementation signs   *)
(* and checks before they are written.                                     *)
(***************************************************************************)
EXTENDS WebGate

CheckShape(cred) ==
    /\ cred.schema = "jiaozi.status.v1"
    /\ cred.payload.status \in {"active", "suspended", "revoked", "unknown"}

(* The standard form of a key has more than 32 bytes. *)
VerifySignature(multibase, payload, signature) ==
    multibase.form = "legacy" /\ signature = [by |-> multibase.key, of |-> payload]

(* The first check that fails, in the order of the specification. *)
VerifyCredential(cred, opts, clock) ==
    LET payload == cred.payload
        time == IF opts.now = {} THEN {clock} ELSE opts.now
    IN  IF ~CheckShape(cred) THEN "bad_shape"
        ELSE IF \E keys \in opts.trustedKeys : cred.publicKeyMultibase \notin keys
          THEN "untrusted_key"
        ELSE IF ~VerifySignature(cred.publicKeyMultibase, payload, cred.signature)
          THEN "bad_signature"
        ELSE IF \E t \in time : t > payload.expiresAt THEN "expired"
        ELSE IF opts.expectedIssuer \notin {{}, {""}, {payload.issuer}} THEN "issuer_mismatch"
        ELSE IF \E floor \in opts.minSerial : payload.serial < floor THEN "serial_regression"
        ELSE "valid"

-----------------------------------------------------------------------------
(* The test vectors, all of one moment.                                    *)

NoOptions == [now |-> {}, expectedIssuer |-> {}, trustedKeys |-> {}, minSerial |-> {}]

Live == [status |-> "active", trustLevel |-> "software"]
Revoked == [status |-> "revoked", trustLevel |-> "none"]

(* Signed at 0 with the test key. *)
TestCredential(key, held) ==
    SignStatusPayload(BuildStatusPayload(held, "platform", 0), key, Multibase(key, "legacy"))

(* Verified at this time. *)
StatusVector(credential, at, opts, expect) ==
    [credential |-> credential, options |-> [opts EXCEPT !.now = {at}], expect |-> expect]

StatusVectors(key, otherKey) ==
    LET live == TestCredential(key, Live)
        revoked == TestCredential(key, Revoked)
    IN  {StatusVector(live, 0, NoOptions, "valid"),
         StatusVector(revoked, 0, NoOptions, "valid"),
         StatusVector(live, Ttl + 1, NoOptions, "expired"),
         StatusVector([revoked EXCEPT !.payload.status = "active"], 0, NoOptions, "bad_signature"),
         StatusVector(live, 0, [NoOptions EXCEPT !.minSerial = {0 + 1}], "serial_regression"),
         StatusVector(live, 0, [NoOptions EXCEPT !.trustedKeys = {{Multibase(otherKey, "legacy")}}],
                      "untrusted_key")}

(* The generator's self-check, and the referee's run over the vectors. *)
StatusSelfCheck(vectors) ==
    \A v \in vectors : VerifyStatusCredential(v.credential, v.options, 0) = v.expect

RunVectors(vectors) ==
    \A v \in vectors : VerifyCredential(v.credential, v.options, 0) = v.expect

(* Every vector meets its expectation, of both implementations; and the    *)
(* two agree on what no vector shows as well.                              *)
RefereeDecidesAlike(o) ==
    /\ \A key, otherKey \in Key : key # otherKey =>
         LET vectors == StatusVectors(key, otherKey)
         IN  StatusSelfCheck(vectors) /\ RunVectors(vectors)
    /\ \A credential \in issued \cup {Malformed}, clock \in GateClock :
         VerifyCredential(credential, o.verify, clock) =
           VerifyStatusCredential(credential, o.verify, clock)
=============================================================================

----------------------------- MODULE GdidClient -----------------------------
(***************************************************************************)
(* The HTTP clients of the two SDKs: class Gdid of packages/gdid-sdk-js/   *)
(* src/index.ts and of packages/gdid-sdk-py/src/jiaozi_gdid/__init__.py.   *)
(* A method sends one request, and throws unless it gets an answer, in     *)
(* JSON, of a good status.                                                 *)
(*                                                                         *)
(* An HTTP answer is [ok, json]: json is {} for a body that is not JSON.   *)
(* Redirects are left out.                                                 *)
(***************************************************************************)
EXTENDS Integers

(* The server a method asks (the front, or the core if there is one) and   *)
(* whether it shows the API key.                                           *)
Asks(server, key) == [server |-> server, authorized |-> key]

Endpoint ==
    [register          |-> Asks("front", TRUE),
     attest            |-> Asks("front", TRUE),
     resolve           |-> Asks("core", FALSE),
     rotateKey         |-> Asks("front", TRUE),
     setMultisig       |-> Asks("front", TRUE),
     bindHd            |-> Asks("front", TRUE),
     sandboxViews      |-> Asks("front", FALSE),
     submitCredit      |-> Asks("front", TRUE),
     anchorCredit      |-> Asks("core", TRUE),
     getCreditAnchor   |-> Asks("core", FALSE),
     getCreditProof    |-> Asks("core", FALSE),
     verifyCreditProof |-> Asks("core", FALSE)]

PyEndpoint ==
    [register       |-> Asks("front", TRUE),
     attest         |-> Asks("front", TRUE),
     resolve        |-> Asks("core", FALSE),
     submitCredit   |-> Asks("front", TRUE),
     anchorCredit   |-> Asks("core", TRUE),
     getCreditProof |-> Asks("core", FALSE)]

(* Mutant: the status of an answer is not looked at. *)
OutcomeOfAnyStatus(answer) == answer.json

(* What a method returns, or {} when it throws.  verifyCreditProof alone   *)
(* returns any JSON there is.                                              *)
Outcome(answer) == IF answer.ok THEN answer.json ELSE {}

-----------------------------------------------------------------------------
(* verify: the answer to resolve, judged.  A field that the answer has not *)
(* is "absent"; status may be null as well.                                *)

(* Mutant: a level of "revoked" does not count. *)
JsRevokedByStatus(resolved) == resolved.revoked \/ resolved.status = "revoked"

JsRevoked(resolved) ==
    resolved.revoked \/ resolved.status = "revoked" \/ resolved.trustLevel = "revoked"

Verify(answer) ==
    LET resolved == Outcome(answer)
    IN  [ok      |-> \E r \in resolved : ~JsRevoked(r) /\ r.status \in {"absent", "null", "active"},
         revoked |-> \E r \in resolved : JsRevoked(r)]

(* Python's default for the status stands in for an absent one only. *)
PyVerify(answer) ==
    LET resolved == IF answer.ok THEN answer.json ELSE {}
        Revoked(r) == "revoked" \in {r.status, r.trustLevel} \/ r.revoked
    IN  [ok      |-> \E r \in resolved : ~Revoked(r) /\ r.status \in {"absent", "active"},
         revoked |-> \E r \in resolved : Revoked(r)]
=============================================================================

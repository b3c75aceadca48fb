------------------------------ MODULE WebGate ------------------------------
(***************************************************************************)
(* The gates behind web frameworks: requireTrustExpress (packages/         *)
(* gdid-sdk-js/src/require-trust.ts), the FastAPI dependency and the Flask *)
(* decorator (packages/gdid-sdk-py/src/jiaozi_gdid/integrations.py) and    *)
(* the demo server (examples/mcp-trust-demo/server.mjs).  Each takes the   *)
(* credential and the boundary from a request's headers, asks a gate, and  *)
(* answers itself or lets the handler answer.                              *)
(*                                                                         *)
(* A header is [name, case, text], in the case the framework hands it on;  *)
(* a text is blank, garbled, or JSON (raw or in base64).  Which texts the  *)
(* decoders put up with is left out: one is garbled for both or neither.   *)
(***************************************************************************)
EXTENDS PyTrustChecker

(* JSON values of a boundary header, with the permissions they have. *)
BoundaryJson == [type : {"object"}, permissions : {{}, {{"read"}}, {{"read", "write"}}}]
                  \cup [type : {"array", "scalar"}, permissions : {{}}]

(* The JSON value, or {} for undefined. *)
ParseHeaderJson(text) == IF text.form = "json" THEN {text.json} ELSE {}

(* An allowed decision or a denied one; what it says of the certificate it *)
(* takes from the payload, where there is a verified one.                  *)
DecisionOf(verdict, verified) ==
    [reasonCode |-> verdict,
     trustLevel |-> IF verified = {} THEN "none"
                    ELSE CHOOSE level \in {payload.trustLevel : payload \in verified} : TRUE,
     certId     |-> {"certId" : payload \in verified}]

TrustDenyHttpStatus(code) == IF code = "no_credential" THEN 401 ELSE 403

(* The middleware's answer; the handler's, when it is let through, tells   *)
(* the caller of the decision it found on the request.                     *)
Answer(decision) ==
    [code |-> IF decision.reasonCode = "allowed" THEN 200
              ELSE TrustDenyHttpStatus(decision.reasonCode),
     body |-> decision]

-----------------------------------------------------------------------------
(* JavaScript: Node hands headers on in lower case.                        *)

Pick(headers, name) ==
    {header.text : header \in {h \in headers : h.name = name /\ h.case = "lower"}}

PresentationFromHeaders(headers) ==
    LET status == UNION {ParseHeaderJson(text) : text \in Pick(headers, "x-jiaozi-status")}
        boundary == UNION {ParseHeaderJson(text) : text \in Pick(headers, "x-jiaozi-boundary")}
    IN  [statusCredential |-> IF status = {} THEN NoCredential ELSE CHOOSE c \in status : TRUE,
         behaviorBoundary |-> UNION {b.permissions : b \in {j \in boundary : j.type # "scalar"}}]

DecisionAt(o, presentation, clock) ==
    LET credential == presentation.statusCredential
        verified == {c \in {credential} \ {NoCredential} :
                       /\ ~PinMismatch(o, c)
                       /\ VerifyStatusCredential(c, VerifyOptions(o, o.verify.minSerial),
                                                 clock) = "valid"}
    IN  DecisionOf(Verdict(o, o.verify.minSerial, credential, presentation.behaviorBoundary, clock),
                   {c.payload : c \in verified})

RequireTrustExpress(o, headers, clock) ==
    Answer(DecisionAt(o, PresentationFromHeaders(headers), clock))

(* The demo's public tool has no gate: it answers anyone, and names the    *)
(* caller if it has shown something that holds.                            *)
DemoCaller(anyValid, headers, clock) ==
    LET presented == PresentationFromHeaders(headers)
        decision == DecisionAt(anyValid, presented, clock)
    IN  IF presented.statusCredential # NoCredential /\ decision.reasonCode = "allowed"
        THEN decision.certId ELSE {}

-----------------------------------------------------------------------------
(* Python: FastAPI hands headers on in lower case, Flask in title case.    *)

(* Mutant: a header is looked for as it is spelt. *)
PyPickAsSpelt(headers, name) ==
    {header.text : header \in {h \in headers : h.name = name /\ h.case = "lower"}}

PyPick(headers, name) == {header.text : header \in {h \in headers : h.name = name}}

PyPresentationFromHeaders(headers) ==
    LET status == UNION {ParseHeaderJson(text) : text \in PyPick(headers, "x-jiaozi-status")}
        boundary == UNION {ParseHeaderJson(text) : text \in PyPick(headers, "x-jiaozi-boundary")}
    IN  [status_credential |-> IF status = {} THEN NoCredential ELSE CHOOSE c \in status : TRUE,
         behavior_boundary |-> UNION {b.permissions : b \in {j \in boundary : j.type = "object"}}]

PyDecisionAt(gate, presentation, clock) ==
    LET credential == presentation.status_credential
        opts == [gate.verifyOpts EXCEPT !.now = IF gate.policy = "offline" THEN {0} ELSE @]
        verified == {c \in {credential} \ {NoCredential} :
                       /\ ~PyUnpinned(gate, c)
                       /\ PyVerifyStatusCredential(c, opts, clock) = "valid"}
    IN  DecisionOf(PyCheck(gate, credential, presentation.behavior_boundary, clock),
                   {c.payload : c \in verified})

RequireTrustFlask(gate, headers, clock) ==
    Answer(PyDecisionAt(gate, PyPresentationFromHeaders(headers), clock))

(* An HTTPException's detail is the body's one field. *)
RequireTrustFastapi(gate, headers, clock) ==
    LET answer == Answer(PyDecisionAt(gate, PyPresentationFromHeaders(headers), clock))
    IN  IF answer.code = 200 THEN answer
        ELSE [answer EXCEPT !.body = [detail |-> answer.body]]

-----------------------------------------------------------------------------

Header(name, texts, case) == {[name |-> name, case |-> case, text |-> text] : text \in texts}

(* What is sent, as a framework hands it on: each header is left out, or   *)
(* blank or garbled, or carries a value.                                   *)
Delivered(request, case) ==
    Header("x-jiaozi-status", request.status, case)
      \cup Header("x-jiaozi-boundary", request.boundary, case)

NoText == {{}, {[form |-> "blank"]}, {[form |-> "garbled"]}}

Carried(values) == NoText \cup {{[form |-> "json", json |-> value]} : value \in values}

Request ==
    [status   : Carried(issued \cup {NoCredential, Malformed}),
     boundary : Carried(BoundaryJson)]

(* Gates of these options, behind the four fronts, answer a request alike, *)
(* whatever becomes of its headers on the way: the same code, the same     *)
(* reason, level and certificate (under FastAPI's "detail", when denied);  *)
(* none names a certificate whose credential it has not verified; and the  *)
(* demo's public tool knows every caller that a gate of its options would  *)
(* let through.                                                            *)
AnswerAlike(o) ==
    Buildable(o) /\ "" \notin o.verify.expectedIssuer =>
      \A gate \in PyRequireTrust(o), request \in Request, clock \in GateClock :
        LET express == RequireTrustExpress(o, Delivered(request, "lower"), clock)
            flask == RequireTrustFlask(gate, Delivered(request, "title"), clock)
            fastapi == RequireTrustFastapi(gate, Delivered(request, "lower"), clock)
        IN  /\ flask = express
            /\ fastapi.code = express.code
            /\ fastapi.code # 200 => fastapi.body.detail = express.body
            /\ express.body.certId # {} =>
                 \E text \in request.status : text.json.signature.of = text.json.payload
            /\ express.code = 200 =>
                 DemoCaller([o EXCEPT !.minLevel = "software", !.behaviors = {}],
                            Delivered(request, "lower"), clock) = express.body.certId
=============================================================================

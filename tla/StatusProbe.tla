---------------------------- MODULE StatusProbe ----------------------------
(***************************************************************************)
(* A second client of the issuer: the referee's live mode (runLive in      *)
(* standards/status-v1/conformance.mjs) probes a deployment with one       *)
(* request after the other, while the issuer goes on: its key rotates, the *)
(* standing changes, time passes, and a cache before it may answer with a  *)
(* credential of earlier.  A probe and a check_vc_status (VcStatus) do not *)
(* meet: a world has one or the other.                                     *)
(***************************************************************************)
EXTENDS VcStatus

CONSTANT
    SaneTtl        \* the longest TTL the referee puts up with

ASSUME SaneTtlIsTime == SaneTtl \in Nat

VARIABLE
    probe          \* where runLive stands, the pinned key (if any), the first
                   \*   answer, the checks that failed; history: what the
                   \*   deployment did amiss, and when the first answer came

probeVars == <<vars, probe>>

NoProbe == [stage |-> "none", pinned |-> {}, first |-> NoCredential,
            failed |-> {}, faults |-> {}, at |-> 0]

ProbeInit == Init /\ probe = NoProbe

FailedIf(condition, check) == IF condition THEN {check} ELSE {}

(* What the deployment's own code answers now, of a held standing. *)
FreshAnswer(held) ==
    SignStatusPayload(BuildStatusPayload(held, "platform", now), signingKey,
                      Multibase(signingKey, "legacy"))

UnknownStanding == [status |-> "unknown", trustLevel |-> "none"]

Stage(stage) == probe.stage = stage /\ UNCHANGED vars

(* A probe counts as one of the calls.  It reads no list: worlds in which  *)
(* a list has our bit are left to the calls (a bound).                     *)
StartProbe ==
    /\ probe = NoProbe
    /\ \A purpose \in Purposes : ~lists[purpose].own
    /\ ~call.running
    /\ checks < MaxChecks
    /\ checks' = checks + 1
    /\ probe' = [NoProbe EXCEPT !.stage = "key"]
    /\ UNCHANGED <<issuerVars, lists, call, returned>>

(* GET /api/status-key: the referee compares the key as it is written. *)
KeyAnswered(form) ==
    /\ Stage("key")
    /\ probe' = [probe EXCEPT !.stage = "first", !.pinned = {Multibase(signingKey, form)},
                              !.faults = FailedIf(form # "legacy", "recoded")]

KeyUnavailable ==
    /\ Stage("key")
    /\ probe' = [probe EXCEPT !.stage = "first"]

(* GET /api/status/{certId}, for a certificate that should be known. *)
FirstAnswered(cred, clock) ==
    LET opts == [NoOptions EXCEPT !.trustedKeys = {{pin} : pin \in probe.pinned}]
        ttl == cred.payload.expiresAt - cred.payload.serial
    IN  /\ Stage("first")
        /\ probe' = [probe EXCEPT
             !.stage = "again",
             !.first = cred,
             !.failed = FailedIf(VerifyCredential(cred, opts, clock) # "valid", "signature")
                          \cup FailedIf(ttl \notin 1..SaneTtl, "ttl"),
             !.faults = @ \cup FailedIf(cred # FreshAnswer(standing), "stale")
                          \cup FailedIf(\E pin \in probe.pinned : pin.key # signingKey, "rotated"),
             !.at = now]

(* Not a 200, or not a credential's shape: the probe is given up. *)
FirstFails ==
    /\ Stage("first")
    /\ probe' = [probe EXCEPT !.stage = "done", !.failed = {"known"}, !.faults = @ \cup {"down"}]

(* Mutant: a serial has to grow from one request to the next. *)
AgainAnsweredStrictly(cred) ==
    /\ Stage("again")
    /\ probe' = [probe EXCEPT
         !.stage = "unknown",
         !.failed = @ \cup FailedIf(cred.payload.serial <= probe.first.payload.serial, "serial"),
         !.faults = @ \cup FailedIf(cred # FreshAnswer(standing), "stale")]

(* The same request once more, for its serial alone. *)
AgainAnswered(cred) ==
    /\ Stage("again")
    /\ probe' = [probe EXCEPT
         !.stage = "unknown",
         !.failed = @ \cup FailedIf(cred.payload.serial < probe.first.payload.serial, "serial"),
         !.faults = @ \cup FailedIf(cred # FreshAnswer(standing), "stale")]

AgainFails ==
    /\ Stage("again")
    /\ probe' = [probe EXCEPT !.stage = "unknown"]

(* The request for a certificate that does not exist: its answer is signed *)
(* like any other, and no key is pinned here.                              *)
UnknownAnswered(cred, clock) ==
    /\ Stage("unknown")
    /\ probe' = [probe EXCEPT
         !.stage = "done",
         !.failed = @ \cup FailedIf(~CheckShape(cred) \/ cred.payload.status # "unknown"
                                      \/ VerifyCredential(cred, NoOptions, clock) # "valid", "unknown"),
         !.faults = @ \cup FailedIf(cred # FreshAnswer(UnknownStanding), "stale")]

(* A request that gets no response at all is an exception, which nobody    *)
(* catches: the probe ends without a verdict.                              *)
ProbeThrows ==
    /\ \E stage \in {"key", "first", "again", "unknown"} : Stage(stage)
    /\ probe' = [probe EXCEPT !.stage = "thrown"]

ProbeStep ==
    \/ StartProbe \/ ProbeThrows
    \/ \E form \in {"legacy", "standard"} : KeyAnswered(form)
    \/ KeyUnavailable
    \/ \E cred \in issued \cup {FreshAnswer(standing)}, clock \in GateClock :
         FirstAnswered(cred, clock)
    \/ FirstFails
    \/ \E cred \in issued \cup {FreshAnswer(standing)} : AgainAnswered(cred)
    \/ AgainFails
    \/ \E cred \in {FreshAnswer(UnknownStanding), FreshAnswer(standing), Malformed},
          clock \in GateClock : UnknownAnswered(cred, clock)

(* Bounds: the key rotates during probes, the only ones who ask for it,    *)
(* and a world ends with its probe.                                        *)
ProbeNext ==
    \/ probe = NoProbe /\ Next /\ UNCHANGED <<signingKey, probe>>
    \/ probe.stage \notin {"none", "done", "thrown"} /\ IssuerStep /\ UNCHANGED probe
    \/ ProbeStep

ProbeSpec == ProbeInit /\ [][ProbeNext]_probeVars

-----------------------------------------------------------------------------

(* The referee is fair: a deployment that answered every request at once,  *)
(* of the standing and with the key it then had, and that published its    *)
(* key in the form it signs with and kept it, has no check failed, however *)
(* much the standing changed during the probe.  And it is not lenient: a   *)
(* deployment that passed with its key pinned showed a credential of that  *)
(* key, no older than the TTL (and the clocks' distance).                  *)
ProbeIsFair ==
    probe.stage = "done" =>
      /\ probe.faults = {} /\ MaxSkew <= Ttl /\ Ttl \in 1..SaneTtl => probe.failed = {}
      /\ probe.failed = {} => \A pin \in probe.pinned :
           /\ probe.first.signature = SignWithPkcs8(pin.key, probe.first.payload)
           /\ probe.first.payload.serial >= probe.at - Ttl - MaxSkew
=============================================================================

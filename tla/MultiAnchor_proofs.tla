-------------------------- MODULE MultiAnchor_proofs --------------------------
(***************************************************************************)
(* Resolution over any list of anchors: why an anchor is given up, and how *)
(* old an answer can be.                                                   *)
(*                                                                         *)
(* Both rest on each anchor being asked at most once (AskedOnce): a reply  *)
(* that is on its way is never replaced, so what the call recorded of it   *)
(* stays true, and a request is served only after the call began, so what  *)
(* it is served with is no older.                                          *)
(***************************************************************************)
EXTENDS MultiAnchor, TLAPS

Reason == {"rejected", "timeout", "5xx", "unparseable_body"}

Active == phase \in {"fetching", "reading", "answered"}

TypeInv ==
    /\ TypeOK
    /\ failures \in Seq([anchor : Nat, reason : Reason])
    /\ phase = "idle" => at = 0
    /\ phase # "answered" => answer = NoAnswer

AskedOnce ==
    /\ \A i \in Anchor : i \in sent => wire[i].http = "none"
    /\ \A i \in Anchor : at < i => i \notin sent /\ wire[i].http = "none"

RecordInv ==
    /\ FallbackOnlyOnFailure
    /\ phase = "idle" => failures = <<>>
    /\ phase = "reading" => wire[at].http = "below500"

(* A reply that would not be marked degraded. *)
Authoritative(reply) ==
    /\ reply.http = "below500"
    /\ ~reply.stale
    /\ reply.source = "absent" \/ reply.source = "sg-origin"

CurrentInv ==
    /\ \A i \in Anchor : Authoritative(wire[i]) => wire[i].content \in startedAt..version
    /\ CurrentUnlessDegraded

IInv == TypeInv /\ AskedOnce /\ RecordInv /\ CurrentInv

-----------------------------------------------------------------------------

(* Every initial state satisfies the invariant.                            *)
LEMMA InitIInv == Init => IInv
  <1> SUFFICES ASSUME Init PROVE IInv
    OBVIOUS
  <1>1. TypeInv
    BY AnchorsAreKinds, MaxVersionIsBound DEF Init, TypeInv, TypeOK, NoAnswer
  <1>2. AskedOnce
    BY DEF Init, AskedOnce, NoReply
  <1>3. RecordInv
    BY DEF Init, RecordInv, FallbackOnlyOnFailure
  <1>4. CurrentInv
    BY DEF Init, CurrentInv, CurrentUnlessDegraded, Authoritative, NoReply
  <1> QED BY <1>1, <1>2, <1>3, <1>4 DEF IInv

(* A reply leaves an anchor that was asked, once, and is current unless    *)
(* marked otherwise.                                                       *)
LEMMA ServesIInv ==
    ASSUME IInv, NEW i \in Anchor, NEW reply, Serves(i, reply), copy' \in [Mirror -> 0..version],
           reply.http \in {"below500", "5xx"},
           Authoritative(reply) => reply.content = version
    PROVE  IInv'
  <1>1. /\ i \in sent /\ sent' = sent \ {i}
        /\ wire[i].http = "none"
        /\ wire' = [wire EXCEPT ![i] = reply]
        /\ DOMAIN wire = Anchor
        /\ UNCHANGED <<version, originUp, startedAt, phase, at, timer, failures, answer>>
    BY DEF Serves, originVars, callVars, IInv, AskedOnce, TypeInv, TypeOK
  <1>2. \A j \in Anchor : wire'[j] = IF j = i THEN reply ELSE wire[j]
    BY <1>1, AnchorsAreKinds DEF IInv, TypeInv, TypeOK
  <1>3. TypeInv'
    BY <1>1 DEF IInv, TypeInv, TypeOK
  <1>4. at \in Nat /\ (Active => at \in Anchor) /\ startedAt \in 1..version /\ version \in Nat
    BY AnchorsAreKinds DEF IInv, TypeInv, TypeOK, Active
  <1>5. i <= at
    BY <1>1, <1>4 DEF IInv, AskedOnce, Anchor
  <1>6. AskedOnce'
    BY <1>1, <1>2, <1>4, <1>5 DEF IInv, AskedOnce, Anchor
  <1>7. RecordInv'
    <2>1. \A k \in 1..Len(failures) : k \in Anchor
      BY <1>4, AnchorsAreKinds DEF IInv, TypeInv, TypeOK, Anchor
    <2>2. \A k \in 1..Len(failures) : failures[k].reason \in {"5xx", "unparseable_body"} => k # i
      BY <1>1, <2>1 DEF IInv, RecordInv, FallbackOnlyOnFailure
    <2>3. phase \in {"reading", "answered"} => at # i
      BY <1>1 DEF IInv, RecordInv, FallbackOnlyOnFailure
    <2> QED BY <1>1, <1>2, <1>4, <2>1, <2>2, <2>3 DEF IInv, RecordInv, FallbackOnlyOnFailure, Active
  <1>8. CurrentInv'
    BY <1>1, <1>2, <1>4 DEF IInv, CurrentInv, CurrentUnlessDegraded
  <1> QED BY <1>3, <1>6, <1>7, <1>8 DEF IInv

(* Giving an anchor up records it, for a reason that is true of it.        *)
LEMMA MoveOnIInv ==
    ASSUME IInv, NEW reason \in Reason, phase \in {"fetching", "reading"}, MoveOn(reason),
           reason = "5xx" => wire[at].http = "5xx",
           reason = "unparseable_body" => wire[at].http = "below500"
    PROVE  IInv'
  <1> DEFINE record == [anchor |-> at, reason |-> reason]
  <1>1. /\ at \in Anchor /\ Len(failures) = at - 1
        /\ failures \in Seq([anchor : Nat, reason : Reason])
        /\ Len(Anchors) \in Nat /\ answer = NoAnswer
    BY AnchorsAreKinds DEF IInv, TypeInv, TypeOK, RecordInv, FallbackOnlyOnFailure
  <1>2. /\ UNCHANGED <<version, originUp, startedAt, copy, wire, answer>>
        /\ failures' = Append(failures, record)
        /\ \/ /\ at < Len(Anchors)
              /\ phase' = "fetching" /\ at' = at + 1 /\ timer' = "armed"
              /\ sent' = sent \cup {at + 1}
           \/ /\ at = Len(Anchors)
              /\ phase' = "failed" /\ timer' = "off" /\ UNCHANGED <<at, sent>>
    BY <1>1 DEF MoveOn, Fetch, originVars, Anchor
  <1>3. at \in Nat /\ record \in [anchor : Nat, reason : Reason]
    BY <1>1 DEF Anchor
  <1>4. /\ failures' \in Seq([anchor : Nat, reason : Reason])
        /\ Len(failures') = at
        /\ \A k \in 1..at : failures'[k] = IF k = at THEN record ELSE failures[k]
    BY <1>1, <1>2, <1>3
  <1>5. TypeInv'
    <2>1. CASE at < Len(Anchors)
      <3>1. /\ phase' = "fetching" /\ at' = at + 1 /\ timer' = "armed"
            /\ sent' = sent \cup {at + 1}
            /\ at + 1 \in Anchor /\ at + 1 \in 0..Len(Anchors)
            /\ Len(failures') <= Len(Anchors)
        BY <1>1, <1>2, <1>3, <1>4, <2>1 DEF Anchor
      <3>2. TypeOK'
        BY <1>1, <1>2, <3>1 DEF IInv, TypeInv, TypeOK
      <3> QED BY <1>1, <1>2, <1>4, <3>1, <3>2 DEF IInv, TypeInv
    <2>2. CASE at = Len(Anchors)
      <3>1. phase' = "failed" /\ timer' = "off" /\ UNCHANGED <<at, sent>>
        BY <1>1, <1>2, <1>3, <2>2
      <3>2. TypeOK'
        BY <1>1, <1>2, <1>3, <1>4, <3>1, <2>2 DEF IInv, TypeInv, TypeOK, Anchor
      <3> QED BY <1>1, <1>2, <1>4, <3>1, <3>2 DEF IInv, TypeInv
    <2> QED BY <1>2, <2>1, <2>2
  <1>6. AskedOnce'
    BY <1>1, <1>2, <1>3 DEF IInv, AskedOnce, Anchor
  <1>7. FallbackOnlyOnFailure'
    <2>1. \A k \in 1..at : k # at => k \in 1..Len(failures)
      BY <1>1, <1>3
    <2>2. \A k \in 1..Len(failures') :
            /\ failures'[k].anchor = k
            /\ failures'[k].reason = "5xx" => wire[k].http = "5xx"
            /\ failures'[k].reason = "unparseable_body" => wire[k].http = "below500"
      BY <1>3, <1>4, <2>1 DEF IInv, RecordInv, FallbackOnlyOnFailure
    <2> QED BY <1>1, <1>2, <1>3, <1>4, <2>2 DEF FallbackOnlyOnFailure
  <1>8. RecordInv'
    BY <1>2, <1>7 DEF RecordInv
  <1>9. CurrentInv'
    BY <1>2 DEF IInv, CurrentInv, CurrentUnlessDegraded
  <1> QED BY <1>5, <1>6, <1>8, <1>9 DEF IInv

(* Every step preserves the invariant.                                     *)
LEMMA NextIInv == IInv /\ [Next]_vars => IInv'
  <1> SUFFICES ASSUME IInv, [Next]_vars PROVE IInv'
    OBVIOUS
  <1>0. /\ version \in Nat /\ startedAt \in 1..version
        /\ copy \in [Mirror -> 0..version]
        /\ Len(Anchors) \in Nat
    BY AnchorsAreKinds DEF IInv, TypeInv, TypeOK
  <1>1. CASE Publish
    <2>1. copy' \in [Mirror -> 0..version']
      BY <1>0, <1>1 DEF Publish
    <2>2. TypeInv'
      BY <1>0, <1>1, <2>1, MaxVersionIsBound DEF IInv, Publish, callVars, TypeInv, TypeOK
    <2>3. CurrentInv'
      BY <1>0, <1>1 DEF IInv, Publish, callVars, CurrentInv, CurrentUnlessDegraded
    <2> QED BY <1>1, <2>2, <2>3 DEF IInv, Publish, callVars, AskedOnce, RecordInv, FallbackOnlyOnFailure
  <1>2. CASE OriginGoesUpOrDown
    BY <1>2 DEF IInv, OriginGoesUpOrDown, callVars, TypeInv, TypeOK, AskedOnce, RecordInv,
                FallbackOnlyOnFailure, CurrentInv, CurrentUnlessDegraded
  <1>3. ASSUME NEW i \in Anchor, ServeOrigin(i) PROVE IInv'
    BY <1>0, <1>3, ServesIInv DEF ServeOrigin, Reply, Authoritative
  <1>4. ASSUME NEW i \in Anchor, ServeMirror(i) PROVE IInv'
    <2>1. i \in Mirror
      BY <1>4 DEF ServeMirror, Mirror
    <2>2. [copy EXCEPT ![i] = version] \in [Mirror -> 0..version]
      BY <1>0, <2>1
    <2> QED BY <1>0, <1>4, <2>2, ServesIInv DEF ServeMirror, Reply, Authoritative
  <1>5. CASE Resolve
    <2>1. /\ phase = "idle" /\ at = 0 /\ failures = <<>> /\ answer = NoAnswer
          /\ \A i \in Anchor : i \notin sent /\ wire[i].http = "none"
      BY <1>5 DEF IInv, Resolve, TypeInv, RecordInv, AskedOnce, Anchor
    <2>2. sent = {}
      BY <2>1 DEF IInv, TypeInv, TypeOK
    <2>3. CASE Anchors = <<>>
      BY <1>0, <1>5, <2>1, <2>2, <2>3
         DEF IInv, Resolve, TypeInv, TypeOK, AskedOnce, RecordInv, FallbackOnlyOnFailure,
             CurrentInv, CurrentUnlessDegraded, Authoritative, Anchor
    <2>4. CASE Anchors # <<>>
      <3>1. 1 \in Anchor
        BY <2>4, AnchorsAreKinds DEF Anchor
      <3>2. /\ phase' = "fetching" /\ at' = 1 /\ timer' = "armed" /\ sent' = {1}
            /\ startedAt' = version
            /\ UNCHANGED <<version, originUp, copy, wire, failures, answer>>
        BY <1>5, <2>2, <2>4 DEF Resolve, Fetch
      <3>3. TypeInv'
        BY <1>0, <2>1, <3>1, <3>2 DEF IInv, TypeInv, TypeOK, Anchor
      <3>4. AskedOnce'
        BY <1>0, <2>1, <3>1, <3>2 DEF IInv, AskedOnce, Anchor
      <3>5. RecordInv'
        BY <2>1, <3>1, <3>2 DEF IInv, RecordInv, FallbackOnlyOnFailure
      <3>6. CurrentInv'
        BY <2>1, <3>2 DEF IInv, CurrentInv, CurrentUnlessDegraded, Authoritative
      <3> QED BY <3>3, <3>4, <3>5, <3>6 DEF IInv
    <2> QED BY <2>3, <2>4
  <1>6. CASE FetchRejected
    BY <1>6, MoveOnIInv DEF FetchRejected, Reason
  <1>7. CASE TimerFires
    BY <1>7, MoveOnIInv DEF TimerFires, Reason
  <1>8. CASE HeadersArrive
    <2>1. CASE wire[at].http = "5xx"
      BY <1>8, <2>1, MoveOnIInv DEF HeadersArrive, Reason
    <2>2. CASE wire[at].http # "5xx"
      <3>1. /\ phase = "fetching" /\ phase' = "reading" /\ timer' = "off"
            /\ wire[at].http = "below500"
            /\ UNCHANGED <<version, originUp, startedAt, copy, at, sent, wire, failures, answer>>
        BY <1>8, <2>2 DEF HeadersArrive, originVars
      <3> QED BY <3>1 DEF IInv, TypeInv, TypeOK, AskedOnce, RecordInv, FallbackOnlyOnFailure,
                          CurrentInv, CurrentUnlessDegraded
    <2> QED BY <2>1, <2>2
  <1>9. CASE BodyArrives
    <2>1. /\ phase = "reading" /\ phase' = "answered" /\ answer' = Answered(wire[at])
          /\ at \in Anchor /\ wire[at].http = "below500"
          /\ UNCHANGED <<version, originUp, startedAt, copy, at, timer, sent, wire, failures>>
      BY <1>9 DEF IInv, BodyArrives, originVars, TypeInv, TypeOK, RecordInv
    <2>2. answer'.anchor = at /\ answer'.content = wire[at].content
      BY <2>1 DEF Answered
    <2>3. ~answer'.degraded => Authoritative(wire[at])
      BY <2>1 DEF Answered, Authoritative
    <2>4. TypeInv'
      BY <1>0, <2>1, <2>2 DEF IInv, TypeInv, TypeOK, Anchor
    <2>5. RecordInv'
      BY <2>1, <2>2 DEF IInv, RecordInv, FallbackOnlyOnFailure
    <2>6. CurrentInv'
      BY <2>1, <2>2, <2>3 DEF IInv, CurrentInv, CurrentUnlessDegraded
    <2> QED BY <2>1, <2>4, <2>5, <2>6 DEF IInv, AskedOnce
  <1>10. CASE BodyUnparseable
    BY <1>10, MoveOnIInv DEF IInv, BodyUnparseable, RecordInv, Reason
  <1>11. CASE UNCHANGED vars
    BY <1>11 DEF IInv, vars, TypeInv, TypeOK, AskedOnce, RecordInv, FallbackOnlyOnFailure,
                 CurrentInv, CurrentUnlessDegraded
  <1> QED BY <1>1, <1>2, <1>3, <1>4, <1>5, <1>6, <1>7, <1>8, <1>9, <1>10, <1>11 DEF Next

-----------------------------------------------------------------------------

(* The invariant holds in every state.                                     *)
THEOREM Invariance == Spec => []IInv
  <1>1. Init => IInv
    BY InitIInv
  <1>2. IInv /\ [Next]_vars => IInv'
    BY NextIInv
  <1> QED BY <1>1, <1>2, PTL DEF Spec

(* The call is always at an anchor of its list, with the timer armed       *)
(* exactly while it waits for headers.                                     *)
THEOREM TypeCorrect == Spec => []TypeOK
  <1>1. IInv => TypeOK
    BY DEF IInv, TypeInv
  <1> QED BY <1>1, Invariance, PTL

(* For every list of anchors: each is given up only for its own failure,   *)
(* an answer below 500 ends the search, and an error means all failed.     *)
THEOREM FallsBackOnlyOnFailure == Spec => []FallbackOnlyOnFailure
  <1>1. IInv => FallbackOnlyOnFailure
    BY DEF IInv, RecordInv
  <1> QED BY <1>1, Invariance, PTL

(* For every list of anchors: an answer not marked degraded is no older    *)
(* than the call.                                                          *)
THEOREM AnswersAreCurrent == Spec => []CurrentUnlessDegraded
  <1>1. IInv => CurrentUnlessDegraded
    BY DEF IInv, CurrentInv
  <1> QED BY <1>1, Invariance, PTL
=============================================================================

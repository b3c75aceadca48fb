----------------------------- MODULE MultiAnchor -----------------------------
(***************************************************************************)
(* Resolution of a did.json or a status credential against an ordered list *)
(* of anchors (packages/gdid-sdk-js/src/multi-anchor.ts): one call of      *)
(* resolveDidDocument or resolveStatusCredential, the network it waits     *)
(* for, and the anchors behind it.                                         *)
(*                                                                         *)
(* The anchors are not under src/.  What they do is the contract that the  *)
(* comments of multi-anchor.ts give: the origin serves what it has; a      *)
(* mirror passes the origin's bytes on, serves its last good copy marked   *)
(* stale when it cannot reach the origin, and a replica of its own         *)
(* ("cn-replica") when it has no copy.  The content is a version number    *)
(* that grows with every change at the origin.                             *)
(*                                                                         *)
(* Anchors are numbered from 1 here, from 0 in the code.                   *)
(***************************************************************************)
EXTENDS Integers, Sequences

CONSTANTS
    Anchors,       \* opts.anchors: a sequence of "origin" and "mirror"
    MaxVersion     \* bound: the last version of the content

ASSUME MaxVersionIsBound == MaxVersion \in Nat
ASSUME AnchorsAreKinds == Anchors \in Seq({"origin", "mirror"})

Anchor == 1..Len(Anchors)
Mirror == {i \in Anchor : Anchors[i] = "mirror"}

VARIABLES
    version,       \* the origin's content
    originUp,      \* whether mirrors can reach the origin
    copy,          \* each mirror's last good copy, 0 when it has none
    phase,         \* the call: idle, fetching, reading, answered, failed
    at,            \* the anchor it is at
    timer,         \* the abort timer of this fetch: armed or off
    sent,          \* the anchors with a request under way, aborted or not
    wire,          \* each anchor's reply, NoReply until it is on its way
    failures,      \* what the call has recorded: [anchor, reason]
    answer,        \* what it returned, NoAnswer until it does
    startedAt      \* history: the version when the call began

vars == <<version, originUp, copy, phase, at, timer, sent, wire, failures, answer, startedAt>>
originVars == <<version, originUp, startedAt>>
callVars == <<phase, at, timer, failures, answer>>

NoReply == [http |-> "none"]
NoAnswer == [anchor |-> 0]

Init ==
    /\ version \in 1..MaxVersion
    /\ originUp \in BOOLEAN
    /\ copy \in [Mirror -> 0..version]
    /\ phase = "idle"
    /\ at = 0
    /\ timer = "off"
    /\ sent = {}
    /\ wire = [i \in Anchor |-> NoReply]
    /\ failures = <<>>
    /\ answer = NoAnswer
    /\ startedAt = version

-----------------------------------------------------------------------------
(* The anchors and the network.                                            *)

Publish ==
    /\ version < MaxVersion
    /\ version' = version + 1
    /\ UNCHANGED <<originUp, copy, callVars, sent, wire, startedAt>>

OriginGoesUpOrDown ==
    /\ originUp' = ~originUp
    /\ UNCHANGED <<version, copy, callVars, sent, wire, startedAt>>

(* source is the X-Jiaozi-Mirror header, "absent" when there is none. *)
Reply(http, source, stale, content) ==
    [http |-> http, source |-> source, stale |-> stale, content |-> content]

Serves(i, reply) ==
    /\ i \in sent
    /\ sent' = sent \ {i}
    /\ wire' = [wire EXCEPT ![i] = reply]
    /\ UNCHANGED <<originVars, callVars>>

ServeOrigin(i) ==
    /\ Anchors[i] = "origin"
    /\ \/ Serves(i, Reply("below500", "absent", FALSE, version))
       \/ Serves(i, Reply("5xx", "absent", FALSE, 0))
    /\ UNCHANGED copy

ServeMirror(i) ==
    /\ Anchors[i] = "mirror"
    /\ \/ /\ originUp
          /\ Serves(i, Reply("below500", "sg-origin", FALSE, version))
          /\ copy' = [copy EXCEPT ![i] = version]
       \/ /\ ~originUp /\ copy[i] # 0
          /\ Serves(i, Reply("below500", "sg-origin", TRUE, copy[i]))
          /\ UNCHANGED copy
       \/ /\ ~originUp /\ copy[i] = 0
          /\ Serves(i, Reply("below500", "cn-replica", FALSE, 1))
          /\ UNCHANGED copy
       \/ /\ Serves(i, Reply("5xx", "absent", FALSE, 0))
          /\ UNCHANGED copy

-----------------------------------------------------------------------------
(* The call.                                                               *)

(* fetchWithTimeout: the timer is armed and the request sent. *)
Fetch(i) ==
    /\ phase' = "fetching"
    /\ at' = i
    /\ timer' = "armed"
    /\ sent' = sent \cup {i}

Resolve ==
    /\ phase = "idle"
    /\ startedAt' = version
    /\ IF Anchors = <<>>
       THEN phase' = "failed" /\ UNCHANGED <<at, timer, sent>>
       ELSE Fetch(1)
    /\ UNCHANGED <<version, originUp, copy, wire, failures, answer>>

(* The anchor is given up: the next one is tried, if there is one. *)
MoveOn(reason) ==
    /\ failures' = Append(failures, [anchor |-> at, reason |-> reason])
    /\ IF at < Len(Anchors)
       THEN Fetch(at + 1)
       ELSE phase' = "failed" /\ timer' = "off" /\ UNCHANGED <<at, sent>>
    /\ UNCHANGED <<originVars, copy, wire, answer>>

(* fetch rejects: no connection, no name, a broken TLS handshake. *)
FetchRejected == phase = "fetching" /\ MoveOn("rejected")

(* Mutant: the timer only runs once the anchor has replied. *)
TimerFiresOnReply == phase = "fetching" /\ wire[at] # NoReply /\ MoveOn("timeout")

(* The abort wins, and a reply that comes later is nobody's. *)
TimerFires == phase = "fetching" /\ timer = "armed" /\ MoveOn("timeout")

(* Mutants: the timer is left running; a 5xx is taken for an answer. *)
HeadersArriveTimerOn ==
    /\ phase = "fetching"
    /\ wire[at] # NoReply
    /\ \/ /\ wire[at].http = "5xx"
          /\ MoveOn("5xx")
       \/ /\ wire[at].http = "below500"
          /\ phase' = "reading"
          /\ UNCHANGED <<originVars, copy, at, timer, sent, wire, failures, answer>>

HeadersArriveAnyStatus ==
    /\ phase = "fetching"
    /\ wire[at] # NoReply
    /\ phase' = "reading"
    /\ timer' = "off"
    /\ UNCHANGED <<originVars, copy, at, sent, wire, failures, answer>>

(* The headers are in: the timer is cleared before the body is read. *)
HeadersArrive ==
    /\ phase = "fetching"
    /\ wire[at] # NoReply
    /\ \/ /\ wire[at].http = "5xx"
          /\ MoveOn("5xx")
       \/ /\ wire[at].http = "below500"
          /\ phase' = "reading"
          /\ timer' = "off"
          /\ UNCHANGED <<originVars, copy, at, sent, wire, failures, answer>>

(* Mutant: a stale copy of the origin's is not marked. *)
AnsweredStale(reply) ==
    [anchor   |-> at,
     content  |-> reply.content,
     source   |-> reply.source,
     stale    |-> reply.stale,
     degraded |-> reply.source # "absent" /\ reply.source # "sg-origin"]

(* readProvenance, and the body. *)
Answered(reply) ==
    [anchor   |-> at,
     content  |-> reply.content,
     source   |-> reply.source,
     stale    |-> reply.stale,
     degraded |-> reply.stale \/ (reply.source # "absent" /\ reply.source # "sg-origin")]

BodyArrives ==
    /\ phase = "reading"
    /\ answer' = Answered(wire[at])
    /\ phase' = "answered"
    /\ UNCHANGED <<originVars, copy, at, timer, sent, wire, failures>>

(* res.json() rejects: not JSON, or the connection broke. *)
BodyUnparseable == phase = "reading" /\ MoveOn("unparseable_body")

Next ==
    \/ Publish
    \/ OriginGoesUpOrDown
    \/ \E i \in Anchor : ServeOrigin(i) \/ ServeMirror(i)
    \/ Resolve
    \/ FetchRejected
    \/ TimerFires
    \/ HeadersArrive
    \/ BodyArrives
    \/ BodyUnparseable

Spec == Init /\ [][Next]_vars

(* setTimeout fires in the end.  A body that has begun is not sure to end. *)
TimersFire == WF_vars(TimerFires)
BodiesEnd == WF_vars(BodyArrives \/ BodyUnparseable)

TimedSpec == Spec /\ TimersFire
FairSpec == Spec /\ TimersFire /\ BodiesEnd

-----------------------------------------------------------------------------
(* Properties.                                                             *)

TypeOK ==
    /\ version \in 1..MaxVersion
    /\ originUp \in BOOLEAN
    /\ copy \in [Mirror -> 0..version]
    /\ phase \in {"idle", "fetching", "reading", "answered", "failed"}
    /\ at \in 0..Len(Anchors)
    /\ phase \in {"fetching", "reading", "answered"} => at \in Anchor
    /\ timer \in {"armed", "off"}
    /\ timer = "armed" <=> phase = "fetching"
    /\ sent \subseteq Anchor
    /\ DOMAIN wire = Anchor
    /\ Len(failures) <= Len(Anchors)
    /\ answer.anchor \in 0..Len(Anchors)
    /\ startedAt \in 1..version

(* An anchor is given up for its own failure, never for a late or a        *)
(* missing answer of another, and never for an answer below 500: the       *)
(* record has each anchor before the current one once, in order, and an    *)
(* answer (a 404 too) ends the search; when the call fails, every anchor   *)
(* has failed.                                                             *)
FallbackOnlyOnFailure ==
    /\ \A i \in 1..Len(failures) :
         /\ failures[i].anchor = i
         /\ failures[i].reason = "5xx" => wire[i].http = "5xx"
         /\ failures[i].reason = "unparseable_body" => wire[i].http = "below500"
    /\ phase \in {"fetching", "reading", "answered"} => Len(failures) = at - 1
    /\ phase = "answered" => answer.anchor = at /\ wire[at].http = "below500"
    /\ phase = "failed" => Len(failures) = Len(Anchors) /\ answer = NoAnswer

(* An answer that is not marked degraded is the origin's content, and no   *)
(* older than the moment the caller asked, however often the origin was    *)
(* lost and the content changed while anchors timed out.                   *)
CurrentUnlessDegraded ==
    phase = "answered" /\ ~answer.degraded => answer.content \in startedAt..version

(* "A timed-out anchor counts as failed": every resolution ends, in an     *)
(* answer or an error.                                                     *)
ResolutionSettles == phase # "idle" ~> phase \in {"answered", "failed"}
=============================================================================

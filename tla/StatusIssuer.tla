---------------------------- MODULE StatusIssuer ----------------------------
(***************************************************************************)
(* The issuers of status credentials, seen from the gates: the clock, the  *)
(* standing of one certificate, the platform's signing key, and every      *)
(* credential ever signed, each of which can be presented again.  The      *)
(* issuing service is not under src/: it is modelled by how the code uses  *)
(* it (buildStatusPayload and signStatusPayload, with the standing of that *)
(* moment), and a holder keeps what it was given.                          *)
(***************************************************************************)
EXTENDS TrustChecker, FiniteSets

CONSTANTS
    PlatformKeys,  \* the keys the platform signs with, one after the other
    OtherKeys,     \* keys of other issuers of status.v1 credentials
    Levels,        \* the trust levels the certificate may have
    MaxSkew,       \* how far apart the clocks of gate and issuer may be
    MaxTime,       \* bound: the last clock reading
    MaxIssued      \* bound: the credentials signed

Key == PlatformKeys \cup OtherKeys

ASSUME LevelsAreRanked == Levels \subseteq DOMAIN TRUST_RANK
ASSUME SkewIsTime == MaxSkew \in Nat
ASSUME IssuersAreDistinct == PlatformKeys \cap OtherKeys = {}

VARIABLES
    now,           \* the issuer's clock, taken as the true time
    standing,      \* the certificate's [status, trustLevel] at the issuer
    signingKey,    \* the platform's current signing key
    issued,        \* every credential signed so far
    lastSuited     \* history: by rank, the last time the standing had it

issuerVars == <<now, standing, signingKey, issued, lastSuited>>

Never == -1 - Ttl - MaxSkew

Standings ==
    [status : {"active", "suspended"}, trustLevel : Levels]
      \cup {[status |-> "unknown", trustLevel |-> "none"],
            [status |-> "revoked", trustLevel |-> "revoked"]}

IssuerInit ==
    /\ now = 1
    /\ standing = [status |-> "unknown", trustLevel |-> "none"]
    /\ signingKey \in PlatformKeys
    /\ issued = {}
    /\ lastSuited = [rank \in Ranks |-> Never]

NoteSuited(held, time) ==
    lastSuited' = [rank \in Ranks |-> IF Suits(held, rank) THEN time ELSE lastSuited[rank]]

Tick ==
    /\ now < MaxTime
    /\ now' = now + 1
    /\ NoteSuited(standing, now + 1)
    /\ UNCHANGED <<standing, signingKey, issued>>

(* Issued, suspended, reinstated, given another level, or revoked for good. *)
ChangeStanding(next) ==
    /\ standing.status # "revoked"
    /\ next # standing
    /\ next.status # "unknown"
    /\ standing' = next
    /\ NoteSuited(next, now)
    /\ UNCHANGED <<now, signingKey, issued>>

RotateKey(key) ==
    /\ key # signingKey
    /\ signingKey' = key
    /\ UNCHANGED <<now, standing, issued, lastSuited>>

(* GET /api/status/{certId}: the standing of this moment, signed. *)
Issue ==
    /\ Cardinality(issued) < MaxIssued
    /\ issued' = issued \cup
         {SignStatusPayload(BuildStatusPayload(standing, "platform", now),
                            signingKey, Multibase(signingKey, "legacy"))}
    /\ UNCHANGED <<now, standing, signingKey, lastSuited>>

(* Another issuer states what it likes about the same certificate. *)
IssueElsewhere(key, held) ==
    /\ Cardinality(issued) < MaxIssued
    /\ issued' = issued \cup
         {SignStatusPayload(BuildStatusPayload(held, "elsewhere", now),
                            key, Multibase(key, "legacy"))}
    /\ UNCHANGED <<now, standing, signingKey, lastSuited>>

IssuerNext ==
    \/ Tick
    \/ \E next \in Standings : ChangeStanding(next)
    \/ \E key \in PlatformKeys : RotateKey(key)
    \/ Issue
    \/ \E key \in OtherKeys, held \in Standings : IssueElsewhere(key, held)

(* What a gate may read on its own clock. *)
GateClock == {now + skew : skew \in (0 - MaxSkew)..MaxSkew}

(* The keys a checker can be satisfied by: every one that can sign, unless *)
(* its policy or its verify options pin some.                              *)
TrustedBy(o) ==
    {key \in Key :
       /\ o.policy # "online" => \E pin \in o.issuerKeys : pin.key = key
       /\ \A keys \in o.verify.trustedKeys : Multibase(key, "legacy") \in keys}
=============================================================================

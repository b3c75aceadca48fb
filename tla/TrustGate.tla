------------------------------ MODULE TrustGate ------------------------------
(***************************************************************************)
(* Gates built by requireTrust (packages/gdid-sdk-js/src/require-trust.ts) *)
(* over time.  A gate is a pure function of what is presented, the options *)
(* it was built with and the clock it reads; around it, the certificate's  *)
(* standing changes, the issuer's signing key rotates, and every           *)
(* credential ever signed can be presented again, to any gate.             *)
(*                                                                         *)
(* The caller of a gate is not under src/.  It may do what the comment of  *)
(* verifyStatusCredential asks for, and pass the last accepted serial on   *)
(* as minSerial: a gate reads options.verify at every call.                *)
(***************************************************************************)
EXTENDS StatusIssuer

CONSTANTS
    Options,       \* the options each gate is built with, a function of the gates
    Tracking,      \* the gates whose caller raises verify.minSerial
    Boundary,      \* the permissions an agent may declare, each optional
    MaxBuilt       \* bound: the gates built

Gate == DOMAIN Options

ASSUME OptionsAreOptions == \A g \in Gate : Options[g] \in OptionRecord(Key)
ASSUME TrackingAreGates == Tracking \subseteq Gate

VARIABLES
    built,         \* the gates that have been built
    floor,         \* each gate's verify.minSerial, as its caller last set it
    decision,      \* the decision just made, or NoDecision
    accepted       \* history: the serial each gate accepted last, or 0

gateVars == <<issuerVars, built, floor, decision, accepted>>

NoDecision == [verdict |-> "none"]

GateInit ==
    /\ IssuerInit
    /\ built = {}
    /\ floor = [g \in Gate |-> Options[g].verify.minSerial]
    /\ decision = NoDecision
    /\ accepted = [g \in Gate |-> 0]

(* What happens at an issuer is not part of a decision. *)
GateIssuerStep ==
    /\ IssuerNext
    /\ decision' = NoDecision
    /\ UNCHANGED <<built, floor, accepted>>

(* requireTrust throws rather than build a gate without its pins. *)
Build(g) ==
    /\ Buildable(Options[g])
    /\ Cardinality(built) < MaxBuilt
    /\ built' = built \cup {g}
    /\ decision' = NoDecision
    /\ UNCHANGED <<issuerVars, floor, accepted>>

(* One call of the checker, and what its caller does with the answer. *)
Present(g, credential, boundary, clock) ==
    LET verdict == Verdict(Options[g], floor[g], credential, boundary, clock)
    IN  /\ g \in built
        /\ decision' = [verdict |-> verdict, gate |-> g, credential |-> credential,
                        boundary |-> boundary, freshness |-> Freshness(Options[g]),
                        minSerial |-> floor[g], at |-> now]
        /\ IF verdict = "allowed"
           THEN /\ accepted' = [accepted EXCEPT ![g] = credential.payload.serial]
                /\ floor' = IF g \in Tracking
                            THEN [floor EXCEPT ![g] = {credential.payload.serial}]
                            ELSE floor
           ELSE UNCHANGED <<accepted, floor>>
        /\ UNCHANGED <<issuerVars, built>>

GateNext ==
    \/ GateIssuerStep
    \/ \E g \in Gate : Build(g)
    \/ \E g \in Gate, credential \in issued \cup {NoCredential, Malformed},
          boundary \in Boundary, clock \in GateClock :
         Present(g, credential, boundary, clock)

GateSpec == GateInit /\ [][GateNext]_gateVars

-----------------------------------------------------------------------------
(* Properties.                                                             *)

(* Types of the state; no credential bears a serial of the future, and     *)
(* only a gate that was built decides.                                     *)
TypeOK ==
    /\ now \in Nat
    /\ standing \in Standings
    /\ signingKey \in PlatformKeys
    /\ \A c \in issued : IsStatusCredentialV1(c) /\ c.payload.serial \in 1..now
    /\ lastSuited \in [Ranks -> Int]
    /\ built \subseteq {g \in Gate : Buildable(Options[g])}
    /\ \A g \in Gate : floor[g] \subseteq Nat
    /\ decision # NoDecision => decision.gate \in built
    /\ accepted \in [Gate -> Nat]

(* What "verified" is worth: however credentials were kept, mixed up and   *)
(* presented again, a gate that trusts only the platform's keys and marks  *)
(* an allow as verified does so at most a TTL (and the clocks' distance)   *)
(* after the certificate last was active at the level the gate asks for.   *)
StaleAllowBounded ==
    /\ decision.verdict = "allowed"
    /\ decision.freshness = "verified"
    /\ Options[decision.gate].verify.now = {}
    /\ TrustedBy(Options[decision.gate]) \subseteq PlatformKeys
    => lastSuited[TRUST_RANK[Options[decision.gate].minLevel]] >= decision.at - Ttl - MaxSkew

(* The gates fail closed, but not on holders in good standing: one whose   *)
(* credential still lives on every clock, is above the floor, was signed   *)
(* by a key the gate trusts (its policy's pins in either encoding) and     *)
(* shows a sufficient standing and boundary is admitted, whatever keys the *)
(* platform has rotated through since.                                     *)
FreshCredentialAdmits ==
    /\ decision # NoDecision
    /\ IsStatusCredentialV1(decision.credential)
    /\ decision.credential.signature.by \in TrustedBy(Options[decision.gate])
    /\ Options[decision.gate].verify.now = {}
    /\ decision.at + MaxSkew <= decision.credential.payload.expiresAt
    /\ \A issuer \in Options[decision.gate].verify.expectedIssuer :
         decision.credential.payload.issuer = issuer
    /\ \A s \in decision.minSerial : s <= decision.credential.payload.serial
    /\ Suits(decision.credential.payload, TRUST_RANK[Options[decision.gate].minLevel])
    /\ ~OutOfBoundary(Options[decision.gate], decision.boundary)
    => decision.verdict = "allowed"

(* "Monotonic per issuer ...  Verifiers MUST reject decreasing serials"    *)
(* (status.ts): a gate whose caller tracks serials accepts no credential   *)
(* older than the one it accepted last, whatever is presented to it.       *)
SerialsNeverDecrease == [][\A g \in Tracking : accepted'[g] >= accepted[g]]_gateVars
=============================================================================

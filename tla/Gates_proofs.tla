----------------------------- MODULE Gates_proofs -----------------------------
(***************************************************************************)
(* What the gates and the tools behind them can be relied on for.  The     *)
(* issuers' side of it is in StatusIssuer_proofs: what a platform key has  *)
(* signed was true when it was signed.                                     *)
(*                                                                         *)
(* TrustGate, for every set of gates and of keys, any TTL and any distance *)
(* of the clocks: the gates' side is what an allow tells of the credential *)
(* and what it takes to be allowed.                                        *)
(*                                                                         *)
(* McpDispatch, for any policies, tools and lanes besides, and any number  *)
(* of requests: a decision is made in one step and holds as long as its    *)
(* handler runs and after.  What it says is about the moment it was made,  *)
(* the history of the standing never goes back, and no request touches     *)
(* another's record.                                                       *)
(***************************************************************************)
EXTENDS TrustGate, McpDispatch, StatusIssuer_proofs

-----------------------------------------------------------------------------
(* The gates.                                                              *)

GateTypes ==
    /\ built \subseteq {g \in Gate : Buildable(Options[g])}
    /\ floor \in [Gate -> SUBSET Nat]
    /\ accepted \in [Gate -> Nat]
    /\ decision # NoDecision => decision.gate \in built

GateInv == IssuerInv /\ GateTypes /\ StaleAllowBounded /\ FreshCredentialAdmits

(* A caller that tracks serials has the floor at the last one accepted.    *)
FloorIsLast ==
    \A g \in Tracking : accepted[g] = 0 \/ floor[g] = {accepted[g]}

-----------------------------------------------------------------------------
(* The invariant.                                                          *)

(* Every initial state satisfies it: no gate has decided.                  *)
LEMMA GateInitInv == GateInit => GateInv
  <1> SUFFICES ASSUME GateInit PROVE GateInv
    OBVIOUS
  <1>1. IssuerInv
    BY IssuerInitInv DEF GateInit
  <1>2. GateTypes
    <2>1. floor \in [Gate -> SUBSET Nat]
      BY OptionsAreOptions DEF GateInit, OptionRecord
    <2> QED BY <2>1 DEF GateTypes, GateInit
  <1>3. StaleAllowBounded /\ FreshCredentialAdmits
    BY DEF GateInit, NoDecision, StaleAllowBounded, FreshCredentialAdmits
  <1> QED BY <1>1, <1>2, <1>3 DEF GateInv

(* The one step that decides: an allow marked verified is within bounds.   *)
LEMMA PresentBounded ==
    ASSUME GateInv, NEW g \in Gate, NEW c \in issued \cup {NoCredential, Malformed},
           NEW b, NEW clock \in GateClock, Present(g, c, b, clock)
    PROVE  StaleAllowBounded'
  <1> DEFINE o == Options[g]
             rank == TRUST_RANK[o.minLevel]
  <1> SUFFICES ASSUME Verdict(o, floor[g], c, b, clock) = "allowed",
                      Freshness(o) = "verified", o.verify.now = {},
                      TrustedBy(Options[g]) \subseteq PlatformKeys
               PROVE  lastSuited[rank] >= now - Ttl - MaxSkew
    BY DEF Present, issuerVars, StaleAllowBounded
  <1>1. o \in OptionRecord(Key)
    BY OptionsAreOptions
  <1>2. /\ IsStatusCredentialV1(c)
        /\ Suits(c.payload, rank)
        /\ ~(clock > c.payload.expiresAt)
    BY <1>1, AllowedIsChecked DEF Freshness
  <1>3. c \in issued
    BY <1>2 DEF IsStatusCredentialV1, NoCredential, Malformed
  <1>4. Signed(c) /\ now \in Nat /\ rank \in Ranks /\ lastSuited \in [Ranks -> Int]
    BY <1>1, <1>3, RanksAreNumbers DEF GateInv, IssuerInv, IssuerTypes, OptionRecord
  <1>5. c.signature.by \in PlatformKeys
    BY <1>1, <1>4, AllowedIsTrusted
  <1>6. lastSuited[rank] >= c.payload.serial
    BY <1>2, <1>3, <1>4, <1>5 DEF GateInv, IssuerInv, SignedTruth, Signed, SignWithPkcs8
  <1>7. c.payload.serial + Ttl >= now - MaxSkew
    <2>1. PICK skew \in (0 - MaxSkew)..MaxSkew : clock = now + skew
      BY DEF GateClock
    <2> QED BY <1>2, <1>4, <2>1, TtlIsTime, SkewIsTime DEF Signed
  <1>8. c.payload.serial \in Nat /\ lastSuited[rank] \in Int
    BY <1>4 DEF Signed
  <1> QED BY <1>4, <1>6, <1>7, <1>8, TtlIsTime, SkewIsTime

(* And it admits who is in good standing, on whichever clock it reads.     *)
LEMMA PresentAdmits ==
    ASSUME GateInv, NEW g \in Gate, NEW c \in issued \cup {NoCredential, Malformed},
           NEW b, NEW clock \in GateClock, Present(g, c, b, clock)
    PROVE  FreshCredentialAdmits'
  <1> DEFINE o == Options[g]
  <1>1. decision' = [verdict |-> Verdict(o, floor[g], c, b, clock), gate |-> g,
                     credential |-> c, boundary |-> b, freshness |-> Freshness(o),
                     minSerial |-> floor[g], at |-> now]
    BY DEF Present
  <1> SUFFICES ASSUME IsStatusCredentialV1(c),
                      c.signature.by \in TrustedBy(o),
                      o.verify.now = {},
                      now + MaxSkew <= c.payload.expiresAt,
                      \A issuer \in o.verify.expectedIssuer : c.payload.issuer = issuer,
                      \A s \in floor[g] : s <= c.payload.serial,
                      Suits(c.payload, TRUST_RANK[o.minLevel]),
                      ~OutOfBoundary(o, b)
               PROVE  Verdict(o, floor[g], c, b, clock) = "allowed"
    BY <1>1 DEF FreshCredentialAdmits
  <1>2. o \in OptionRecord(Key)
    BY OptionsAreOptions
  <1>3. c \in issued
    BY DEF IsStatusCredentialV1, NoCredential, Malformed
  <1>4. Signed(c) /\ now \in Nat /\ floor[g] \subseteq Nat
    BY <1>3 DEF GateInv, IssuerInv, IssuerTypes, GateTypes
  <1>5. clock \in Int /\ clock <= c.payload.expiresAt
    <2>1. PICK skew \in (0 - MaxSkew)..MaxSkew : clock = now + skew
      BY DEF GateClock
    <2>2. c.payload.expiresAt \in Int
      BY <1>4, TtlIsTime DEF Signed
    <2> QED BY <1>4, <2>1, <2>2, SkewIsTime
  <1> HIDE DEF o
  <1> QED BY <1>2, <1>4, <1>5, SoundIsAllowed

(* Every step preserves the invariant.                                     *)
LEMMA GateNextInv == GateInv /\ [GateNext]_gateVars => GateInv'
  <1> SUFFICES ASSUME GateInv, [GateNext]_gateVars PROVE GateInv'
    OBVIOUS
  <1> USE DEF GateInv
  <1>1. CASE GateIssuerStep
    <2>1. IssuerInv'
      BY <1>1, IssuerNextInv DEF GateIssuerStep
    <2>2. GateTypes' /\ StaleAllowBounded' /\ FreshCredentialAdmits'
      BY <1>1 DEF GateTypes, GateIssuerStep, StaleAllowBounded, FreshCredentialAdmits, NoDecision
    <2> QED BY <2>1, <2>2
  <1>2. ASSUME NEW g \in Gate, Build(g) PROVE GateInv'
    <2>1. IssuerInv'
      BY <1>2, IssuerNextInv DEF Build
    <2>2. StaleAllowBounded' /\ FreshCredentialAdmits'
      BY <1>2 DEF Build, NoDecision, StaleAllowBounded, FreshCredentialAdmits
    <2>3. GateTypes'
      BY <1>2 DEF Build, GateTypes
    <2> QED BY <2>1, <2>2, <2>3
  <1>3. ASSUME NEW g \in Gate, NEW c \in issued \cup {NoCredential, Malformed},
               NEW b \in Boundary, NEW clock \in GateClock,
               Present(g, c, b, clock)
        PROVE  GateInv'
    <2>1. IssuerInv'
      BY <1>3, IssuerNextInv DEF Present
    <2>2. StaleAllowBounded' /\ FreshCredentialAdmits'
      BY <1>3, PresentBounded, PresentAdmits
    <2>3. floor' \in [Gate -> SUBSET Nat] /\ accepted' \in [Gate -> Nat]
      <3>1. CASE Verdict(Options[g], floor[g], c, b, clock) = "allowed"
        <4>1. c \in issued
          BY <3>1, OptionsAreOptions, AllowedIsChecked
             DEF IsStatusCredentialV1, NoCredential, Malformed
        <4>2. c.payload.serial \in Nat
          BY <4>1 DEF IssuerInv, IssuerTypes, Signed
        <4> QED BY <1>3, <3>1, <4>2 DEF Present, GateTypes
      <3>2. CASE Verdict(Options[g], floor[g], c, b, clock) # "allowed"
        BY <1>3, <3>2 DEF Present, GateTypes
      <3> QED BY <3>1, <3>2
    <2>4. (decision # NoDecision => decision.gate \in built)'
      BY <1>3 DEF Present
    <2> QED BY <1>3, <2>1, <2>2, <2>3, <2>4 DEF Present, GateTypes
  <1>4. CASE UNCHANGED gateVars
    <2>1. IssuerInv'
      BY <1>4, IssuerNextInv DEF gateVars
    <2> QED BY <1>4, <2>1 DEF gateVars, issuerVars, GateTypes, StaleAllowBounded,
                              FreshCredentialAdmits
  <1> QED BY <1>1, <1>2, <1>3, <1>4 DEF GateNext

-----------------------------------------------------------------------------

(* The invariant holds in every state.                                     *)
THEOREM GateInvariance == GateSpec => []GateInv
  <1>1. GateInit => GateInv
    BY GateInitInv
  <1>2. GateInv /\ [GateNext]_gateVars => GateInv'
    BY GateNextInv
  <1> QED BY <1>1, <1>2, PTL DEF GateSpec

(* The state of the gates and of the issuer is well typed: no credential   *)
(* bears a serial of the future, and only a gate that was built decides.   *)
THEOREM TypeCorrect == GateSpec => []TypeOK
  <1>1. GateInv => TypeOK
    BY DEF GateInv, IssuerInv, IssuerTypes, GateTypes, TypeOK, Signed, IsStatusCredentialV1
  <1> QED BY <1>1, GateInvariance, PTL

(* A gate that trusts only the platform's keys and marks an allow verified *)
(* does so at most Ttl + MaxSkew after the certificate last was active at  *)
(* the level the gate asks for.                                            *)
THEOREM StalenessIsBounded == GateSpec => []StaleAllowBounded
  <1>1. GateInv => StaleAllowBounded
    BY DEF GateInv
  <1> QED BY <1>1, GateInvariance, PTL

(* The gates deny nobody in good standing: a holder whose credential lives *)
(* on every clock, by a key the gate trusts and above its floor, with      *)
(* standing and boundary enough, is admitted.                              *)
THEOREM GoodStandingIsAdmitted == GateSpec => []FreshCredentialAdmits
  <1>1. GateInv => FreshCredentialAdmits
    BY DEF GateInv
  <1> QED BY <1>1, GateInvariance, PTL

(* The floor a tracking caller sets is the last serial it accepted.        *)
LEMMA NextFloor == FloorIsLast /\ GateInv /\ [GateNext]_gateVars => FloorIsLast'
  <1> SUFFICES ASSUME FloorIsLast, GateInv, [GateNext]_gateVars PROVE FloorIsLast'
    OBVIOUS
  <1>1. ASSUME UNCHANGED <<floor, accepted>> PROVE FloorIsLast'
    BY <1>1 DEF FloorIsLast
  <1>2. ASSUME NEW g \in Gate, NEW c \in issued \cup {NoCredential, Malformed},
               NEW b \in Boundary, NEW clock \in GateClock,
               Present(g, c, b, clock)
        PROVE  FloorIsLast'
    <2>1. floor \in [Gate -> SUBSET Nat] /\ accepted \in [Gate -> Nat]
      BY DEF GateInv, GateTypes
    <2>2. CASE Verdict(Options[g], floor[g], c, b, clock) = "allowed"
      <3>1. /\ accepted' = [accepted EXCEPT ![g] = c.payload.serial]
            /\ floor' = IF g \in Tracking THEN [floor EXCEPT ![g] = {c.payload.serial}]
                                          ELSE floor
        BY <1>2, <2>2 DEF Present
      <3> QED BY <2>1, <3>1, TrackingAreGates DEF FloorIsLast
    <2>3. CASE Verdict(Options[g], floor[g], c, b, clock) # "allowed"
      BY <1>1, <1>2, <2>3 DEF Present
    <2> QED BY <2>2, <2>3
  <1>3. CASE UNCHANGED gateVars
    BY <1>1, <1>3 DEF gateVars
  <1> QED BY <1>1, <1>2, <1>3 DEF GateNext, GateIssuerStep, Build

(* A gate whose caller passes the last accepted serial on as minSerial, as *)
(* verifyStatusCredential's comment asks, never accepts a lower serial     *)
(* than before, whatever the callers of other gates do.                    *)
THEOREM TrackedSerialsNeverDecrease == GateSpec => SerialsNeverDecrease
  <1>1. GateInit => FloorIsLast
    BY TrackingAreGates DEF GateInit, IssuerInit, FloorIsLast
  <1>2. ASSUME FloorIsLast, GateInv, [GateNext]_gateVars
        PROVE  [\A g \in Tracking : accepted'[g] >= accepted[g]]_gateVars
    <2>0. accepted \in [Gate -> Nat]
      BY <1>2 DEF GateInv, GateTypes
    <2>1. ASSUME UNCHANGED accepted PROVE \A h \in Tracking : accepted'[h] >= accepted[h]
      BY <2>0, <2>1, TrackingAreGates
    <2>2. ASSUME NEW g \in Gate, NEW c \in issued \cup {NoCredential, Malformed},
                 NEW b \in Boundary, NEW clock \in GateClock,
                 Present(g, c, b, clock)
          PROVE  \A h \in Tracking : accepted'[h] >= accepted[h]
      <3>1. CASE Verdict(Options[g], floor[g], c, b, clock) = "allowed"
        <4>1. accepted' = [accepted EXCEPT ![g] = c.payload.serial]
          BY <2>2, <3>1 DEF Present
        <4>2. IsStatusCredentialV1(c) /\ \A s \in floor[g] : ~(c.payload.serial < s)
          BY <3>1, OptionsAreOptions, AllowedIsChecked
        <4>3. c.payload.serial \in Nat
          BY <1>2, <4>2 DEF IsStatusCredentialV1, NoCredential, Malformed,
                                GateInv, IssuerInv, IssuerTypes, Signed
        <4>4. g \in Tracking => c.payload.serial >= accepted[g]
          BY <1>2, <2>0, <4>2, <4>3 DEF FloorIsLast
        <4> QED BY <2>0, <4>1, <4>4, TrackingAreGates
      <3>2. CASE Verdict(Options[g], floor[g], c, b, clock) # "allowed"
        BY <2>1, <2>2, <3>2 DEF Present
      <3> QED BY <3>1, <3>2
    <2> QED BY <1>2, <2>1, <2>2 DEF GateNext, GateIssuerStep, Build
  <1>3. FloorIsLast /\ GateInv /\ [GateNext]_gateVars => FloorIsLast'
    BY NextFloor
  <1> QED BY <1>1, <1>2, <1>3, GateInvariance, PTL DEF GateSpec, SerialsNeverDecrease

-----------------------------------------------------------------------------
(* The dispatcher.                                                         *)

DispatchTypes ==
    /\ policy \in Policies
    /\ DOMAIN pc = Call
    /\ DOMAIN request = Call
    /\ DOMAIN trust = Call
    /\ DOMAIN response = Call
    /\ decidedAt \in [Call -> Nat]
    /\ \A c \in Ran : request[c].tool \in ToolNames

IInv ==
    /\ IssuerInv
    /\ DispatchTypes
    /\ GatedRunsBounded
    /\ IdentityIsVerified
    /\ BoundaryHonoured

-----------------------------------------------------------------------------
(* The compiled table.                                                     *)

(* Every checker of one table trusts the same keys in the same way: the    *)
(* one that identifies callers and those behind the gated tools.           *)
LEMMA CompiledAlike ==
    ASSUME NEW options, NEW rule
    PROVE  /\ TrustedBy(Compile(options, rule)) = TrustedBy(Identify(options))
           /\ Freshness(Compile(options, rule)) = Freshness(Identify(options))
           /\ Compile(options, rule).policy = Identify(options).policy
           /\ Compile(options, rule).verify = options.trust.verify
           /\ Compile(options, rule).behaviors = rule.behaviors
           /\ TRUST_RANK[Compile(options, rule).minLevel] = RankAsked(rule)
  <1>1. TRUST_RANK["software"] = 1
    BY DEF TRUST_RANK
  <1>2. TRUST_RANK[Compile(options, rule).minLevel] = RankAsked(rule)
    BY <1>1 DEF Compile, RankAsked
  <1> QED BY <1>2 DEF Compile, Identify, TrustedBy, Freshness

(* The rule that is looked up is one of the table, and its checker one     *)
(* that requireTrust can build.                                            *)
LEMMA RuleIsCompiled ==
    ASSUME NEW options \in Policies, NEW tool \in ToolNames, RuleFor(options, tool) # {}
    PROVE  LET rule == CHOOSE rule \in RuleFor(options, tool) : TRUE
           IN  /\ Compile(options, rule) \in OptionRecord(Key)
               /\ RankAsked(rule) \in Ranks
  <1> DEFINE rule == CHOOSE rule \in RuleFor(options, tool) : TRUE
             o == Compile(options, rule)
  <1>1. rule \in RuleFor(options, tool)
    OBVIOUS
  <1>2. o \in OptionRecord(Key)
    BY <1>1, PoliciesAreOptions
  <1>3. o.minLevel \in {"software", "cloud_attest", "tee", "tpm"}
    BY <1>2 DEF OptionRecord
  <1>4. TRUST_RANK[o.minLevel] \in Ranks
    BY <1>3, RanksAreNumbers
  <1>5. TRUST_RANK[o.minLevel] = RankAsked(rule)
    BY CompiledAlike
  <1> QED BY <1>2, <1>4, <1>5

(* What is told of a credential that a checker of the table has let        *)
(* through.                                                                *)
LEMMA AllowedIsVerified ==
    ASSUME IssuerInv, NEW options \in Policies, NEW o \in OptionRecord(Key),
           TrustedBy(o) = TrustedBy(Identify(options)),
           Freshness(o) = Freshness(Identify(options)),
           o.verify = options.trust.verify,
           NEW m, NEW c \in issued \cup {NoCredential, Malformed}, NEW b,
           NEW clock \in GateClock,
           Verdict(o, m, c, b, clock) = "allowed"
    PROVE  /\ c \in issued
           /\ IsStatusCredentialV1(c)
           /\ c.signature = SignWithPkcs8(c.publicKeyMultibase.key, c.payload)
           /\ c.signature.by \in TrustedBy(Identify(options))
           /\ c.publicKeyMultibase.key = c.signature.by
           /\ Suits(c.payload, TRUST_RANK[o.minLevel])
           /\ Freshness(Identify(options)) = "verified" /\ options.trust.verify.now = {} =>
                now - MaxSkew <= c.payload.expiresAt
  <1>1. /\ IsStatusCredentialV1(c)
        /\ Suits(c.payload, TRUST_RANK[o.minLevel])
        /\ o.policy # "offline" /\ o.verify.now = {} => ~(clock > c.payload.expiresAt)
    BY AllowedIsChecked
  <1>2. c \in issued
    BY <1>1 DEF IsStatusCredentialV1, NoCredential, Malformed
  <1>3. Signed(c) /\ now \in Nat
    BY <1>2 DEF IssuerInv, IssuerTypes
  <1>4. c.signature.by \in TrustedBy(o)
    BY <1>3, AllowedIsTrusted
  <1>5. /\ c.publicKeyMultibase.key = c.signature.by
        /\ c.signature = SignWithPkcs8(c.publicKeyMultibase.key, c.payload)
    BY <1>3 DEF Signed, Multibase
  <1>6. ASSUME Freshness(o) = "verified", o.verify.now = {}
        PROVE  now - MaxSkew <= c.payload.expiresAt
    <2>1. ~(clock > c.payload.expiresAt)
      BY <1>1, <1>6 DEF Freshness
    <2>2. PICK skew \in (0 - MaxSkew)..MaxSkew : clock = now + skew
      BY DEF GateClock
    <2>3. c.payload.expiresAt \in Int
      BY <1>3, TtlIsTime DEF Signed
    <2> QED BY <1>3, <2>1, <2>2, <2>3, SkewIsTime
  <1> QED BY <1>1, <1>2, <1>4, <1>5, <1>6

-----------------------------------------------------------------------------
(* Requests.                                                               *)

(* What was found out for a request stays true while others are handled    *)
(* and the issuers go on.                                                  *)
LEMMA RunKept ==
    ASSUME IInv, IssuerInv', IssuerMovesOn, NEW c \in Ran, UNCHANGED policy,
           request'[c] = request[c], trust'[c] = trust[c], decidedAt'[c] = decidedAt[c]
    PROVE  /\ RunBounded(c)' /\ CallerVerified(c)' /\ WithinBoundary(c)'
           /\ request'[c].tool \in ToolNames
  <1>1. RunBounded(c) /\ CallerVerified(c) /\ WithinBoundary(c)
    BY DEF IInv, GatedRunsBounded, IdentityIsVerified, BoundaryHonoured
  <1>2. c \in Call /\ request[c].tool \in ToolNames /\ policy \in Policies
    BY DEF IInv, DispatchTypes, Ran
  <1>3. RuleOf(c)' = RuleOf(c)
    BY DEF RuleOf
  <1>4. CallerVerified(c)'
    BY <1>1 DEF CallerVerified
  <1>5. WithinBoundary(c)'
    BY <1>1, <1>3 DEF WithinBoundary
  <1>6. RunBounded(c)'
    <2>1. RankAsked(RuleOf(c)) \in Ranks
      BY <1>1, <1>2, RuleIsCompiled DEF RunBounded, RuleOf
    <2>2. /\ lastSuited[RankAsked(RuleOf(c))] \in Int
          /\ lastSuited'[RankAsked(RuleOf(c))] \in Int
          /\ lastSuited'[RankAsked(RuleOf(c))] >= lastSuited[RankAsked(RuleOf(c))]
      BY <2>1 DEF IInv, IssuerInv, IssuerTypes, IssuerMovesOn
    <2>3. decidedAt[c] \in Nat
      BY <1>2 DEF IInv, DispatchTypes
    <2> QED BY <1>1, <1>3, <2>2, <2>3, TtlIsTime, SkewIsTime DEF RunBounded
  <1> QED BY <1>2, <1>4, <1>5, <1>6

(* What a request shows, by way of its lanes: something signed, or nothing *)
(* that passes; and the boundary declared in them.                         *)
LEMMA LanesLoseNothing ==
    ASSUME NEW asked \in Requests
    PROVE  /\ PresentationFromMcpRequest(asked).credential \in issued \cup {NoCredential, Malformed}
           /\ PresentationFromMcpRequest(asked).boundary = Declared(asked)
  <1>1. /\ asked.metaStatus \in issued \cup {NoCredential, Malformed}
        /\ asked.headerStatus \in issued \cup {NoCredential, Malformed}
        /\ asked.metaBoundary \in MetaBoundary /\ asked.headerBoundary \in HeaderBoundary
    BY DEF Requests
  <1>2. \A boundary \in {asked.metaBoundary, asked.headerBoundary} :
          boundary = NoBoundary \/ boundary = Scalar \/ boundary.kind = "object"
    BY <1>1, LanesShowBoundaries
  <1>3. NoBoundary.kind = "none" /\ Scalar.kind = "scalar"
    BY DEF NoBoundary, Scalar
  <1>4. PresentationFromMcpRequest(asked).credential
          = Or(asked.metaStatus, asked.headerStatus, NoCredential)
    BY DEF PresentationFromMcpRequest
  <1>5. PresentationFromMcpRequest(asked).credential \in issued \cup {NoCredential, Malformed}
    BY <1>1, <1>4 DEF Or
  <1>6. PresentationFromMcpRequest(asked).boundary = Declared(asked)
    BY <1>2, <1>3 DEF PresentationFromMcpRequest, Or, Declared
  <1> QED BY <1>5, <1>6

(* A request whose tool is run has been decided on by its rule.            *)
LEMMA RunIsDecided ==
    ASSUME IInv, NEW c \in Call, NEW asked \in Requests, NEW clock \in GateClock,
           GateToolCall(policy, asked.tool, PresentationFromMcpRequest(asked), clock).verdict
             = "allowed",
           UNCHANGED <<issuerVars, policy>>,
           request'[c] = Asked(asked.tool, asked.metaBoundary, asked.headerBoundary),
           trust'[c] = GateToolCall(policy, asked.tool, PresentationFromMcpRequest(asked), clock),
           decidedAt'[c] = now
    PROVE  /\ RunBounded(c)' /\ CallerVerified(c)' /\ WithinBoundary(c)'
           /\ request'[c].tool \in ToolNames
  <1> DEFINE tool == asked.tool
             rule == CHOOSE rule \in RuleFor(policy, tool) : TRUE
             shown == PresentationFromMcpRequest(asked)
             decided == GateToolCall(policy, tool, shown, clock)
             Decides(o) == Verdict(o, o.verify.minSerial, shown.credential, shown.boundary, clock)
  <1>1. /\ policy \in Policies /\ tool \in ToolNames
        /\ Identify(policy) \in OptionRecord(Key)
        /\ request'[c].tool = tool
    BY PoliciesAreOptions DEF IInv, DispatchTypes, Requests, Asked
  <1>2. RuleFor(policy, tool) # {}
    BY DEF GateToolCall, UnknownTool
  <1>3. RuleOf(c)' = rule
    BY <1>1 DEF RuleOf
  <1>4. Compile(policy, rule) \in OptionRecord(Key) /\ RankAsked(rule) \in Ranks
    BY <1>1, <1>2, RuleIsCompiled
  <1>5. shown.credential \in issued \cup {NoCredential, Malformed}
    BY LanesLoseNothing
  <1>6. decided = GateRule(policy, rule, shown, clock)
    BY <1>2 DEF GateToolCall
  <1> HIDE DEF rule
  <1>7. ASSUME ~rule.public
        PROVE  Decides(Compile(policy, rule)) = "allowed" /\ decided.identity = shown.credential
    BY <1>6, <1>7 DEF GateRule
  <1>8. ASSUME rule.public, decided.identity # NoCredential
        PROVE  Decides(Identify(policy)) = "allowed" /\ decided.identity = shown.credential
    BY <1>6, <1>8 DEF GateRule
  <1> HIDE DEF decided, shown
  <1>9. RunBounded(c)'
    <2> SUFFICES ASSUME ~rule.public, Freshness(Identify(policy)) = "verified",
                        policy.trust.verify.now = {},
                        TrustedBy(Identify(policy)) \subseteq PlatformKeys
                 PROVE  lastSuited[RankAsked(rule)] >= now - Ttl - MaxSkew
      BY <1>1, <1>2, <1>3 DEF RunBounded, issuerVars
    <2> DEFINE cred == shown.credential
    <2>1. /\ cred \in issued
          /\ cred.signature.by \in PlatformKeys
          /\ Suits(cred.payload, RankAsked(rule))
          /\ now - MaxSkew <= cred.payload.expiresAt
      BY <1>1, <1>4, <1>5, <1>7, CompiledAlike, AllowedIsVerified DEF IInv
    <2>2. Signed(cred) /\ now \in Nat /\ lastSuited[RankAsked(rule)] \in Int
      BY <1>4, <2>1 DEF IInv, IssuerInv, IssuerTypes
    <2>3. cred.signature.of = cred.payload
      BY <2>2 DEF Signed, SignWithPkcs8
    <2>4. lastSuited[RankAsked(rule)] >= cred.payload.serial
      BY <1>4, <2>1, <2>3 DEF IInv, IssuerInv, SignedTruth
    <2>5. cred.payload.serial \in Nat /\ cred.payload.expiresAt = cred.payload.serial + Ttl
      BY <2>2 DEF Signed
    <2> QED BY <2>1, <2>2, <2>4, <2>5, TtlIsTime, SkewIsTime
  <1>10. CallerVerified(c)'
    <2> DEFINE cred == shown.credential
    <2> SUFFICES ASSUME decided.identity # NoCredential
                 PROVE  /\ IsStatusCredentialV1(cred)
                        /\ cred.signature = SignWithPkcs8(cred.publicKeyMultibase.key, cred.payload)
                        /\ cred.publicKeyMultibase.key \in TrustedBy(Identify(policy))
                        /\ cred.payload.status = "active"
                        /\ Freshness(Identify(policy)) = "verified"
                             /\ policy.trust.verify.now = {} =>
                             now - MaxSkew <= cred.payload.expiresAt
      BY <1>7, <1>8 DEF CallerVerified, issuerVars, decided, shown
    <2>1. PICK o \in {Compile(policy, rule), Identify(policy)} : Decides(o) = "allowed"
      BY <1>7, <1>8
    <2>2. /\ o \in OptionRecord(Key)
          /\ TrustedBy(o) = TrustedBy(Identify(policy))
          /\ Freshness(o) = Freshness(Identify(policy))
          /\ o.verify = policy.trust.verify
      BY <1>1, <1>4, CompiledAlike DEF Identify
    <2> QED BY <1>1, <1>5, <2>1, <2>2, AllowedIsVerified DEF IInv, Suits
  <1>11. WithinBoundary(c)'
    <2>1. Declared(request[c])' = shown.boundary
      <3>1. Declared(request'[c]) = Declared(asked)
        BY DEF Declared, Asked
      <3> QED BY <3>1, LanesLoseNothing DEF shown
    <2>2. ASSUME ~rule.public, NEW permitted \in shown.boundary
          PROVE  rule.behaviors \subseteq permitted
      <3>1. ~OutOfBoundary(Compile(policy, rule), shown.boundary)
        BY <1>7, <2>2 DEF Verdict
      <3>2. Compile(policy, rule).behaviors = rule.behaviors
        BY CompiledAlike
      <3> QED BY <2>2, <3>1, <3>2 DEF OutOfBoundary
    <2> QED BY <1>3, <2>1, <2>2 DEF WithinBoundary
  <1> QED BY <1>1, <1>9, <1>10, <1>11

-----------------------------------------------------------------------------
(* The invariant.                                                          *)

(* At first nothing is asked.                                              *)
LEMMA InitIInv == Init => IInv
  <1> SUFFICES ASSUME Init PROVE IInv
    OBVIOUS
  <1>1. IssuerInv
    BY IssuerInitInv DEF Init
  <1>2. Ran = {}
    BY DEF Init, Ran, None
  <1> QED BY <1>1, <1>2 DEF IInv, DispatchTypes, Init, GatedRunsBounded, IdentityIsVerified,
                            BoundaryHonoured

(* A step keeps the invariant if each of the calls that then have run did  *)
(* so before, with the same decision, or has been decided on soundly.      *)
LEMMA RunsKept ==
    ASSUME IInv, IssuerNext \/ UNCHANGED issuerVars, UNCHANGED policy,
           UNCHANGED <<DOMAIN pc, DOMAIN request, DOMAIN trust, DOMAIN response>>,
           decidedAt' \in [Call -> Nat],
           \A c \in Ran' :
             \/ /\ c \in Ran
                /\ request'[c] = request[c] /\ trust'[c] = trust[c] /\ decidedAt'[c] = decidedAt[c]
             \/ /\ RunBounded(c)' /\ CallerVerified(c)' /\ WithinBoundary(c)'
                /\ request'[c].tool \in ToolNames
    PROVE  IInv'
  <1>1. IssuerInv' /\ IssuerMovesOn
    BY IssuerNextInv DEF IInv
  <1>2. \A c \in Ran' : /\ RunBounded(c)' /\ CallerVerified(c)' /\ WithinBoundary(c)'
                        /\ request'[c].tool \in ToolNames
    BY <1>1, RunKept
  <1>3. GatedRunsBounded' /\ IdentityIsVerified' /\ BoundaryHonoured'
    BY <1>2 DEF GatedRunsBounded, IdentityIsVerified, BoundaryHonoured
  <1>4. DispatchTypes'
    BY <1>2 DEF IInv, DispatchTypes
  <1> QED BY <1>1, <1>3, <1>4 DEF IInv

(* Every step preserves the invariant.                                     *)
LEMMA NextIInv == IInv /\ [Next]_vars => IInv'
  <1> SUFFICES ASSUME IInv, [Next]_vars PROVE IInv'
    OBVIOUS
  <1>0. /\ DOMAIN pc = Call /\ DOMAIN request = Call /\ DOMAIN trust = Call
        /\ DOMAIN response = Call /\ decidedAt \in [Call -> Nat] /\ now \in Nat
    BY DEF IInv, DispatchTypes, IssuerInv, IssuerTypes
  <1>1. CASE IssuerStep \/ Start \/ UNCHANGED vars
    <2>1. UNCHANGED <<policy, callVars>> /\ (IssuerNext \/ UNCHANGED issuerVars)
      BY <1>1 DEF IssuerStep, Start, vars
    <2>2. Ran' = Ran
      BY <2>1 DEF Ran, callVars
    <2> QED BY <1>0, <2>1, <2>2, RunsKept DEF callVars
  <1>2. ASSUME NEW c \in Call, NEW asked \in Requests, NEW clock \in GateClock,
               Receive(c, asked, clock)
        PROVE  IInv'
    <2> DEFINE decided == GateToolCall(policy, asked.tool, PresentationFromMcpRequest(asked), clock)
    <2>1. UNCHANGED <<issuerVars, policy>>
      BY <1>2 DEF Receive
    <2>2. CASE \E code \in Int : Respond(c, McpError(code)) /\ UNCHANGED <<request, trust, decidedAt>>
      <3>1. PICK code \in Int : Respond(c, McpError(code))
        BY <2>2
      <3>2. \A d \in Ran' : d \in Ran
        BY <1>0, <3>1 DEF Ran, Respond, McpError
      <3>3. UNCHANGED <<DOMAIN pc, DOMAIN response>>
        BY <3>1 DEF Respond
      <3> QED BY <1>0, <2>1, <2>2, <3>2, <3>3, RunsKept
    <2>3. CASE /\ decided.verdict = "allowed"
               /\ pc' = [pc EXCEPT ![c] = "running"]
               /\ request' = [request EXCEPT ![c] =
                                Asked(asked.tool, asked.metaBoundary, asked.headerBoundary)]
               /\ trust' = [trust EXCEPT ![c] = decided]
               /\ decidedAt' = [decidedAt EXCEPT ![c] = now]
               /\ UNCHANGED response
      <3> HIDE DEF decided
      <3>1. /\ request'[c] = Asked(asked.tool, asked.metaBoundary, asked.headerBoundary)
            /\ trust'[c] = decided
            /\ decidedAt'[c] = now
        BY <1>0, <2>3
      <3>2. /\ RunBounded(c)' /\ CallerVerified(c)' /\ WithinBoundary(c)'
            /\ request'[c].tool \in ToolNames
        BY <2>1, <2>3, <3>1, RunIsDecided DEF decided
      <3>3. \A d \in Ran' : d # c =>
              /\ d \in Ran
              /\ request'[d] = request[d] /\ trust'[d] = trust[d] /\ decidedAt'[d] = decidedAt[d]
        BY <1>0, <2>3 DEF Ran
      <3>4. decidedAt' \in [Call -> Nat] /\ UNCHANGED <<DOMAIN pc, DOMAIN request, DOMAIN trust>>
        BY <1>0, <2>3
      <3> QED BY <2>1, <2>3, <3>2, <3>3, <3>4, RunsKept
    <2> QED BY <1>2, <2>2, <2>3 DEF Receive, UNKNOWN_TOOL_CODE, TRUST_DENIED_CODE
  <1>3. ASSUME NEW c \in Call, NEW throws \in BOOLEAN, HandlerSettles(c, throws)
        PROVE  IInv'
    <2>1. /\ UNCHANGED <<issuerVars, policy, request, trust, decidedAt>>
          /\ c \in Ran
          /\ Respond(c, McpResult(throws))
      BY <1>3 DEF HandlerSettles, Ran
    <2>2. \A d \in Ran' : d \in Ran
      BY <1>0, <2>1 DEF Ran, Respond
    <2>3. UNCHANGED <<DOMAIN pc, DOMAIN response>>
      BY <2>1 DEF Respond
    <2> QED BY <1>0, <2>1, <2>2, <2>3, RunsKept
  <1> QED BY <1>1, <1>2, <1>3 DEF Next

(* The invariant holds in every state.                                     *)
LEMMA Invariance == Spec => []IInv
  <1>1. Init => IInv
    BY InitIInv
  <1>2. IInv /\ [Next]_vars => IInv'
    BY NextIInv
  <1> QED BY <1>1, <1>2, PTL DEF Spec

-----------------------------------------------------------------------------

(* No gated tool runs but for a certificate that was active, at the level  *)
(* of the tool's rule, a TTL and the clocks' distance before the decision  *)
(* at the earliest; and none runs that no rule knows.                      *)
THEOREM GatedToolsRunInTime == Spec => []GatedRunsBounded
  <1>1. IInv => GatedRunsBounded
    BY DEF IInv
  <1> QED BY <1>1, Invariance, PTL

(* A handler is told of a caller only what a trusted key has signed, of an *)
(* active standing, alive when the decision was made; in the open tier     *)
(* too.                                                                    *)
THEOREM CallersAreVerified == Spec => []IdentityIsVerified
  <1>1. IInv => IdentityIsVerified
    BY DEF IInv
  <1> QED BY <1>1, Invariance, PTL

(* The boundary declared in either lane keeps a request from every gated   *)
(* tool that goes beyond it.                                               *)
THEOREM BoundariesAreKept == Spec => []BoundaryHonoured
  <1>1. IInv => BoundaryHonoured
    BY DEF IInv
  <1> QED BY <1>1, Invariance, PTL
=============================================================================

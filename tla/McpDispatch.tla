----------------------------- MODULE McpDispatch -----------------------------
(***************************************************************************)
(* The MCP adapter (packages/adapters/src/mcp.ts): a table of tool rules   *)
(* compiled into one requireTrust checker per tool, and the dispatcher     *)
(* that gates each tools/call request before it awaits the tool's handler. *)
(*                                                                         *)
(* A request shows a status credential and a behaviour boundary in two     *)
(* lanes, params._meta and the HTTP headers.  A lane that is absent, null  *)
(* or does not decode shows nothing.  Everything up to the handler's call  *)
(* is one synchronous step; the handler then takes its time, while         *)
(* credentials expire and the certificate's standing changes.  Handlers    *)
(* are not under src/: one returns or throws.                              *)
(***************************************************************************)
EXTENDS StatusIssuer

CONSTANTS
    Call,          \* the tools/call requests
    Policies,      \* the McpPolicyOptions a server may be started with
    Handlers,      \* the tools that have a handler
    ToolNames,     \* the names requests bear; Missing stands for none
    MetaBoundary,  \* what the _meta lane may show as a boundary
    HeaderBoundary \* what the header lane may show

(* Options are [tools, default, trust]: a function from tool names to      *)
(* rules, an optional rule, and [policy, issuerKeys, verify].  A rule is   *)
(* [public, minLevel, behaviors], minLevel optional.                       *)

Missing == ""

-----------------------------------------------------------------------------
(* defineToolPolicy.                                                       *)

(* Mutant: the shared options are not overridden by the rule's level. *)
CompileShared(options, rule) ==
    [policy     |-> options.trust.policy,
     minLevel   |-> "software",
     behaviors  |-> rule.behaviors,
     issuerKeys |-> options.trust.issuerKeys,
     verify     |-> options.trust.verify]

Compile(options, rule) ==
    [policy     |-> options.trust.policy,
     minLevel   |-> IF rule.minLevel = {} THEN "software" ELSE CHOOSE l \in rule.minLevel : TRUE,
     behaviors  |-> rule.behaviors,
     issuerKeys |-> options.trust.issuerKeys,
     verify     |-> options.trust.verify]

Identify(options) == Compile(options, [minLevel |-> {}, behaviors |-> {}])

RuleFor(options, tool) ==
    IF tool \in DOMAIN options.tools THEN {options.tools[tool]} ELSE options.default

ASSUME PoliciesAreOptions ==
    \A options \in Policies :
      /\ Identify(options) \in OptionRecord(Key)
      /\ \A tool \in ToolNames : \A rule \in RuleFor(options, tool) :
           Compile(options, rule) \in OptionRecord(Key)

-----------------------------------------------------------------------------
(* presentationFromMcpRequest.  A boundary is nothing, a JSON value that   *)
(* is not an object (only _meta lets one through), or an object whose      *)
(* permissions are optional.                                               *)

NoBoundary == [kind |-> "none"]
Scalar == [kind |-> "scalar"]
Permitting(permissions) == [kind |-> "object", permissions |-> permissions]

ASSUME LanesShowBoundaries ==
    \A boundary \in MetaBoundary \cup HeaderBoundary :
      \/ boundary \in {NoBoundary, Scalar}
      \/ boundary \in [kind : {"object"}, permissions : SUBSET SUBSET STRING]

Or(first, second, nothing) == IF first = nothing THEN second ELSE first

(* Mutant: the boundary is looked for in _meta only. *)
PresentationFromMeta(request) ==
    [credential |-> Or(request.metaStatus, request.headerStatus, NoCredential),
     boundary   |-> IF request.metaBoundary.kind = "object"
                    THEN request.metaBoundary.permissions ELSE {}]

PresentationFromMcpRequest(request) ==
    LET boundary == Or(request.metaBoundary, request.headerBoundary, NoBoundary)
    IN  [credential |-> Or(request.metaStatus, request.headerStatus, NoCredential),
         boundary   |-> IF boundary.kind = "object" THEN boundary.permissions ELSE {}]

-----------------------------------------------------------------------------
(* gateToolCall.  identity is the credential the caller is known by.       *)

(* Mutant: the open tier believes what it is shown. *)
GateRuleTrusting(options, rule, presentation, clock) ==
    LET checker == Compile(options, rule)
    IN  [verdict  |-> IF rule.public THEN "allowed"
                      ELSE Verdict(checker, checker.verify.minSerial,
                                   presentation.credential, presentation.boundary, clock),
         tier     |-> IF rule.public THEN "public" ELSE "gated",
         identity |-> presentation.credential]

GateRule(options, rule, presentation, clock) ==
    LET VerdictOf(checker) ==
          Verdict(checker, checker.verify.minSerial, presentation.credential,
                  presentation.boundary, clock)
    IN  IF rule.public
        THEN [verdict  |-> "allowed",
              tier     |-> "public",
              identity |-> IF VerdictOf(Identify(options)) = "allowed"
                           THEN presentation.credential ELSE NoCredential]
        ELSE [verdict  |-> VerdictOf(Compile(options, rule)),
              tier     |-> "gated",
              identity |-> presentation.credential]

UnknownTool == [verdict |-> "unknown_tool", tier |-> "none", identity |-> NoCredential]

GateToolCall(options, tool, presentation, clock) ==
    IF RuleFor(options, tool) = {} THEN UnknownTool
    ELSE GateRule(options, CHOOSE rule \in RuleFor(options, tool) : TRUE, presentation, clock)

-----------------------------------------------------------------------------

VARIABLES
    server,        \* down, up, or refused to start
    policy,        \* the options it was started with
    pc,            \* each request: idle, running (in its handler), done
    request,       \* what the handler is called with, but for the status lanes
    trust,         \* the decision, which the handler is given as its context
    decidedAt,     \* history: when it was made
    response       \* what the dispatcher answered

callVars == <<pc, request, trust, decidedAt, response>>
vars == <<issuerVars, server, policy, callVars>>

None == [kind |-> "none"]

(* JSON-RPC: a protocol error with its code, or a result of the tool. *)
McpError(code) == [kind |-> "error", code |-> code]
McpResult(isError) == [kind |-> "result", isError |-> isError]

UNKNOWN_TOOL_CODE == -32602
TRUST_DENIED_CODE == -32003

Init ==
    /\ IssuerInit
    /\ server = "down"
    /\ policy \in Policies
    /\ pc = [c \in Call |-> "idle"]
    /\ request = [c \in Call |-> None]
    /\ trust = [c \in Call |-> UnknownTool]
    /\ decidedAt = [c \in Call |-> 0]
    /\ response = [c \in Call |-> None]

IssuerStep == IssuerNext /\ UNCHANGED <<server, policy, callVars>>

(* wrapToolHandler compiles the table: a policy that cannot be built       *)
(* keeps the server from starting.                                         *)
Start ==
    /\ server = "down"
    /\ server' = IF Buildable(Identify(policy)) THEN "up" ELSE "refused"
    /\ UNCHANGED <<issuerVars, policy, callVars>>

Requests ==
    [tool : ToolNames,
     metaStatus : issued \cup {NoCredential, Malformed},
     headerStatus : issued \cup {NoCredential, Malformed},
     metaBoundary : MetaBoundary,
     headerBoundary : HeaderBoundary]

Asked(tool, metaBoundary, headerBoundary) ==
    [tool |-> tool, metaBoundary |-> metaBoundary, headerBoundary |-> headerBoundary]

Respond(c, answer) ==
    /\ pc' = [pc EXCEPT ![c] = "done"]
    /\ response' = [response EXCEPT ![c] = answer]

(* The dispatcher, up to its await. *)
Receive(c, asked, clock) ==
    LET decision == GateToolCall(policy, asked.tool, PresentationFromMcpRequest(asked), clock)
    IN  /\ server = "up"
        /\ pc[c] = "idle"
        /\ \/ /\ asked.tool \notin Handlers
              /\ Respond(c, McpError(UNKNOWN_TOOL_CODE))
              /\ UNCHANGED <<request, trust, decidedAt>>
           \/ /\ asked.tool \in Handlers
              /\ decision.verdict # "allowed"
              /\ Respond(c, McpError(IF decision.verdict = "unknown_tool"
                                     THEN UNKNOWN_TOOL_CODE ELSE TRUST_DENIED_CODE))
              /\ UNCHANGED <<request, trust, decidedAt>>
           \/ /\ asked.tool \in Handlers
              /\ decision.verdict = "allowed"
              /\ pc' = [pc EXCEPT ![c] = "running"]
              /\ request' = [request EXCEPT ![c] =
                               Asked(asked.tool, asked.metaBoundary, asked.headerBoundary)]
              /\ trust' = [trust EXCEPT ![c] = decision]
              /\ decidedAt' = [decidedAt EXCEPT ![c] = now]
              /\ UNCHANGED response
        /\ UNCHANGED <<issuerVars, server, policy>>

(* The handler settles: its exception is a result too. *)
HandlerSettles(c, throws) ==
    /\ pc[c] = "running"
    /\ Respond(c, McpResult(throws))
    /\ UNCHANGED <<issuerVars, server, policy, request, trust, decidedAt>>

Next ==
    \/ IssuerStep
    \/ Start
    \/ \E c \in Call, asked \in Requests, clock \in GateClock : Receive(c, asked, clock)
    \/ \E c \in Call, throws \in BOOLEAN : HandlerSettles(c, throws)

Spec == Init /\ [][Next]_vars

-----------------------------------------------------------------------------
(* Properties.                                                             *)

Ran == {c \in Call : pc[c] = "running" \/ response[c].kind = "result"}

RuleOf(c) == CHOOSE rule \in RuleFor(policy, request[c].tool) : TRUE

(* The least rank a rule lets in; "software" when it names no level.       *)
RankAsked(rule) ==
    IF rule.minLevel = {} THEN 1 ELSE TRUST_RANK[CHOOSE level \in rule.minLevel : TRUE]

RunBounded(c) ==
    /\ RuleFor(policy, request[c].tool) # {}
    /\ (/\ ~RuleOf(c).public
        /\ Freshness(Identify(policy)) = "verified"
        /\ policy.trust.verify.now = {}
        /\ TrustedBy(Identify(policy)) \subseteq PlatformKeys)
       => lastSuited[RankAsked(RuleOf(c))] >= decidedAt[c] - Ttl - MaxSkew

CallerVerified(c) ==
    LET shown == trust[c].identity
    IN  shown # NoCredential =>
          /\ IsStatusCredentialV1(shown)
          /\ shown.signature = SignWithPkcs8(shown.publicKeyMultibase.key, shown.payload)
          /\ shown.publicKeyMultibase.key \in TrustedBy(Identify(policy))
          /\ shown.payload.status = "active"
          /\ Freshness(Identify(policy)) = "verified" /\ policy.trust.verify.now = {} =>
               decidedAt[c] - MaxSkew <= shown.payload.expiresAt

Declared(asked) ==
    CASE asked.metaBoundary.kind = "object" -> asked.metaBoundary.permissions
      [] asked.metaBoundary.kind = "none" /\ asked.headerBoundary.kind = "object" ->
           asked.headerBoundary.permissions
      [] OTHER -> {}

WithinBoundary(c) ==
    ~RuleOf(c).public =>
      \A permitted \in Declared(request[c]) : RuleOf(c).behaviors \subseteq permitted

(* No tool runs that neither the table nor a default rule knows, and a     *)
(* gated one only for a certificate that was active, at the level the      *)
(* tool's own rule asks for (the default rule's, for a tool that has       *)
(* none), at most a TTL and the clocks' distance before the decision: the  *)
(* compiled table, the lookup and the two lanes lose nothing of what       *)
(* requireTrust promises.                                                  *)
GatedRunsBounded == \A c \in Ran : RunBounded(c)

(* A handler that is told who calls it, in the open tier too, is told on   *)
(* the strength of an active credential by a trusted key that was still    *)
(* alive when the decision was made, never of whatever a lane showed.      *)
IdentityIsVerified == \A c \in Ran : CallerVerified(c)

(* The boundary an agent declares in one lane, the other showing nothing,  *)
(* or in both, _meta first, keeps it from a gated tool that exercises any  *)
(* behaviour outside.                                                      *)
BoundaryHonoured == \A c \in Ran : WithinBoundary(c)
=============================================================================

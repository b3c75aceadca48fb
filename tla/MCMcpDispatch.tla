---------------------------- MODULE MCMcpDispatch ----------------------------
(***************************************************************************)
(* A small MCP server for TLC: an open tool, a gated one, and one that is  *)
(* served but not declared, under a policy that pins the platform's keys,  *)
(* with and without a default rule, or that forgets the pins.              *)
(***************************************************************************)
EXTENDS McpDispatch

NoVerify == [now |-> {}, expectedIssuer |-> {}, trustedKeys |-> {}, minSerial |-> {}]

Rule(public, level, behaviors) ==
    [public |-> public, minLevel |-> level, behaviors |-> behaviors]

Pinning(pins) == [policy |-> "pinned", issuerKeys |-> pins, verify |-> NoVerify]

WithDefault ==
    [tools   |-> [read  |-> Rule(TRUE, {}, {}), write |-> Rule(FALSE, {"tee"}, {"write"})],
     default |-> {Rule(FALSE, {}, {})},
     trust   |-> Pinning({Multibase("k1", "standard")})]

FailClosed == [WithDefault EXCEPT !.default = {}]

Unbuildable == [WithDefault EXCEPT !.trust = Pinning({})]

MCPolicies == {WithDefault, FailClosed, Unbuildable}

MCHandlers == {"read", "write", "other"}
MCToolNames == MCHandlers \cup {Missing}

MCHeaderBoundary == {NoBoundary, Permitting({{"read"}})}
MCMetaBoundary == MCHeaderBoundary \cup {Scalar, Permitting({{"read", "write"}})}
=============================================================================

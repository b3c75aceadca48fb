SPECIFICATION Spec
CONSTANTS
    PlatformKeys = {"k1"}
    OtherKeys = {"o1"}
    Levels = {"software", "tee"}
    Ttl = 1
    MaxSkew = 0
    MaxTime = 3
    MaxIssued = 1
    Call = {c1}
    Policies <- MCPolicies
    Handlers <- MCHandlers
    ToolNames <- MCToolNames
    MetaBoundary <- MCMetaBoundary
    HeaderBoundary <- MCHeaderBoundary
INVARIANTS
    GatedRunsBounded
    IdentityIsVerified
    BoundaryHonoured
CHECK_DEADLOCK FALSE

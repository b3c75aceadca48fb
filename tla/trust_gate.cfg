SPECIFICATION GateSpec
CONSTANTS
    PlatformKeys = {"k1", "k2"}
    OtherKeys = {"o1"}
    Options <- MCOptions
    Tracking <- MCTracking
    Levels = {"tee"}
    Boundary <- MCBoundary
    Ttl = 1
    MaxSkew = 1
    MaxTime = 4
    MaxIssued = 2
    MaxBuilt = 1
INVARIANTS
    StaleAllowBounded
    FreshCredentialAdmits
PROPERTY
    SerialsNeverDecrease
CHECK_DEADLOCK FALSE

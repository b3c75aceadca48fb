SPECIFICATION ProbeSpec
CONSTANTS
    SaneTtl = 2
    PlatformKeys = {"k1", "k2"}
    OtherKeys = {"o1"}
    Levels = {"software"}
    Ttl = 1
    MaxSkew = 1
    MaxTime = 4
    MaxIssued = 1
    GateOptions <- MCGateOptions
    Exports <- MCExports
    Verify <- MCVerify
    OwnIndex <- MCOwnIndex
    Neighbours <- MCNeighbours
    ListBytes = 2
    MaxChecks = 1
INVARIANTS
    ActiveIsRecent
    RevokedIsTrue
    RevocationReported
    PortDecidesAlike
    FrontsAnswerAlike
    ProbeIsFair
CHECK_DEADLOCK FALSE

SPECIFICATION ProbeSpec
CONSTANTS
    SaneTtl = 2
    PlatformKeys = {"k1"}
    OtherKeys = {"o1"}
    Levels = {"software"}
    Ttl = 1
    MaxSkew = 1
    MaxTime = 4
    MaxIssued = 1
    GateOptions <- MCGateOptions
    Exports <- MCOneOfEach
    Verify <- MCVerify
    OwnIndex <- MCOwnIndex
    Neighbours <- MCNeighbours
    ListBytes = 2
    MaxChecks = 1
INVARIANT
    FailuresReported
CHECK_DEADLOCK FALSE

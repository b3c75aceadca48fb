SPECIFICATION AuditSpec
CONSTANTS
    MaxLeaves = 19
    MaxSearch = 6
    MaxCredit = 5
    MaxPath = 4
    WordSize = 16
    LOG_ID = "https://www.jiaozi.io/api/tlog"
    SigningKey = signingKey
INVARIANTS
    HonestProofsVerify
    InclusionProofsExact
    ConsistencyProofsExact
    RefereeAgrees
    VectorsDecide
    CreditProofsExact
CHECK_DEADLOCK FALSE

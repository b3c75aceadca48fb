SPECIFICATION FairSpec
CONSTANTS
    Appenders = {a1, a2}
    Signers = {s1}
    Readers = {r1}
    Storers = {d1}
    Input <- MCTwoInputs
    Query <- MCQuery
    DirectHeads <- MCSmallHead
INVARIANT
    ProofsVerifyAgainstSths
PROPERTY
    EveryCallSettles
CHECK_DEADLOCK FALSE

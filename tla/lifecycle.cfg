SPECIFICATION Spec
CONSTANTS
    OwnerKeys = {k1, k2, k3}
    Trees <- MCTrees
    Chains <- MCChains
    CoreHost <- MCCoreHost
    MaxEdits = 1
SYMMETRY KeySymmetry
INVARIANTS
    OneCurrentKey
    OwnerKeepsControl
    SummaryHolds
    EvidenceHolds
    ReadersAgree
CHECK_DEADLOCK FALSE

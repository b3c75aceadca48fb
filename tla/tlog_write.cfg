SPECIFICATION Spec
CONSTANTS
    Appenders = {a1, a2, a3}
    Signers = {s1, s2}
    Readers = {}
    Storers = {}
    Input <- MCInput
    Query <- MCNone
    DirectHeads <- MCNone
INVARIANTS
    TypeOK
    IndexesAgree
    AppendAnswersHold
    SthsCommitToPrefixes
    SthSizesNeverRegress
    SigningInOrder
    SigningNeverFails
PROPERTY
    KeepsThePromise
CHECK_DEADLOCK FALSE
SYMMETRY MCSymmetry

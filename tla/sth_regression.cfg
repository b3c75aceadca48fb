SPECIFICATION Spec
CONSTANTS
    Appenders = {}
    Signers = {}
    Readers = {}
    Storers = {d1, d2}
    Input <- MCNone
    Query <- MCNone
    DirectHeads <- MCDirectHeads
INVARIANT
    SthSizesNeverRegress
CHECK_DEADLOCK FALSE

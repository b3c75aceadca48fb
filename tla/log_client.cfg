SPECIFICATION Spec
CONSTANTS
    Branches <- MCBranches
    Log <- MCLog
    Others <- MCOthers
    MaxSize = 4
INVARIANTS
    AcceptedInOrder
    AcceptedHeadsAgree
    HonestLogNeverAccused
CHECK_DEADLOCK FALSE

SPECIFICATION TimedSpec
CONSTANTS
    Anchors <- MCTwoAnchors
    MaxVersion = 1
PROPERTY
    ResolutionSettles
CHECK_DEADLOCK FALSE

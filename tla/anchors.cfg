SPECIFICATION FairSpec
CONSTANTS
    Anchors <- MCAnchors
    MaxVersion = 3
INVARIANTS
    TypeOK
    FallbackOnlyOnFailure
    CurrentUnlessDegraded
PROPERTY
    ResolutionSettles
CHECK_DEADLOCK FALSE

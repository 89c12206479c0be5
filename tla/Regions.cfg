SPECIFICATION Spec
CONSTANTS
    Objects = {o1, o2, o3}
    MaxDepth = 2
    MaxNesting = 5
SYMMETRY Symmetric
INVARIANTS
    TypeOK
    NoPrematureFree
    NoLeakWhenBalanced
    FramesHoldLive
PROPERTY ImplementsScopes
CHECK_DEADLOCK FALSE

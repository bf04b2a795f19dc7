CONSTANTS
    follows = follows
    knows = knows
    Records = {1, 2, 3, 4}
    Dumped <- MCDumped
    Collections = {follows, knows}
    Directed = {follows}
    Pinned = {follows, knows}
    Pool <- MCPool
    Traversals <- MCTraversals
    RelationBound = 2
    DepthBound = 3
    PageSize = 4
    MaxPaths = 4
SPECIFICATION TraversalSpec
INVARIANTS
    TraversalTypeOK
    WalkIsExact
    NearestIsFound
CHECK_DEADLOCK FALSE

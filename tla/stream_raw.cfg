CONSTANTS
    t1 = t1
    t2 = t2
    p1 = p1
    p2 = p2
    p3 = p3
    None = None
    NoEntry = NoEntry
    Database = "cockroachdb"
    LogIds <- MCSources
    Deployed <- MCPostOnly
    Ticks <- MCTicks
    Posts <- MCPosts
    MaxMatches = 2
    PostModes <- MCRaw
SPECIFICATION Spec
INVARIANT PostsStored
SYMMETRY MCSymmetry
CHECK_DEADLOCK FALSE

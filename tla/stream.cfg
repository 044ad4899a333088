CONSTANTS
    t1 = t1
    t2 = t2
    p1 = p1
    p2 = p2
    p3 = p3
    None = None
    NoEntry = NoEntry
    Database = "cockroachdb"
    LogIds <- MCSources
    Deployed <- MCDeployed
    Ticks <- MCTicks
    Posts <- MCPosts
    MaxMatches = 2
    PostModes <- MCPostModes
SPECIFICATION Spec
INVARIANTS
    TypeOK
    LogNotAhead
    StatsNotAhead
    PostStoredOnce
SYMMETRY MCSymmetry
CHECK_DEADLOCK FALSE

SPECIFICATION FairSpec
CONSTANTS
    p1 = p1
    p2 = p2
    Lanes <- MCLanes
    Bundles <- MCBundles
    MaxWorkers = 2
    Pids = {p1, p2}
INVARIANTS TypeOK LanesAccounted WorkersAccounted ExitMeansZips
PROPERTY PoolEnds
CHECK_DEADLOCK FALSE

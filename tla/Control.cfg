SPECIFICATION FairSpec
CONSTANTS
    Requests = {r1, r2}
    Closers = {c1, c2}
    None = None
INVARIANTS StatusIsOfTheRun CloseMeansQuiet
PROPERTIES NothingIsStuck
CHECK_DEADLOCK FALSE

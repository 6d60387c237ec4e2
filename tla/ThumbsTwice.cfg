SPECIFICATION Spec
CONSTANTS
    w1 = w1  w2 = w2  c1 = c1  page = page  cover = cover  None = None
    Workers = {w1}
    Callers = {c1}
    Sources <- OnePage
    Loose = {}
    Broken <- BrokenPage
    Permits = 1
    PageQueueMax = 1
    Attempts = 2
    MaxVersion = 1
    MaxStrikes = 0
INVARIANT CachedIsNotRegenerated
CHECK_DEADLOCK FALSE

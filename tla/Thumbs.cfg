SPECIFICATION Spec
CONSTANTS
    w1 = w1  w2 = w2  c1 = c1  page = page  cover = cover  None = None
    Workers = {w1, w2}
    Callers = {c1}
    Sources <- OnePage
    Loose = {}
    Broken <- BrokenPage
    Permits = 2
    PageQueueMax = 1
    Attempts = 2
    MaxVersion = 2
    MaxStrikes = 0
INVARIANTS OneFlightPerKey QueuesAgree PicturesAreCurrent NobodySleepsOnWork
SYMMETRY Symmetry
VIEW View
CHECK_DEADLOCK FALSE

SPECIFICATION Spec
CONSTANTS
    Pages <- MixedPages
    Containers <- OneContainer
    Workers = {w1, w2}
    BookBuffer = 1
    ResultBuffer = 1
    PageLimit = 3
SYMMETRY Symmetry
INVARIANTS CancelledSeriesNotWritten
CHECK_DEADLOCK FALSE

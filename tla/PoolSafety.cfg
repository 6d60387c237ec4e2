SPECIFICATION Spec
CONSTANTS
    Paths = {p1, p2}
    Callers = {c1, c2}
    Descriptors = {d1, d2, d3, d4, d5}
    MaxOpen = 1
    MaxVersion = 2
    None = None
SYMMETRY Symmetry
VIEW View
INVARIANTS BorrowedStaysOpen PoolConsistent ListingMatchesRecord

SPECIFICATION LibrarySpec
CONSTANTS
    A = A
    B = B
    C = C
    p = p
    q = q
    tp = tp
    f = f
    g = g
    h = h
    None = None
    Roots <- TwoRoots
    Paths = {p, q, tp}
    Files = {f, g}
    Volumes <- TheirChapters
    Untagged <- Tagged
    Start <- AtTag
    Moves <- Backward
    Events = {"upgrade"}
    MaxReads = 2
INVARIANTS HistoryFollows PlaceIsOfTheFile
PROPERTIES RepairsAreExact HistoryIsKept

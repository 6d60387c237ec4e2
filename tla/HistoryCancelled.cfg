SPECIFICATION Spec
CONSTANTS
    A = A
    B = B
    C = C
    p = p
    q = q
    tp = tp
    f = f
    g = g
    None = None
    Roots <- TwoRoots
    Paths = {p, q}
    Files = {f, g}
    Volumes <- Chapters
    Untagged <- Plain
    Start <- OneEach
    Moves <- WithinRoot
    Events = {"cancel"}
    MaxReads = 1
PROPERTY PurgedIsNowhere

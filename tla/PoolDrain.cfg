SPECIFICATION FairSpec
CONSTANTS
    Paths = {p1, p2, p3}
    Callers = {c1, c2}
    Descriptors = {d1, d2, d3}
    MaxOpen = 1
    MaxVersion = 1
    None = None
VIEW View
PROPERTIES CapacityKept CloseDrainsAll

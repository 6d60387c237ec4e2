SPECIFICATION Spec
CONSTANTS
    Paths = {p1}
    Callers = {c1, c2, c3}
    Descriptors = {d1, d2, d3, d4}
    MaxOpen = 1
    MaxVersion = 2
    None = None
SYMMETRY Symmetry
VIEW View
INVARIANTS SecondMismatchMeansChanged

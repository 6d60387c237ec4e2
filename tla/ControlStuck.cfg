SPECIFICATION Spec
CONSTANTS
    Requests = {r1, r2}
    Closers = {c1}
    None = None
SYMMETRY Symmetry
INVARIANTS FinishedIsIdle
CHECK_DEADLOCK FALSE

SPECIFICATION BackgroundSpec
CONSTANTS
  Callers = {c1, c2, c3}
  Closers = {k1, k2}
  Workers = 1
  MaxRuntimes = 2
  Books = {b1}
  Unreadable = {2}
  PassBatch = 1
  MaxPages = 3
  MaxVersion = 2
  MaxRuns = 2
  MaxPending = 1
INVARIANTS RuntimeIsHeld DimsAgree
PROPERTIES CloseReturns RunsAsPromised OpenedIsMeasured
CHECK_DEADLOCK FALSE

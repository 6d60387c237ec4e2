SPECIFICATION Spec
CONSTANTS
  Paths <- MCPaths
  Slug <- MCSlug
  Below <- MCBelow
  Reachable <- MCPaths
  StorageUnder = {}
  FileUnder = {}
  InitialFile <- MCInitial
  MaxSuffix = 3
  MaxRoots = 3
  MaxEdits = 1
  MaxRequests = 2
  MaxScans = 1
  MaxStarts = 2
  Indents = {0, 2}
  MaxLines = 6
  RootOf <- TwoAndOne
  SeenClock = 4
  Books = {b1}
  Clients = {c1}
  Options = {"fit"}
  MaxLength = 2
  UserClock = 3
  Services = {"roots"}
INVARIANTS DeletedStaysGone
CHECK_DEADLOCK FALSE

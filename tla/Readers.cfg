SPECIFICATION Spec
CONSTANTS
  Payloads = {0, 1, 2}
  MaxEntries = 3
  TailSmall = 1
  TailLarge = 3
  MaxDir = 9
  Wrap = 3
  Saturated = 99
  HvPayloads = {0, 1, 2}
  MaxFiles = 2
  Window = 5
  Modes = {0, 2, 7}
  RarPayloads = {0, 1, 3}
  MaxRar = 2
  Low = 2
  Sizes = {0, 1, 4, 6}
  Lengths = {0, 1, 3, 4, 5, 6, 7}
  MaxRead = 4
  tailWindow = 2
  Alphabet = {43, 48, 49, 65, 97, 65297, 1114367}
  MaxName = 3
  CountBase = 2
  Dirs <- MCDirs
  FileNames = {1, 2}
  OddKinds = {"zip", "foreign", "locked"}
  MaxWeight = 4
  GlobFile = 2
  Places <- MCPlaces
  KindOf <- MCKinds
  BaseName = 9
  MaxDepth = 1
  CoverMaxLoose = 1
  MaxEdits = 2
  SameSecond = FALSE
  Readers = {"zip", "hv", "rar", "nested", "names", "container", "scan"}
INVARIANTS ZipIsRead HvIsRead RarIsRead NestedIsTrue SortKeyAgrees ContainerIsRead IncrementalIsFull
PROPERTY UnchangedIsKept
CHECK_DEADLOCK FALSE

\* Two phones; a story of one image in two chunks; one connection may break.
SPECIFICATION Spec
CONSTANTS
  HostConn = tab
  Phone = {p1, p2}
  NoConn = NoConn
  Image = {i1}
  Snapshot <- OneSnapshot
  ChunkBytes = 1
  MaxImageBytes = 2
  MaxTotalBytes = 2
  MaxLosses = 1
SYMMETRY Symmetry
VIEW View
INVARIANTS
  TypeOK
  WaiterIsShown
PROPERTIES
  StoryNeedsConsent
  StoryIsWellFormed
  BlamedForStaleAnswers
CHECK_DEADLOCK FALSE

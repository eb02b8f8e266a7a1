\* One phone, every connection of the system may break.
SPECIFICATION FairSpec
CONSTANTS
  HostConn = tab
  Phone = {p1}
  NoConn = NoConn
  Image = {i1}
  Snapshot <- OneSnapshot
  ChunkBytes = 1
  MaxImageBytes = 2
  MaxTotalBytes = 2
  MaxLosses = 2
PROPERTIES
  LoadSettles
  TabMovesOn
CHECK_DEADLOCK FALSE

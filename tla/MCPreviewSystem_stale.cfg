\* A phone leaves before the creator answers.
SPECIFICATION Spec
CONSTANTS
  HostConn = tab
  Phone = {p1}
  NoConn = NoConn
  Image = {i1}
  Snapshot <- OneSnapshot
  ChunkBytes = 1
  MaxImageBytes = 1
  MaxTotalBytes = 1
  MaxLosses = 0
PROPERTY HonestHostIsNeverAtFault
CHECK_DEADLOCK FALSE

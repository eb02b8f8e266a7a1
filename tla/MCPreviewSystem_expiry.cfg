\* The session of a phone expires.
SPECIFICATION Spec
CONSTANTS
  HostConn = tab
  Phone = {p1}
  NoConn = NoConn
  Image = {i1}
  Snapshot <- OneSnapshot
  ChunkBytes = 1
  MaxImageBytes = 1
  MaxTotalBytes = 1
  MaxLosses = 0
PROPERTY ExpiryIsTold
CHECK_DEADLOCK FALSE

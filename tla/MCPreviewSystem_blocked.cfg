\* The session ends while an answer is being prepared.
SPECIFICATION Spec
CONSTANTS
  HostConn = tab
  Phone = {p1}
  NoConn = NoConn
  Image = {i1}
  Snapshot <- OneSnapshot
  ChunkBytes = 1
  MaxImageBytes = 1
  MaxTotalBytes = 1
  MaxLosses = 0
INVARIANT SendBlockedIsConnected
CHECK_DEADLOCK FALSE

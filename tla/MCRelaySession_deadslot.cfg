\* One host and two viewers: the first disconnects while its hello is verified.
SPECIFICATION Spec
CONSTANTS
  Conn = {c1, c2, c3}
  NoConn = NoConn
  Image = {i1}
  MaxBytes = 1
  MaxTotal = 1
  MaxChunk = 1
  RateMax = 1
SYMMETRY Symmetry
PROPERTY DuplicateIsConcurrent
CHECK_DEADLOCK FALSE

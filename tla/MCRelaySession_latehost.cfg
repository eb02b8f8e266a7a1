\* Two connections with the host key: the first ends the session while the hello of
\* the second is verified.
SPECIFICATION FairSpec
CONSTANTS
  Conn = {c1, c2}
  NoConn = NoConn
  Image = {i1}
  MaxBytes = 1
  MaxTotal = 1
  MaxChunk = 1
  RateMax = 1
PROPERTY HostedSessionEnds
CHECK_DEADLOCK FALSE

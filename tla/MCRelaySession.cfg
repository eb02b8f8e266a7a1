\* A host and two rivals for the viewer's place, or a second host, or a pairing after an
\* eviction: whatever three connections can play.  Liveness is checked with the safety
\* properties, so that the connections are not symmetric.
SPECIFICATION FairSpec
CONSTANTS
  Conn = {c1, c2, c3}
  NoConn = NoConn
  Image = {i1}
  MaxBytes = 2
  MaxTotal = 2
  MaxChunk = 2
  RateMax = 1
INVARIANTS
  TypeOK
  StoryOnlyToApproved
  OneApprovalPerToken
  LiveSessionExpires
  RefusedHoldsNoSlot
  ChunksWithinManifest
PROPERTIES
  OthersSpareTheSession
  SlotsAreHandedOver
  EveryConnectionEnds
CHECK_DEADLOCK FALSE

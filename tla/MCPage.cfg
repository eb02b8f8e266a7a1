\* A page with two tools, or its application alone, started and stopped.
SPECIFICATION Spec
CONSTANTS
  NoStory = NoStory
  Nothing = Nothing
  MaxAttempts = 2
  RelayKnown = TRUE
  Tool = {"read", "write"}
  WriteTool = "write"
  StoryToWrite <- Stories
  Bounds <- Mixes
INVARIANTS
  TypeOK
  AllOrNothing
  ErrorIsOfLastBatch
  QuietViewIsFresh
  PanelOfLiveSession
PROPERTIES
  PlaceKept
  LatestClaimWins
  FocusDroppedForCause
CHECK_DEADLOCK FALSE

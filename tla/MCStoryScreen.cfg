\* Some thousand small stories as they are, and an editor with the map and the reader of a few.
SPECIFICATION Spec
CONSTANTS
  None = None
  Dangling = Dangling
  Names <- AllNames
  Length <- Lengths
  Limits <- SmallLimits
  CardHeight = 40
  CardGap = 4
  ViewHeight = 64
  TopInset = 8
  FitMargin = 4
  Scales = {1, 2, 4}
  Pans <- PansTo
  Books <- Rewritten
  Screens <- AllScreens
INVARIANTS
  TypeOK
  PreviewIsTheStory
  PreviewReachesPhone
  MapAgrees
  ChipsLeadToPages
  PathIsAWalk
  ReaderImage
  CardsGetTheirImages
  FirstFitStays
PROPERTIES
  SelectedIsShown
CHECK_DEADLOCK FALSE

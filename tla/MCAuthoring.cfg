\* The agent writes while the page reads or deletes.
SPECIFICATION Spec
CONSTANTS
  Client = {"agent", "page"}
  Nobody = Nobody
  Absent = Absent
  Chapter = {"a", "b"}
  Ext = {"png", "jpg"}
  FirstChapter = "a"
  MaxOps = 4
  MaxText = 1
  MaxBlob = 3
  MaxTotal = 4
  MaxImage = 2
  MaxAttempts = 2
  MaxRevision = 4
  Request <- Requests
  Does <- Roles
VIEW View
INVARIANTS
  TypeOK
  NothingIsStranded
  OneImagePerPage
PROPERTIES
  AnswersAreOfOneRevision
  WritesFitTheStory
  ImplementsAtomicStore
CHECK_DEADLOCK FALSE

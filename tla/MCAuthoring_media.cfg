\* As MCAuthoring.cfg: can the index of the images always be read?
SPECIFICATION Spec
CONSTANTS
  Client = {"agent", "page"}
  Nobody = Nobody
  Absent = Absent
  Chapter = {"a", "b"}
  Ext = {"png", "jpg"}
  FirstChapter = "a"
  MaxOps = 4
  MaxText = 1
  MaxBlob = 3
  MaxTotal = 4
  MaxImage = 2
  MaxAttempts = 2
  MaxRevision = 4
  Request <- Requests
  Does <- Roles
VIEW View
PROPERTIES
  IndexIsReadable
CHECK_DEADLOCK FALSE

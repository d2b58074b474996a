CONSTANTS
  Requests = {"learn1", "learn2", "stop1"}
  KindOf <- KindByName
  Pollers = {"page"}
  PagePoll = "page"
  Files <- TwoFiles
  Epochs = 1
  MasterMayDie = TRUE
  MasterMayThrow = TRUE
  None = None
SPECIFICATION PageFairSpec
INVARIANTS PageTypeOK ResultsAreReal
PROPERTIES PageComesToAnEnd PageEndsWithTheServer
CHECK_DEADLOCK FALSE

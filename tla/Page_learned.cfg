CONSTANTS
  Requests = {"learn1"}
  KindOf <- KindByName
  Pollers = {"page"}
  PagePoll = "page"
  Files <- OneFile
  Epochs = 1
  MasterMayDie = FALSE
  MasterMayThrow = FALSE
  None = None
SPECIFICATION PageSpec
INVARIANTS FinishedMeansLearned
CHECK_DEADLOCK FALSE

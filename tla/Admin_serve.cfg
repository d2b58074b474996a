CONSTANTS
  Requests = {"learn1", "uml1", "table1"}
  KindOf <- KindByName
  Pollers = {"poll1"}
  Epochs = 1
  MasterMayDie = FALSE
  MasterMayThrow = TRUE
  None = None
SPECIFICATION FairSpec
INVARIANTS TypeOK OneAnswer
PROPERTIES MemoryBeforeDone EveryoneIsAnswered TrainingEnds
CHECK_DEADLOCK FALSE

CONSTANTS
  Requests = {"learn1", "uml1", "types1", "stop1"}
  KindOf <- KindByName
  Pollers = {}
  Epochs = 1
  MasterMayDie = TRUE
  MasterMayThrow = TRUE
  None = None
SPECIFICATION FairSpec
INVARIANTS InStep EveryPromiseIsHeld SuccessIsReal
PROPERTIES AnsweredBeforeStop IsJobService
CHECK_DEADLOCK FALSE

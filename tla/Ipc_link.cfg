CONSTANTS
  Jobs <- MCJobs
  MaxJobs = 2
  MaxProgress = 1
  ReplySize = 9
  MayDie = {"worker", "master"}
  Base = 3
  Capacity = 4
SPECIFICATION FairSpec
INVARIANTS JobsArriveWhole
PROPERTIES BothAreFifo EveryJobEnds
CHECK_DEADLOCK FALSE

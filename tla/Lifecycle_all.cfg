CONSTANTS
  list1 = list1
  list2 = list2
  compose1 = compose1
  search1 = search1
  prompt1 = prompt1
  Requests = {list1, list2, search1, prompt1}
  KindOf <- MCKindOf
  StoreMayThrow = TRUE
  None = None
  MayCrash = {"master", "admin", "client"}
SPECIFICATION FairSpec
INVARIANTS ClientTypeOK ClientInStep QuestionsAreHeld FailureIsTheMasters
PROPERTIES MasterEndsWithAdmin NobodyWaitsForTheDead ListsAreServed
CHECK_DEADLOCK FALSE

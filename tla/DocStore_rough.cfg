CONSTANTS
  Texts = {"a", "b"}
  Tags = {"t"}
  Words = {"x", "y", "v", "w"}
  UmlNames = {"u"}
  MaxVocab = 3
  MaxDocLen = 3
  DiskFaults = TRUE
  TextWords <- SharedWords
  TextTokens <- SharedTokens
  TagWords <- TwoTagWords
  Docs <- AnyDocs
  FeedbackIds <- SomeIds
SPECIFICATION Spec
INVARIANTS InputsWithinVocabulary
PROPERTIES IsDurableLibrary MismatchIsRepaired
CHECK_DEADLOCK FALSE

CONSTANTS
  Texts = {"a", "b"}
  Tags = {"t"}
  Words = {"x", "y", "z", "v"}
  UmlNames = {}
  MaxVocab = 4
  MaxDocLen = 2
  DiskFaults = FALSE
  TextWords <- SameWords
  TextTokens <- SameTokens
  TagWords <- WordOfTag
  Docs <- RepeatFreeDocs
  FeedbackIds <- NoIds
SPECIFICATION Spec
PROPERTIES ReuploadMatches
CHECK_DEADLOCK FALSE

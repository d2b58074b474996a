\* Documents without repeated chunks and a disk that takes every write; a
\* text whose words are known already, a tag that no text has, and a
\* vocabulary too small for all words.
CONSTANTS
  Texts = {"a", "b", "c"}
  Tags = {"s", "t"}
  Words = {"x", "y", "z", "v"}
  UmlNames = {"u"}
  MaxVocab = 3
  MaxDocLen = 2
  DiskFaults = FALSE
  TextWords <- NestedWords
  TextTokens <- NestedTokens
  TagWords <- WordOfTag
  Docs <- RepeatFreeDocs
  FeedbackIds <- NoIds
SPECIFICATION Spec
INVARIANTS TypeOK NoDanglingAnswer OutputsAreChunks StatisticsExact SavedStateIsCurrent
PROPERTIES EveryChunkLearned
CHECK_DEADLOCK FALSE

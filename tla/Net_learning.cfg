CONSTANTS
  Docs <- MCDocs
  Samples <- MCSamples
  MaxChunk = 4
  TagLists <- MCTagLists
  Dotted = {"v1.0"}
  Lettered = {"aa", "bb", "cc", "x", "v1.0"}
  Short = {"x", "7"}
  MaxVocab = 6
  Hidden = 2
  NumThreads = 3
  Epochs = 2
SPECIFICATION Spec
INVARIANTS ChunksKeepTheText LearningTypeOK IndexIsInverse
PROPERTIES IsConnections
CHECK_DEADLOCK FALSE

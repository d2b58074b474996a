CONSTANTS
  Uploads <- MCUploads
  Projects <- MCProjects
  NoName = ""
  DiskFaults = TRUE
SPECIFICATION FairSpec
INVARIANTS UmlTypeOK
PROPERTIES IsUmlCatalog OperationsEnd

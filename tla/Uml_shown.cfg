CONSTANTS
  Uploads <- MCUploads
  Projects <- MCProjects
  NoName = ""
  DiskFaults = FALSE
SPECIFICATION Spec
INVARIANTS CreatedIsShown

CONSTANTS
  NFiles = 1
  Threads0 = 3
  FileRecs = 3
  MaxTries = 1
  Bandwidth = 1
  SingleFile = TRUE
  IgnoreRecError = TRUE
  Interrupts = FALSE
SPECIFICATION Spec
PROPERTIES Termination
CHECK_DEADLOCK FALSE

CONSTANTS
  NFiles = 1
  Threads0 = 2
  FileRecs = 3
  MaxTries = 2
  Bandwidth = 1
  SingleFile = TRUE
  IgnoreRecError = TRUE
  Interrupts = FALSE
SPECIFICATION Spec
INVARIANTS ThrottleBound
PROPERTIES RestoreRefines

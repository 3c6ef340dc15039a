CONSTANTS
  NFiles = 3
  Threads0 = 2
  FileRecs = 2
  MaxTries = 1
  Bandwidth = 0
  SingleFile = FALSE
  IgnoreRecError = FALSE
  Interrupts = TRUE
SPECIFICATION Spec
INVARIANTS TypeOK SummaryStaleBound
PROPERTIES Termination RestoreRefines

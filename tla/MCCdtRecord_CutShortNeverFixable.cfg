CONSTANTS
  Vals <- MCVals
  ValRank <- MCValRank
  Inputs <- MCInputs
  NBins = 1
  CdtFix = TRUE
SPECIFICATION Spec
INVARIANT CutShortNeverFixable
CHECK_DEADLOCK FALSE

CONSTANTS
  Vals <- MCVals
  ValRank <- MCValRank
  Inputs <- MCRecordBins
  NBins = 2
  CdtFix = TRUE
SPECIFICATION Spec
INVARIANT FixesStick
CHECK_DEADLOCK FALSE

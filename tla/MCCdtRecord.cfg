CONSTANTS
  Vals <- MCVals
  ValRank <- MCValRank
  Inputs <- MCInputs
  NBins = 1
  CdtFix = TRUE
SPECIFICATION Spec
INVARIANTS
  TypeOK
  FixesStick
  FixContentStorable
  OrderedListVerdict
  MapFixHasDistinctKeys
  UnfixableLogged
CHECK_DEADLOCK FALSE
